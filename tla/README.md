# Kindness Chain in TLA+

Models, model checking and proofs for Kindness Chain, its server and its page: a small
site that takes a sentence from a visitor, stores it in SQLite and writes it to
Solana as a memo that points at the memo before it.

Paths below are those of the repository (`internal/...`, `cmd/...`).
`PROJECT.json` maps every definition to the lines it stands for.

## The system

| Component | State it keeps | Operations | Modelled in |
|---|---|---|---|
| Link store, `internal/store` | table `links` on disk: number, sentence, status, signature, prev, time | Insert, InsertGenesis, MarkConfirmed, MarkFailed, LastConfirmed, PendingInOrder, SeenSince, Counts, ListDesc | `LinkStore`; ListDesc in `Feed`; what a loss of power takes back in `PowerLoss` |
| Chain service, `internal/chain/chain.go` | queue of 1000 link numbers, flag `paused` | Start, Add, Duplicate, Stats | `ChainService` |
| Worker, `internal/chain/worker.go` | the link in hand, its memo, attempts and deadline | Run, process, confirm, fail, publishStats | `ChainService` |
| Server process, `cmd/server/main.go` | is it up, stopping, down | start, SIGTERM, exit, "exiting anyway" | `ChainService` |
| RPC client, `internal/solana/rpc.go` | one call at a time | SendMemo, waitConfirmed, GetMemo | `RpcSend`; as a few steps in `ChainService`; GetMemo in `ReadApi` |
| Solana cluster (not in the repository) | transactions, blocks | lands, rejects, lets expire, stops answering | `Cluster`, `RpcSend` |
| Submission gates, `internal/httpapi/links.go`, `pow.go`, `ratelimit.go` | seeds handed out, times of recent links per address and chain-wide | handleChallenge, handleAdd | `Intake` |
| Event hub, `internal/httpapi/sse.go` | open streams and their buffers | LinkChanged, StatsChanged, subscribe, handleEvents, Close | `Hub` |
| Page, `web/src` | list of links, stats, own link | loadFirstPage, loadOlder, the link in the address, events, submit | `Page`, `Feed` |
| Read API, `internal/httpapi/links.go` | none | handleStats, handleList, handleGet, handleVerify | `Page`, `Feed`, `ReadApi` |
| Chain walk, `cmd/walkchain` | none | walk | `ReadApi` |
| Sentence rules and memo size, `internal/chain/validate.go`, `memo.go` | none (pure functions) | Validate, normalize, fingerprint, fitsOnChain | `Rules` |
| Configuration, static files, browser's proof of work, fake chain, memo test | none | | not modelled |

How they interact. A handler of `POST /api/links` passes the gates of
`handleAdd` and calls `Add`, which stores the row and puts its number in the
queue. The one worker takes numbers off the queue, reads the row and the head of
the chain, calls `SendMemo` until it has an answer, and records it. After each
outcome it publishes the link and the stats to the hub. On a start the queue is
filled from the rows that are still pending. Handlers and worker share the store,
the queue and the flag; there is no lock around them. The hub copies what it is
told into a buffer per open stream, and a handler per stream writes it to the
browser. The page puts together what it loads, what the stream says and the
answer to its own submission, and loads again when the stream was lost.

What is hard here:

- handlers interleave with each other and with the worker at every statement of
  the store (`Add` is look, look, insert, queue);
- the machine stops, or is told to stop, with a memo anywhere between signed and
  recorded;
- the cluster answers late, not at all, or after the block it answered about is
  gone; transactions expire;
- the queue has an end; each link has one deadline for all its attempts;
- the gates peek, then record, then the sentence may be refused after all;
- a stream subscribes before it reads the stats of the moment, and drops what it
  has no room for; a page hears of one link from three sources without an order
  between them, and of nothing while its stream is lost;
- an older page joins a list that has changed since it was asked for;
- readers put together what they read at different moments: counts, then the
  head; the row, then the ledger; the stats, then one memo after another;
- a sentence is checked in the browser, in `handleAdd` as it was typed and in
  `Add` once more, each time after another cleaning;
- SQLite does not sync at each commit.

What makes each part correct: what is recorded agrees with the ledger; each memo
points at the head of the chain; every link is settled, at most once; the queue
holds each pending link once; the result of a send says the truth about the
transaction; a seed buys one submission, an answer of 429 is charged to nobody,
and only requests that overlap exceed a limit; a stream that lost nothing ends with
the latest stats, none holds up the shutdown, and a page catches up after a gap; its
list skips nothing; who walks the ledger finds what the site counts; the checks of
a sentence agree. The full list of hazards, each at its line with the properties
that cover it, is in `PROJECT.json`.

## Modules

- `ChainTypes`: numbers, signatures, memos. Signatures are numbers in the order
  of signing, so "before" is `<`.
- `LinkStore`: the table and its statements. `created_at` is reduced to
  `horizon`, the oldest number less than a day old: rows get their times in the
  order of their numbers, up to the moments between two handlers, and only the
  duplicate window looks at them.
- `Cluster` (external): a transaction is `sent`, then lands, is rejected or
  expires, once, whether or not anyone still waits for it.
- `ChainService`: the process. `visit[v]` is the program counter of a handler in
  `Add`, `at` that of the worker:

  | `at` | the worker is |
  |---|---|
  | `idle`, `stopped` | in the select of `Run`, or past it |
  | `sending` | before or in `SendMemo`, nothing sent |
  | `waiting` | in `waitConfirmed` for transaction `sig` |
  | `confirming`, `failing` | before MarkConfirmed, MarkFailed |
  | `pausing` | before the stats that say the chain is paused |
  | `backoff` | in the wait between attempts |
  | `announcing` | before the stats that follow an outcome |

  Each kind of trouble is a member of `AllEvents`; `Events` says which a run
  allows, and `MaxEvents` how often altogether.
- `PublicChain`: the abstract specification, rows and ledger only.
- `ChainProperties`: the properties of the above and the refinement mapping.
- `MCChain`, `MCIntake`: the instances for TLC of `ChainService` and `Intake`, with
  what is alike there symmetric.
- `ChainService_proofs`, `ChainQueue_proofs`: the proofs about `ChainService`. The
  second has the queue (no link twice in it, none left behind, the memos in
  order), how often a sentence is taken in a day, and what of all this `PowerLoss`
  keeps.
- `RpcSend`, `RpcSend_proofs`: one `SendMemo`, one action per RPC call, against a
  cluster that processes, drops and confirms blocks meanwhile.
- `SendCall`: the abstract specification of that call: the steps `ChainService`
  takes for it, and one transaction of `Cluster`.
- `PowerLoss`: `ChainService` on a machine that can lose power. `unsynced` holds
  the tables before the statements no checkpoint has synced; `LosePower` is a
  crash that goes back to one of them. A process that returns from `run` closes
  the store, which makes a checkpoint.
- `ReadApi`, `ReadApi_proofs`: those who only read, one at a time, next to every step of
  `ChainService`: Stats as its three reads, handleVerify as its two, and the walk
  as a recursive function over the ledger, taken from the head that Stats
  reported. (It compares a memo with the one it points at instead of carrying the
  last one along; the first has none to compare with.) The ledger only grows, so the walk, which takes minutes, finds what
  it would find at once, except for a reset of devnet (`ClusterReset`), after
  which it finds nothing that was there before.
- `Rules`, `Rules_proofs`: the rules for sentences and the size of a memo. Texts are sequences of
  runes, one or two runes for each class the code tells apart (space, invisible,
  punctuation, symbol, letter); `normalize` and `fingerprint` are the one loop
  they share, `Written`, with another set of runes to drop; `Write` is one round of it. A visitor who types
  makes the states.
- `Intake`, `Intake_proofs`: the gates, one action per lock, and the proofs about the
  seeds and the limiters. The two limiters are one function `hits` whose keys are
  the addresses and `"chain"`; what a key recorded is a set, in which `nr` tells
  apart what was recorded at one moment.
- `Hub`: the streams. `handler[c]` is the program counter of `handleEvents` for
  connection `c`, `buffer[c]` its channel, `wire[c]` what is written and not yet
  read; the headers of the response are the message "open". Of the worker there
  is left what it announces and when, of the stats the set of links they count.
  `told` and `missed` are history: the stats last written to a stream, and
  whether something it should have told was lost (its buffer was full, the stats
  could not be read).
- `Page`, `Page_proofs`: one browser on top of `Hub`, and the proofs about both. `shown`, `numbers` and `mine` are the
  state of `App.tsx`, `loads` the calls of `loadFirstPage` under way with their
  two answers, `dropped` the flag of `events.ts`. `unsure` is history: a link was
  settled at a moment of which the page had no way to hear (an answer was under
  way, or the page had loaded and not yet connected). The browser's
  `EventSource` is external. A load may outlive a restart of the server: a proxy
  may hold its answer.
- `Feed`, `Feed_proofs`: which links the page's list shows when there are more than fit one
  page. `calls` are the requests under way, each answered at one moment and
  applied at a later one; the effect for the link in the address runs in the step
  that changes what it depends on. `base` and `strayed` are history: how far up
  the last first page reached, and whether the list took a link below its end
  that leaves a gap. `Sorted` and `Without` are the sort and the filter of the
  page, by the rank of each position, because the provers cannot look into
  `SortSeq` and `SelectSeq`. `Page` and `Feed` are two views of `App.tsx`: `Page` has what
  the rows say, with one page of them; `Feed` has which rows there are.

`ChainService` and `RpcSend` describe the same calls at two grains, and
`SendCall` stands between them: it has `ChainService`'s steps `SendFails`,
`Submit`, `SeeConfirmed` and `SeeRejected` without what they do to the rest of the
server, and one `GiveUp` for every wait that ends without an outcome. `RpcSend`
implements it (`IsTheCallTaken`): "ok" only for a transaction that landed,
"rejected" only for one that never will, one transaction a call, and no outcome
that changes later. The refinement mapping counts a transaction as sent once it is
signed, as refused from the first block it fails in, and as expired when a block
past its last valid one is confirmed without it. That `SendCall`'s steps are those
of `ChainService` is by reading, name by name. So is what `ChainService` takes from
`Rules`: that a sentence `Add` accepted is never too large to send
(`WhatIsTakenFits`), unlike the pledge (`PledgeFits`). Likewise `Hub` settles
pending links in any order, of which the worker's order in `ChainService` is one.

Definitions marked "mutant" are plausible mistakes in the definition they stand
before; `PROJECT.json` says which property each of them breaks. No specification
uses them.

## Runs

| Run | Question | Result |
|---|---|---|
| `core_faults` | do the ledger, the rows and the queue agree under every kind of trouble? | holds |
| `core_in_order` | with one request at a time, crashes and losses of power: one chain in order, nothing left behind? | holds |
| `core_live` | is every link settled? | holds |
| `readers` | without kills and late answers: one memo per link, no failed link on the ledger, no page left with old numbers, no sentence taken more often in a day than requests run at once? And does whoever reads, verifies or walks find what the site says? | holds |
| `rpc_send` | do the results of a send say the truth, is it what the worker takes it for, and does it return? | holds |
| `intake` | one pass per seed, seeds last as promised, the limiters hold what they let through, and requests that overlap miss a limit by no more than a bound? | holds |
| `streams` | has a stream that lost nothing told the latest stats? | holds |
| `page` | does a page catch up with the store after lost events and restarts, and does no stream hold up the shutdown? | holds |
| `feed` | is each link listed once, newest first, none skipped, and can the older ones be loaded? | holds, for a list that did not stray |
| `rules` | do cleaning, duplicate check, the two checks of the server and the form's agree, and does a memo fit? | holds |
| `walk_short` | does a walk from the head find every link the site counts? | no |
| `deadline_stuck` | does the worker let go of every link in the end? | no |

The runs answered "no" quote, in `PROJECT.json`, the sentence of the repository
that says otherwise. In `walk_short` the worker is told to stop while it waits to
send a link again. It drops that link, and the select in `Run` takes the next
number once more before it sees that the server stops. The next link is
confirmed; after the restart the dropped one is written with a `prev` that points
at the later one, and the head of the chain, the highest number, stays where it
was. A walk from the head passes by the link that was written last: the command
then prints that the site reports one link more than the walk found.
`deadline_stuck` is the one with lasting effect on the server: after an outage of
five minutes the worker holds its link with a context that is over, and nothing
is written until someone restarts it.

Two promises of the repository's README do not hold for requests that overlap:

- a sentence is taken once in a day. Two requests look for it before either inserts
  its row (`chain.go:154` and `chain.go:164`; `AddCheck`, `AddInsert`), and both get a
  link;
- three links an hour for an address, ten a minute for the chain. Handlers that peek
  before either is counted all go on to `Add`, because `handleAdd` ignores what
  `allow` answers (`links.go:116-129`; `PeekAddress`, `CountAddress`).

`readers` and `intake` have such requests, two at a time, and ask how bad it gets.
A sentence has at most one link a day for each request that can run at that moment
(`RepeatsAreSimultaneous`). A limit lets `Limit` actions through, each with no more
around it than the other requests of its moment, and so has the one before the
window: `Limit * n + n - 1` for `n` requests at once (`OvershootIsBounded`). `intake`
reaches that number. How many requests can run at once nothing in the code says.
The limiters are in memory, so what is said of them is since the last start; the
rows outlast crashes and losses of power, and so does what is said of sentences
(`TakenNoMoreAfterPowerLoss`).

More of the kind came up while the models were written. They are steps of the
models and have no run of their own:

- two handlers whose inserts and sends to the queue cross have the effect of
  `walk_short` without a shutdown (`chain.go:164`, `chain.go:169`; `AddInsert`,
  `AddEnqueue`);
- a transaction that lands between the status poll and the height poll, or whose
  status poll failed, is reported expired, and the worker sends the memo again;
  the comment at `solana.go:32` says it was never seen and cannot land
  (`PollStatus`, `StatusUnseen`, `PollHeight`);
- after a crash with a full queue and a link in hand, `Start` finds one pending
  link more than the queue holds and leaves it out (`IsRefill`);
- a pledge the cluster refuses is never written again: link #1 then says
  "genesis" (`InsertGenesis`, `Fail`);
- a sentence whose memo is too big is refused in `Add`, after both limits were
  charged (`AddFails`);
- the flag "paused" outlives a link that failed (`worker.go:102` leaves it), until
  the next memo lands (`Fail`);
- a load that was answered before a link was settled replaces newer numbers and
  rows when it arrives (`Loaded`), and a link settled between the first load and
  the first connection is never shown as settled: `CatchesUp` excludes both with
  `unsure`;
- the answer to a submission that arrives after the event of its settlement puts
  the link back to "pending" (`Submitted`);
- a load that fails after a reconnect is not tried again, and neither is an
  `EventSource` that got 503 (`LoadFails`, `GivenUp`);
- the visitor's own link, settled while the page has no stream, is shown as
  confirmed by the list the page then loads; the form, which `LinkForm.tsx:34`
  says hears of it through the stream, goes on as before (`Loaded` leaves `mine`);
- a link that comes alone below the end of the list (the one named in the
  address, or an old one just settled) becomes the end from which "load older"
  goes on, so the links between are never loaded; if it is #0 the request has no
  `before`, brings the newest page again, and the button stays without effect
  (`LeavesGap`, `LoadOlder`; an older page asked for before the list was loaded
  again skips links, too). `NothingSkipped` and `ButtonStays` exclude a list that
  strayed like that;
- the form counts the spaces the server collapses, and refuses as too long some
  sentences the server would take (`FormCount`, `normalize`);
- a loss of power can take an accepted sentence back while its memo is on the
  ledger; its number goes to the next sentence, and the ledger then has two memos
  of that number (`LosePower`). What the rows call confirmed stays on the ledger.

### Bounds

- Links: the pledge and two more (`MaxLinks` 2), three in `core_in_order` and
  `readers`; the latter has one sentence, so that a third row of it would fit. Two
  visitors' links are enough for every race between two handlers, and the third
  gives a link between two others. A request starts only while there is a number
  for it (`RoomForARow`).
- `MaxSends` is `MaxLinks + 1 + MaxEvents`: each link needs one transaction, and
  a further one is only signed after trouble (an expiry, a crash, an outage, a
  late answer, an outcome that was not recorded), of which there is at most
  `MaxEvents`. So the bound never stops the worker.
- Queue of 1 to 4 for the 1000 of the code: 1 and 2 let it fill up; the runs
  where it must not fill have room for every row.
- `PausedAfter` 2 for 3: attempts are counted up to it, and what follows the
  threshold is the same for both.
- Two troubles in one behaviour: any two kinds, in any order, at any step; three
  in `core_live`, so that each of two links can meet its own and the restart one
  more.
- `PowerLoss`: one loss takes one statement back (`MaxLost` 1), at any moment
  until the next checkpoint, and there are two. `core_in_order` has no shutdown:
  with one, order is lost in the way `walk_short` shows.
- `readers`: a queue of one, so that it fills; one reader at a time, because
  readers change nothing; one reset of devnet, and none while the worker waits for
  a transaction, whose outcome it would leave open.
- `feed`: pages of two and five links, so that there are up to three pages, the
  last full or not; two requests of the page at a time, which lets any two answers
  overtake each other.
- `rules`: five runes in two fields out of eight, a marker and a word of two
  runes, lengths of 3 to 4 and 2, memos of 9 bytes: each refusal, each limit and
  each neighbourhood of two runes with a third in between occurs. For texts of any
  length there are the proofs.
- `RpcSend`: blocks of a validity of a few for Solana's 150; every relation of
  last valid, processed and confirmed height occurs.
- `Intake`: windows of one and two ticks, limits of one (for an address)
  and two, two addresses and four seeds, so up to four submissions: one more than
  `OvershootIsBounded` allows an address in a window, and the three it allows
  occur. The clock ends at `MaxTime`, when the first action has left the longest
  window.
- `streams`: two links, three connections, room for two and buffers of two: a
  third connection is refused, or takes the place of one that ended; two
  outcomes are four messages, so buffers fill up. One restart. Two states that
  differ only in what is on the wire count as one (`ButForTheWire`): without a
  browser to read it, no step looks at the wire.
- `page`: one link, two connections one after the other, room for one stream, so
  the second is refused while the handler of the first has not returned; a
  buffer of one, so that the stats after a link get lost; one restart.

`CHECK_DEADLOCK FALSE` everywhere: a server that has nothing to do waits for
visitors, and a call of `SendMemo` that returned is over. The bounds end the
behaviours, too.

### Fairness

`core_live` and `deadline_stuck` assume weak fairness of the worker, of each
handler past its check, of starting and ending the process, of each transaction's
settling and of the node's recovery. Go runs every goroutine that can run, and
each of their waits has a timer; the platform restarts the machine
(`min_machines_running = 1`); a blockhash ends after 150 blocks, so what was sent
settles. Weak fairness is enough: nothing disables a worker's step for ever but
the end of its wait. Visitors and trouble are not fair.

`core_live` leaves out a spent deadline (see `deadline_stuck`), failures of the
store and the hung shutdown; and its queue has room for every link: a link that
was left out of the queue, or whose row could not be read, waits for a restart
that nothing promises.

`page` assumes that a handler opens its stream when it can, and returns when its
select finds the hub closed or its request over: no more than that its goroutine
runs. The wire of the model takes whatever is written, so the fairness says
nothing of a handler blocked in Write by a browser that does not read. Nothing
is assumed of the browser, the network or the worker.

`RpcSend` assumes that calls return, because each has the context, and that the
90 seconds end.

## Proofs

`tlapm` checks every theorem, for all values of the constants that satisfy the
named assumptions: `BoundsAssumption` and `ServiceAssumption` for `ChainService`
and what extends it (with `LostAssumption` for `PowerLoss`), `HeightsAssumption`
for `RpcSend`, `IntakeAssumption`, `HubAssumption`, `FeedAssumption` and
`RulesAssumption`. They say
that bounds are natural numbers, that sizes, limits and windows are positive,
that `Events` is any set of known kinds, that visitors and requests are finitely
many (of these at least one) and no address is called "chain". Every invariant of
the passing runs is
proved, and so are their properties other than liveness.

| Theorem | Says | Provided that |
|---|---|---|
| `TypeCorrect`, `Invariant` | `[]TypeOK`, `[]IInv` of `ChainService` | |
| `LedgerAgrees`, `PointsAtHead` | `[]ConfirmedIsOnLedger`, `[]PrevIsHead` | |
| `Implements` | `ChainService` implements `PublicChain` | |
| `HandedOutOnce` | `[]QueueSound` | |
| `NoneLeftBehind` | `[]NothingStranded` | `QueueHoldsAll`, `Unhindered` |
| `TakenNoMoreThanAtOnce` | `[]RepeatsAreSimultaneous` | |
| `EachFollowsTheLast` | `[]EachPointsAtTheOneBefore` | `Orderly` |
| `LedgerAgreesAfterPowerLoss`, `NoneLeftBehindByPowerLoss`, `TakenNoMoreAfterPowerLoss`, `OrderSurvivesPowerLoss` | the same of `PowerLoss` | as above |
| `OneMemoIfWatched`, `FailedNotOnChainIfWatched` | `[]OneMemoPerLink`, `[]FailedNotOnChain` | `Watched` |
| `PagesAreTold` | `[]StatsCurrent` | `Unhindered` |
| `VerifyAgrees`, `WalkNeverStumbles`, `WalkFindsAll` | `[]VerifyNeverDiffers`, `[]WalkIsClean`, `[]WalkFindsWhatIsCounted` of `ReadApi` | |
| `AsTaken` | `RpcSend` implements `SendCall` | |
| `AlwaysSound`, `OkIsForGood`, `ExpiryIsFinal` | `[]Sound`, `[]OkIsConfirmed`, `ExpiredIsOver` of `RpcSend` | |
| `TypeCorrect`, `SealBuysOneLink`, `SealsAreKept`, `ChargesAreExact`, `OvershootHasABound` of `Intake_proofs` | `[]TypeOK`, `[]OneLinkPerSeal`, `[]SealsLast`, `[]ChargedExactly`, `[]OvershootIsBounded` | |
| `HubTypeCorrect`, `StreamTellsTheStore` | `[]HubTypeOK`, `[]StreamIsCurrent` of `Hub` | |
| `PageTypeCorrect`, `PageCatchesUp` | `[]TypeOK`, `[]CatchesUp` of `Page` | |
| `CleansAsTold`, `TheChecksAgree`, `NothingGetsPast`, `FormIsNoStricter`, `TakenFits` | `[]CleansAndComparesAsTold`, `[]ChecksAgree`, `[]NothingHidden`, `[]FormKnowsTooShort`, `[]WhatIsTakenFits` of `Rules` | |
| `FeedTypeCorrect`, `ListIsNewestFirst`, `ListSkipsNothing`, `ButtonStaysOn` | `[]TypeOK`, `[]NewestFirst`, `[]NothingSkipped`, `[]ButtonStays` of `Feed` | |

The provisos speak of the constants, and each holds of those of a run that checks
the property: `QueueHoldsAll` says that the queue has room for a number more than
there are links to come; `Unhindered` that the store works and no link takes its
five minutes; `Orderly` these two, that there is one visitor (`OneAtATime`) and
that no process is stopped in good order (see `walk_short`); `Watched` that
nothing happens but shutdowns, expiries and the passing of the day, so that the
worker sees the end of each transaction. Without it the property
can fail; "Runs" lists the ways that matter. What else fails there (crashes,
outages, late answers) is as many times as one likes.

### ChainService

`PrevIsHead` is not inductive: confirming a link sets its prev to what the worker
read long before. `InHand` says that from then on the link stays pending and the
head is still the one read. Nothing but the worker confirms links; handlers only
add pending ones, and a crash lets go of the link. `Newest` says the transaction
waited for is the last one signed and carries the worker's memo, so that a link
is recorded with its own memo and later than all others. `Signed` says that what
a transaction points at is "genesis" or a memo that landed, `RowsFill` keeps rows
from being written twice, and `Admitted` says that handlers only run once the
pledge has its row, so number 0 is never a visitor's. These are `Durable`.
`SignedRows`, which ties every transaction to a row, makes it `IInv`; it is apart
because a loss of power does not keep it.

The proof groups the parts by what they read: the tables (rows and
transactions), the worker's hand, the handlers. One lemma for each change to
the tables (insert, sign, settle, confirm, fail) carries the argument, frame
lemmas deal with the actions that leave a group alone, and each of `TypeNext`,
`DurableNext` and `SignedRowsNext` has one step per action. `Implements` maps rows
to rows and landed transactions to the ledger: Add's insert is `Admit`, the
landing of a transaction `Write`, MarkConfirmed `Record`, MarkFailed `Refuse`, all
else stutters.

The queue. `QueueSound` needs `HeldByOne`, which speaks of the handlers: a number
that was stored and not yet queued is with one visitor, pending, and neither in
the queue nor with the worker. So Add's last step can only queue a number that is
nowhere else. `Start` fills an empty queue from the pending rows before any
handler runs; `QueueInv` has that a process that is down has none.

Nothing is left behind because every pending link is carried: by the queue, the
worker or its handler (`CarriedInv`). The step that could lose one is the send to
a full queue, and it is never full: the links in it are distinct and the one to
be sent is another (`RoomForOneMore`, by the pigeonhole principle). With that, and
one visitor at a time, the queue is in the order of numbers, the worker takes the
lowest pending one, and all below it are settled (`OrderInv`); so the memo it
confirms is next to the last confirmed one. For duplicates `DupInv` counts: the
rows of a sentence within the day and the visitors who have passed its check and
not yet stored it are together no more than there are visitors. While there is
such a row nobody else passes the check, and each insert turns one of those who
did into a row.

After a loss of power the table is one of those in `unsynced`. `Sound` is what
`Durable` says of the rows, said of each of these, against the ledger of now: the
ledger only grows, and what it has stays as it is (`LedgerGrows`), so an old table
stays sound. Their rows are nested, so no number that came back is still held by
someone; the same is done for order. Duplicates need less: an old table has no
more rows of a sentence within the day (the horizon only moves up).

One memo per link: `Accounted` says that a transaction under way is the one the
worker waits for, and one that landed is on record or about to be, so that a
second memo would need a second row. `Told` says that the stats last published
are those of now unless the worker still owes them.

### Readers

What a reader holds stays true because confirmed rows do not change and memos on
the ledger stay (`RowHeld`, `HeadHeld`: the head a reader got is that of a
confirmed link, and no link it counted has a higher number). The walk is a
recursive function, and three facts take the place of an induction. By
`PrevOlder` a memo points at an older one, so the recursion has an end and the
function exists (`WalkUnfolds`). Every non-empty set of numbers has a least
element (`Least`, from the well-foundedness of strict inclusion of finite sets); so
if a walk went wrong from some memo there would be an oldest such memo, and the
one it points at rules that out (`WalkCleanFrom`, `WalkFindsFrom`).

### RpcSend, Intake

`Sound` ties a block that holds the transaction to heights up to the last valid
one, and a report of expiry to heights past it; then no later block can hold it.
`AsTaken` takes the blocks first: whatever a block does, `Outcome` stays as it is
or goes from "sent" to a settled one (`BlocksSettle`). The steps of the call leave
it alone, and one that returns "ok" or "rejected" finds it settled (`TakenReturns`).

`OneLinkPerSeal` follows from `Spent`: a seed that got a request through is not
issued any more, and a seed is issued once. `SealsLast` follows from `Kept`: a
seed a browser may count on is issued, or the sweep took it past its life.
For the limiters `Recorded` says that what a key holds inside its window is what
was let through there, one for one, so a window holds at most `Limit` of those.
What `allow` refused and `handleAdd` let pass is the rest. `Closed` says that once
the limit is reached nobody gets past the peek, so that there come only those who
were past it when the last allowed action was recorded (`Crowd`); they are fewer
than the requests, for one of these recorded that action. Hence `Follows`: each
refused action has an allowed one less than `AtOnce` places before it. In a window
all but the first few have it inside (`InOrder`), and `OvershootCount` adds up.

### Hub, Page

`HubInv`: while the worker has nothing to announce, the last stats in the buffer
of a stream that missed nothing are those of the store, or, if there are none,
those it has told. `Announced` says that the link the worker is about to announce
is settled, and `Fresh` that a connection not yet used has nothing in its buffer.

`PageInv` says that what is on its way to a page decides what the page will show.
If the page is sure, every answer under way is of now (`AnswersCurrent`); what its
stream has still to tell is true (`Truthful`), and the numbers and the settled
links are shown already or come with the stream or with a load
(`NumbersAhead`, `ShownOrAhead`); a page that lost a stream will read the opening
of the next one and load again (`OpensFirst`). So one that has nothing on its way
shows what there is. The hub's steps come to the page's proof as one relation
(`HubStep`), so that each part of the invariant treats them once.

### Feed

Sorting: each position has a rank, the number of positions ahead of it; ranks
differ, so they are all the numbers there are (`Places`), and the sorted list has
the same links, falling (`SortedList`); likewise the filter (`WithoutList`). A page
is a run of consecutive numbers that ends at #0 if there is no further page
(`PageIs`, `Run`). What remains is arithmetic on the set of links shown and its
least element: an older page asked for below a link that is not below the end
of the list closes up with the list (`OlderStep`), and so does a link that leaves no
gap (`UpsertStep`). The requests need that no answer is from the future
(`GoodCalls`).

### Rules

The invariant is only that the fields hold runes; the claims are about every text,
and follow from what the operators compute. The induction over a text is over the
least prefix of it for which a claim fails (`EveryText`, from `Least`).
`LoopExists` and `LoopResult` say that the recursive function behind `Written` is
there and what it satisfies, and `WrittenUnfolds` reduces what follows to one round
of the loop, `Write`.

`SqueezeTwice` is the heart of `fingerprint`: a pass that drops one set after a
pass that drops another is one pass that drops both. What relates the two is the
state of the loops: the second has written what the single one has, and once
that is something, the single one waits for a space when one of the two does. From it, with `SqueezeLower` (capitals do not
matter to the loop), comes that the checks agree on a text and on the cleaned one.
`SqueezeIsSqueezed` gives the loop the meaning `IsSqueezed` has without a loop: the
round that adds a rune adds one place for it, one more if it stands apart, and
leaves the places before it.

For `NothingHidden` the proof carries the cleaned text along with the one a reader
would see (`OneMoreRune`): what stands next to each other in the latter, a marker
or a word with what delimits it, stands so in the cleaned text, where the checks
look (`HidesStep`). A word and a marker have no blank inside, so that collapsed
blanks cannot tear one apart. The form's count ends at the last rune that is no
space and starts at the first, and no rune the server keeps lies outside.

### Only model-checked

Liveness (`EveryLinkSettles`, `Returns`, `ShutdownIsNotHeldUp`): no prover here
does fairness. That the assumptions on the constants can hold together with the
provisos is what the runs show, whose constants satisfy them.

## What is left out

- Texts: outside `Rules` sentences are model values up to their fingerprint, and
  memos three fields. In `Rules` a rune stands for its class; lower case is one
  pair of letters, and a letter is one code point in either case.
- The wording of the pledge, `Money` and `Pledged`: printed lines.
- A process started with proof of work off, and the honeypot: neither changes
  state that is modelled. (The number the honeypot makes up is the confirmed and
  pending links plus one, `links.go:168`, which is too low once a link failed.)
- In the page: how a row is drawn, its own verify request, copying its address.
- The heartbeat of a stream and a handler that is blocked in Write; in `Hub`, the
  stats that say the chain is paused (`worker.go:74`), which count nothing new.
- The seconds: delays, timeouts and heartbeats are choices of when.
- A clock read and the lock after it are one step in `Intake`.
- Loss of power and a reset of devnet outside `PowerLoss` and `ReadApi`: the
  crash of `ChainService` is that of a process, which keeps what was committed.
- A walk from a signature given by hand: it may be any memo of the signer, also
  one no row knows.
- Configuration, static files and middleware, the memo test: they read once or
  serve bytes, and keep no state. The fake chain is a double for tests (it counts
  its signatures from 1 at each start). The browser's proof of work is a search
  for a hash; the seed it spends is in `Intake`.
- Two server processes on one database: the volume is mounted on one machine.
- Rows from before the fingerprint column existed.

## Plan

Done: `LinkStore`, `Cluster`, `ChainService` with `PublicChain`; `RpcSend`;
`Intake`; `Hub` with `Page`; `ReadApi`; `Rules`; `PowerLoss`; `Feed`; the proofs
named above.

Next, extending the model: the fingerprints `Start` gives to rows from before the
column existed, with a crash between two of them.

Next, proving more:

1. That `ChainService` has the steps of `SendCall`, by writing its steps with those
   of `SendCall` in place of a copy of them.
2. `Hub` next to the worker of `ChainService` instead of one that settles links in
   any order.
3. Liveness, once there is a prover for it: `EveryLinkSettles` first.
