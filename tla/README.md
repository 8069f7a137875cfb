# A verification development for ENTITY

TLA+ models of the stateful core of the ENTITY repository, TLC runs that check
them on small instances, and TLAPS proofs of the main results for every value of
the constants. Paths below are relative to the repository root; `src/src/` is
the implementation, and this directory is kept beside it.

    tlc -workers 2 -config btdu_safety.cfg MCBTDUStorage     # a run
    tlapm ExchangeProofs.tla                                  # the proofs of a module

`PROJECT.json` lists the components, the runs, the mutants that show each
property can fail, the source lines behind each definition, the findings, the
hazards and the theorems.

## 1. Inventory

The implementation is about 22,800 lines of Python in `src/src/`. Most of it
validates and builds signed documents and appends them to a table; the parts
whose correctness depends on interleaving, crashes or long sequences of calls are
few, and they come first here.

| Component (source) | State | Operations | What is hard | What makes it correct |
|---|---|---|---|---|
| **BTDU storage kernel** (`40_BTDU/storage_kernel.py`) | segment files, manifest sidecars, SQLite index (segments, chunks, payload_chunks, chunk_references, payloads), `storage.lock` | put, delete, retain and release references, recover_index, verify, gc_report | several processes; three kinds of durable state changed one after another; torn appends; crashes anywhere; index removed before it is rebuilt | acknowledged payloads survive, deleted ones stay away, the index never points at the wrong bytes, reference counts are exact, every call ends |
| **Exchange protocol** (`31_Profiles/exchange_protocol.py`) | venues, instruments, balances, disclosures, listings, orders, trades, clearing, RFQs, quotes in one SQLite database | signed wires that record each; match_order_book, run_call_auction, settle_trade, retirement, withdrawal | checks in one transaction and writes in the next; loops of transactions; auctions executing from rows read before | no seller promises more than it holds, no order overfilled, every trade allowed by both orders, balances explained by settlements |
| **EEP mirror** (`32_V3_Hardening/exchange_protocol.py`) | the same tables | the same, older | as above, different self-trade rule | as above |
| **Market registry** (`45_ENTITY_Market/canonical_market_registry.py`) | namespaces, packages and listings in its own database, beside EEP's | claim namespace, publish package, create listing | two databases committed one after the other; a namespace looked up before it is claimed | every listed package has its EEP listing, one owner per namespace |
| **Prelaunch withdrawal** (`45_ENTITY_Market/prelaunch_withdrawal.py`) | three databases and copies of them | audit, apply | audit before apply; three commits; copies restored on an exception, not after a crash | all or none of the databases change |
| **ADAM universe and recovery** (`11_ADAM/full_runtime/`, over the vendored `adam_v41`) | event log, checkpoint and receipt; atoms, bonds and versions in memory | record a transition (four commits), compact, open | plans read without the lock; appends that fail half-way; three files replaced one after another; replay | what was acknowledged is there after a restart, at its place; no update is lost; of the past only a fact that returns is erased |
| **Economic participation** (`33_Economic_Participation/economic_participation.py`) | policies and their withdrawals, reserve allocations, economic events and obligations | define, withdraw, allocate a reserve, capture a trade, settle | checks in one transaction and writes in the next, over two databases; captures late, repeated or concurrent | one obligation for a trade; balances are issue, settled trades and the reserve the policies' database records; promises stay covered |
| **Market recovery** (`34_Market_Recovery/market_recovery.py`) | journal of signed wires | replay into an empty exchange | order of replay, partial replay | the replayed exchange equals the original |
| **Sovereign domain** (`22_Sovereign_Domain/`) | versioned manifests, presence leases | publish, resolve, migrate, recover | leases expiring while they are read, older versions arriving later | a version never goes back |
| **Entity registry** (`04_Entity_Registry/`) | hash-chained event ledger, rights claims, assets, credentials | append, assert and close claims, bulk ingest | reports made after the commits they report; interrupted ingests | each record reported once, or known to be lost |
| **Core runtime** (`01_Core_Runtime/`) | licences and their signed events, usage tickets and receipts; identities, permissions, settlements | draft, offer, counter, accept, activate, revoke, terminate; issue and consume tickets, record uses | rows compared with what was loaded, or not; claims closing meanwhile; a ticket and its receipt in two transactions | a licence's events are one path, its terms were accepted and its authority is current; one receipt for a ticket |
| **Operations** (`15_Operations/`) | backups, ingest jobs, service state | back up, restore, ingest, transition | ingest resumed after an interruption, told from the ledger's timestamps | a batch is ingested once |
| **Wallet** (`42_ENTITY_Wallet/`) | a user's keys, datachips and assets on disk | onboard, ingest, resolve | staged writes of onboarding | a wallet is complete or absent |
| **Transaction fabric** (`30_Universal_Transaction_Fabric/`) | envelopes | accept, settle | retries of one envelope | once each |
| **DCO factory, passports, adoption, reality, profiles, packages, NIKI, bridges** (`31`, `32`, `35`-`39`, `41`, `43`, `44`, `10`) | mostly none, or append-only tables of documents | build, validate, sign | cryptography and formats | outside the reach of these models |
| **Vaults** (`08_Data_Vaults/`) | encrypted files | seal, open | formats, external sources | outside the reach of these models |
| `genesis_master/` but for its vendored `adam_v41` and `adam_v42`, `sdk/`, `native/`, `ios/`, `tools/`, `independent-node/` | | | an earlier copy that has diverged; clients and tools | not modelled; the two vendored packages are what the ADAM runtime of `src/src/` executes, and `AdamUniverse` maps to them |

**How they interact.** The market registry calls the exchange to list what it
publishes; market recovery replays the exchange's wires; prelaunch withdrawal
edits the databases of the exchange, of participation and of the factory; participation
reads the exchange's trades and moves its balances; usage control reads the licences, which
read the rights claims, and all three report to the event ledger; BTDU's formula
and directory layers, the wallet's ingest and the DCO factory store bytes in the
storage kernel; ADAM's runtime records authorized transitions in a universe of its own.
Components share state through files and SQLite databases, and only ADAM's threads through
memory, so an action of a model is one transaction, one file operation or one section
under a lock, and everything else may run in between.

## 2. Plan

In this order, the most important behaviour first.

1. *Done.* `BTDUStorage` over `PayloadStore`: checked, every safety invariant and the
   refinement proved.
2. *Done.* `Exchange` over `EntitlementLedger`, then `ExchangeAuction` on the
   same tables: checked; every safety invariant and the refinement proved, with auctions
   and without.
3. *Done.* `AdamUniverse`: the log, the checkpoint and the plans of one process and its
   restarts; every property of its run proved.
4. *Done.* `Participation` over `Exchange`, and `PrelaunchWithdrawal`, which composes the
   two databases with the migration that edits both; the properties of their run proved.
5. *Done.* `Licensing` (contracts, rights claims, the ledger) and `UsageControl` over it;
   their safety invariants proved.
6. What a further step would take, in this order: the market registry's `create_listing` beside
   the exchange (lines 691-742), reduced to the listing table, since with the whole
   exchange it is beyond a run; the idempotence and resumption of bulk ingest; usage metering and
   revenue distribution of the exchange (lines 683-737, 837-923) with the remainder of an
   integer division; the mirror's self-trade rule as a variant of `MatchSelf`; the
   formula layer's transforms as functions over bounded inputs.

Proofs after that: none of the safety properties is left to TLC alone. Each new module
brings its own.

## 3. Modules and the code they model

### BTDUStorage, PayloadStore, MCBTDUStorage and the proofs

`files` are the segment files, a sequence of records each; a record is the digest of
its chunk, and `Torn` stands for the bytes a short append left. `manifests` is the
directory of sidecars. `segments`, `place`, `refCount`, `chunkRefs` and `payloads`
are the index tables; the `payload_chunks` rows of a payload come and go with its
`payloads` row, so they are derived (`PayloadChunks`). `lock` is the flock.

A put (`put_iterable`, or `put_atom_tape_iterable` with references in place of a
manifest) is `PutStart`, then for each chunk either `EnsureKnown` or `EnsureAppend`
followed by `EnsureCommit` (the record is on disk, the row is not, and the lock is
held), then `WriteManifest` outside the lock, then `PutCommit`; a FOREIGN KEY that
fails is `CommitRejected`. A delete is `DeleteCommit` and `DeleteUnlink`. A rebuild
is `RecoverStart` (the old index is gone), then `RecoverCommit` or `RecoverFail`.
`Interrupt` ends any call at any of these points, whether it raised or its process
died: nothing but the files survives either, and the flock goes with the process.
`EnsureTorn` is the append cut short.

`PayloadStore` says what callers may rely on: a payload whose put was
acknowledged is there until a delete of it begins; one whose delete was acknowledged
is gone until a put begins; one whose last call has no known outcome may be either.
The mapping takes as stored what a rebuild would find, the manifests. The histories
`acked` and `undecided` belong to the callers and are read by no guard.

### Exchange, ExchangeAuction, EntitlementLedger, Totals and the proofs

The variables of `Exchange` are the tables of `exchange_protocol.py`: the statuses
of venues and instruments, `balance`, `disclosed`, `listed`, `orderStatus`,
`remaining` and `received`, `trades` in execution order (a trade and its clearing row
are one, since they are written together) with `settled` the ones whose rows say
SETTLED, `rfqStatus` and `quoteStatus`, and `now`. A signed body never changes and
is recorded at most once, so bodies are constants (`Signed`, `Asked`, `Offered`)
and the tables say which have arrived.

A method that starts with BEGIN IMMEDIATE, or writes without having read, is one
action: `CreateVenue`, `RetireVenue`, `DefineInstrument`, `WithdrawInstrument`,
`AcceptQuote`, `Settle`, and one turn of the loop of `match_order_book`
(`MatchTrade`, `MatchSelf`). The others read in one transaction and write in another:
a `Check` action, after which the caller holds only its argument and the receipt
time it took, then a `Commit` action; `Abandon` is the call that failed or died in
between. Sums (`SELECT SUM`) are `Total`, the size of a disjoint union of units,
so that the module needs no recursion and can be proved about.

`ExchangeAuction` adds `run_call_auction`: it reads the live orders once
(`AuctionStart`), and then makes its trades from what it read, one transaction at a time
(`AuctionTrade`, `AuctionSkip`), until it ends or dies. `Sorted` is the code's `sorted` on the
receipt time and the order id, which differ for any two orders, so the sequence is unique.

`EntitlementLedger` is the promise: units are issued once; a holder's units are reserved
only while they are free, stay reserved until they are released or delivered, and a
delivery takes reserved units of the seller. `reserved` is `ReservedSell`: the remaining
units of live sell orders and the quantities of unsettled trades. A trade of the book, or of an auction,
maps to a stutter, since it turns units promised by an order into units promised by
a trade.

Abstracted in both: signatures, hashes, nonces, evidence and receipts; lots, ticks and
currencies; execution models, which no matcher of the code consults.

### AdamUniverse, MCAdamUniverse, AdamUniverseProofs

`log`, `checkpoint` and `receipt` are the files; `state` and `root` are what the open
universe holds in memory. A frame carries its commit and the root it follows; a chain hash is
modelled as the sequence of commits it covers, so two hashes agree exactly when the histories do.
`Record` starts `record_authorized_transition`, whose up to four commits are planned without
the lock (`PlanRegister`, `PlanIngest`, `PlanClaim`, and the three readings `ReadBonds`, `ReadPrevious` and
`ReadExpected` of a reaction) and made under it: `CommitPlan` checks the versions, appends and
applies; `FailAppend` is the append whose write or fsync raised, after which the process lives on
with junk in the file. A compaction holds the lock through `BeginCompact`,
`ReplaceCheckpoint`, `ReplaceReceipt` and `TruncateLog`, and `FailCompact` leaves it after any
of them. `Crash` is the death of the process; `Open` replays the log from the checkpoint and cuts a
torn tail, and `Refuse` is the opening that raises.

The properties are exact about the damage the code allows: a frame appended behind a
failed append's leftovers can be cut off with them, or be unreadable; an abandoned compaction
can leave files that do not belong together; a plan whose reading another commit overlapped can
pass the version check, since its expected version is read last. Each is a
history variable (`leftover` and `behind`, `harm`, `overtaken` and `mixed`) that the
properties except by name, and outside of it they hold. `PastOnlyErased` has no exception: a bond
put again keeps its identifier and loses its first interval (`universe.py`, line 245), so views of
the past lose exactly the facts a commit puts (`newFacts`), and nothing else about them changes.

### Participation, PrelaunchWithdrawal, MCPrelaunchWithdrawal and the proofs

`Participation` EXTENDS `Exchange` with the tables of the participation database; `stamps` adds to a
trade the identifier and time the exchange gives it. As there, a method is a `Check`
and a `Commit`; only `AllocateCommit` writes both databases, in one transaction over an attached
file. `PrelaunchWithdrawal` adds the migration: `AuditEep` and `AuditEopp` read, `CopyEep` and
`CopyEopp` copy the files (neither database uses a write-ahead log, so the file is the
database), `WithdrawEep` and `WithdrawEopp` commit, `WriteReceipt` ends it; `RaiseError`,
`RestoreEep` and `RestoreEopp` are its exception handler, and `Die` its process's death
anywhere. It is the operator's tool, so two migrations do not overlap.

Its properties name what the code leaves open: the second look at a policy ignores its
withdrawal (line 273) and what the issuer has promised to buyers (283); a policy recorded after a
trade it applies to gives a second obligation (`retro`); a second migration of an instrument
takes its reserve back again (`returned`); the audit reads no request for quotes and
no check in flight (`unquiet`); a death between two commits leaves the first (`cut`); and a
restoration copies whole databases over what others
committed, after which nothing is claimed and the behaviours end (`undone`).

`BalancesExplained` is about the two databases alone: the reserve a recorded allocation names is
with the treasury until the instrument is withdrawn and with the issuer afterwards, what settled
trades moved comes on top, and no balance is negative. Two histories limit it: it says
nothing of an instrument from which a second migration took the reserve (that leaves the treasury
below zero), and of one in use when its migration committed it says that the reserve is at one of
the two places. That a seller's open orders and sales stay covered (`SellsCovered`) is false here,
through the reserve, which is the finding of `market_oversold`.

### Licensing, UsageControl, MCUsageControl and the proofs

`licences` and `events` are the tables of `canonical_contracts.py`, `claims` the
rights claims of one grantor on the assets of the terms, `ledger` the event ledger. A method is a
load (`offer`, `counter`, ..., which record in `call` the row, the claims and the state to
write), a transaction (`_transition` or `WriteCounter`) and a report (`Append_`), and `Stop` is
an error or a death between any two. Threads of one service share the engine and its lock, so
the comparison of `_transition` and its update are one step; two services on one directory are not
modelled (a listed hazard). `UsageControl` adds tickets and receipts: `consume_gateway_ticket`
holds its database's write lock from its first read (`ConsumeCheck`, `ConsumeCommit`) and
records the receipt in a second transaction (`RecordReceipt`).

`counter` writes without comparing: a licence accepted, active or even terminated since it was
loaded is COUNTERED again. `overtaken` records the licences this happened to, and the
first two properties except them; without the exception TLC refutes both. `events` is in the order of
the commits; the code's `get` (`canonical_contracts.py`, line 140) sorts by millisecond and then by a
random identifier, so a reader may see two events of one millisecond in the other order.
`unreported` are the records whose report a stop lost, which `LedgerMatches` lets be missing. No operation of the
code reaches SUSPENDED, DISPUTED, EXPIRED or CLOSED, and none reads a licence's `expires_at_ms`.

## 4. Runs

| Run | Instance | Shows |
|---|---|---|
| `btdu_safety` | two processes, two payloads sharing a chunk (one holds it twice) and a tape, segments of one record, one interrupted call, one rebuild | the invariants and the refinement of `PayloadStore` hold; 543,600 states |
| `btdu_liveness` | the same with one payload and one tape, no symmetry | every call returns, also behind an interrupted call |
| `btdu_race`, `btdu_torn` | the same | two statements of the docstring that the code does not keep (findings) |
| `exchange_book` | two callers interleaving; the issuer offers two units in one order; the other party buys from the book or by quote and sells on; one tick of the clock | the invariants and the refinement of `EntitlementLedger`; a withdrawn instrument and a retired venue gain only what calls checked before bring; 151,566 states |
| `exchange_auction` | one call at a time; two asks, two bids and a bid of the asks' owner; auctions that may die between trades | the price crosses the most units any price could, volume is exhausted, orders are not overfilled and reservation holds; 144,002 states |
| `exchange_overfill` | two callers, one ask and one bid, auctions and matcher interleaving | the auction fills an order twice (finding) |
| `exchange_withdrawn` | the instance of `exchange_book` | an order is admitted on a withdrawn instrument (finding) |
| `adam_universe` | two threads and two calls, of one event or of two, on one entity; two compactions; two faults among failed appends, abandoned compactions and deaths | acknowledged commits survive, an undamaged disk reopens to what memory held, no update is lost, evidence precedes claims, of the past a commit erases only the facts it puts |
| `market_withdrawal` | an open market of one instrument with two units, an order of the treasury's and a request for quotes the issuer answers, two policies that reserve a unit each; two agents, three of their calls | one obligation per trade, balances explained by the two databases and not negative, withdrawals whole and of unused instruments, but for the histories the properties name; 477,388 states |
| `market_oversold` | the same, the order being the issuer's over both units | an issuer gives its treasury a unit an open order of its own has promised (finding) |
| `licensing` | two threads, one licence, two terms, two claims, one ticket, two nonces; five events of the licence, one lost report | a licence's history is one path, its agreement sound, tickets accounted for, the ledger matches; 551,908 states |

Every property of a passing run has a mutant: the code's definition changed as a
plausible bug would change it, under which TLC finds that property violated. The
mutated forms stand just before the definition they replace, marked `mutant`.

**Bounds, and why they are enough.** In `BTDUStorage`, `MaxSegment` bounds the segment ids
that can be opened, `MaxFault` the interrupted and torn calls, `MaxRebuild` the rebuilds.
With two processes and shared chunks, every pair of calls overlaps; a payload that names
one chunk twice reaches the counting of duplicates; one-record segments make every
append a choice of segment; a rebuild after a torn append is reached with one of each.
In `Exchange`, `MaxTime` bounds the clock: one tick tells an order received before from
one received after, and lets quotes expire. `MaxTrade` of `ExchangeAuction` bounds the
trades table. Two units, an order for both and one for one unit give partial and
full fills, resale of bought units, and self trades. Callers are symmetric.
`Serial = TRUE` is one call at a time, for properties the code keeps only then.
In `AdamUniverse`, `MaxCall`, `MaxCompact` and `MaxFault` count calls, compactions and faults: two
calls overlap or repeat each other, a compaction follows another's abandonment, and a
death follows a failed append. In `Participation`, `MaxJob` counts the agents' calls that
change something; three are a definition, an allocation and a migration, or two
migrations and a capture. Its exchange is `Serial`: the interleavings inside the exchange are
those of `exchange_book`, and what is new here is its steps between the agents'.
In `Licensing`, `MaxEvents` bounds the events of a licence, checked when a call loads it, so two
calls together go one beyond: five reach an active licence through a counter-offer, and a
licence revoked or terminated; `MaxLost` bounds the reports that are lost.

Deadlock is checked in the runs of the storage kernel. The others say
`CHECK_DEADLOCK FALSE`: with the clock or a counter at its bound, venues retired, instruments
withdrawn and every body used, an opening refused for good, or a licence terminated, no
further call is possible, which is an end and not a fault.

**Fairness.** Only `btdu_liveness` assumes any: strong fairness of each
process's own continuation (`Continue`). A process inside a call is running code,
so it continues if it can; the one thing it waits for is `storage.lock`, a blocking
flock (lines 84-103) whose waiters are queued, so a waiter gets a lock that is free again
and again, which is what strong rather than weak fairness says. (On Windows the code uses
msvcrt's LK_LOCK, which gives up after ten seconds and raises: `Interrupt`.) Nothing is assumed of the start of calls or of faults. The
exchange has no operation that must happen: matching and settlement are calls somebody
makes, so no liveness is stated of it.

## 5. Findings

* `btdu_race`: a delete between a put's manifest and its last transaction leaves a payload
  row whose manifest is gone.
* `btdu_torn`: after one torn append, `recover_index` fails for ever, having removed the
  index first.
* `exchange_overfill`: the call auction executes from rows it read in an earlier
  transaction, so a concurrent matcher's trade is overwritten and an order is filled twice.
* `exchange_withdrawn`: an order checked before a withdrawal commits after it.
* `market_oversold`: a reserve is allocated out of units an open order has promised.

`PROJECT.json` quotes the lines of code and documentation each one confronts.

**Exceptions.** Several properties of passing runs except histories in which the code does go wrong,
and each exception is a case of a listed hazard: `behind`, `harm`, `overtaken` and `mixed` (ADAM),
`overtaken` and `unreported` (licensing), `retro`, `unquiet`, `returned`, `cut` and `undone` (the market with
its migration), and the gap of a rebuild (storage kernel). These properties do not catch that case, which the
model has; they say that it is the only way to what they exclude, so the mutants that open another way are
found. Three more behaviours are known from the models and have no run of their own: a
rebuild forgets the references of tapes (section 7); a migration repeated on one instrument
debits the reserve again and leaves the treasury below zero, against the profile's "actual rights
position" (`ENTITY_ORIGINATOR_PARTICIPATION_PROFILE.md`, line 37), which `market_oversold` without its
order and quote would show as well; and `counter` reopens a terminated licence.

## 6. What is proved

`tlapm` checks every leaf; nothing is assumed beyond the named assumptions on constants:
`Proc`, `Payload`, `Chunk`, `Party`, `Order` and the rest are any sets (the ones counted over are
finite), the bodies are well typed with positive quantities, ranks of orders differ, and
special values are outside the sets they complement.

**Storage kernel** (`BTDUStorageProofs`): `Spec => []IInv`, and from it `TypeOK`,
`IndexSound`, `RefCountExact`, `NoDangling` and `AckedDurable`. `IndexSound` alone is not
inductive: a commit points the index at a record another step appended, so the invariant also
says where that record is (`Appended`), that the lock has one holder, and who it is
(`LockDiscipline`). `AckedDurable` needs that a put's earlier chunks are on disk
(`Ensured`), that a manifest's chunks are (`ManifestsRecorded`), and what a put knows when a
delete overlaps it (`Overlaps`). Records are only ever appended, so what holds once
holds for good; the counts are the sizes of the sets of rows that name a chunk, and each step adds
or removes the rows of one payload or tape.

**What callers of the kernel may rely on** (`PayloadStoreProofs`): `AckedReadable`,
`NothingResurrected` and the refinement of `PayloadStore` (`KeepsPromise`) come from one invariant,
`Promised`: `IInv` and `NothingResurrected`, and that an acknowledged payload has its row while the
index is whole (`Listed`), that a payload being put is acknowledged or undecided (`Asked`), and that
one being deleted has lost its row and is undecided (`Doomed`). With it each action maps to the step
of `PayloadStore` its name suggests, or to a stutter. `SegmentOverflow` and `SegmentRowTrails`
have an invariant of their own, `Growth`: a file is ahead of its row only by appends in flight and
interrupted (`RowsTrail`), and a file without a row has room for the append that selects it next
(`Forgotten`), since it is new or its index was lost.

**Exchange** (`ExchangeProofs`, over `TotalsProofs`): `Spec => []IInv` and from it `TypeOK`,
`SellsCovered`, `NoOverfill`, `FairTrades` and `LedgerExplained`, and
`Spec => KeepsReservation`, whether or not calls interleave. The lemmas of `TotalsProofs` say
how a sum changes when one row is added or changes; for each action a lemma says which units it
reserves, releases or delivers (`PlaceReserves`, `CancelReleases`, `MatchReserves`,
`AcceptReserves`, `SettleDelivers`), and both the invariant and the refinement follow from these. The
parts of the invariant need each other: a positive trade needs live orders with units left
(`NoOverfill`), a balance explained at issue needs that no units existed before (`Unissued`), and
the refinement's deliveries need positive trades (`FairTrades`).

`WithdrawnForGood` and `RetiredForGood` hold however calls interleave. The code does admit an
order on a withdrawn instrument (`exchange_withdrawn`), so "nothing appears on it" is false; what is true,
and proved, is that the tables were empty of it when it ended (`EndsEmpty`) and that nothing but a call
checked before can start it again: with no such call under way and no business left, no step of any
caller makes any (`StaysOut`), since a new call reads the status first.

**The call auction** (`ExchangeAuctionProofs`). Four properties hold however calls interleave,
from one invariant, `AInv`: `TypeOK`, `FairTrades`, `VolumeIsMaximal` and `AuctionExhausts`. What an
auction holds was `WellMade` from the rows it read: its orders can meet at its price (`CanMeet`),
each has units in those rows (`Stocked`), and the units of either queue cover the volume that is
left, those of the asks unless one was passed over (`Capped`). A trade takes as many units from
the volume as from both queues, so an empty queue leaves no volume. The price needs no invariant
but the types: demand falls and supply rises with the price (`DemandFalls`, `SupplyRises`), so any
price is no better than a limit next to it (`PriceIsBest`). That the price and the sorted queues
exist at all, for any finite set of orders, is proved by least counterexample (`PriceExists`,
`SortExists`). `AuctionWithdrawnForGood` and
`AuctionRetiredForGood` hold however calls interleave, too: an auction's orders are of the venue and the
instrument it was called for (`OfPair`), so it is one of the calls checked before. `NoOverfill`, `SellsCovered`,
`LedgerExplained` and `KeepsReservation` assume `Serial`: with calls interleaving the first is false
(`exchange_overfill`). One call at a time, the rows an auction read are still those of the table
between its trades (`InStep`, from `OneCall`), so each trade is one of the kind the matcher makes
(`Executes`), for which `ExecuteInv` and `ExecuteReserves` of `ExchangeProofs` are
stated; the matcher's own are instances of these. An auction may still die between two trades.

**ADAM's universe** (`AdamUniverseProofs`): all six properties of its run, for any threads, entities,
events and bounds. `recover`, the replay of the log, is a fold over the frames, and the step lemmas need
what it gives after one frame more (`ReplayOneMore`) and that it is indifferent to what follows (`ReplayStays`); the
induction these take is by least counterexample over the naturals (`NatLessThanWellFounded`). `NoneAssumption` asks that `None` is no snapshot and `Junk` no frame. What an append
leaves in the file, whole, short or none, is one lemma for all states of the log (`AppendToLog`). Four
invariants build on each other. `Typed` is `TypeOK` with the types of the files, what a thread and its
plan hold at each stage, and the checkpoint and receipt of a half-done compaction. `Survives` gives
`AckedSurvive`: what was acknowledged is in memory while it is open, and in the replay of the files
whenever that succeeds, and a log without a failed append's leftovers has no junk. `Sane` gives `NoLostUpdate` and
`Grounded`: the state in memory is what its history says (`Tells`), the checkpoint and every frame of
the log agree with theirs, and a plan under way agrees with what it read, or its thread is
`overtaken`. `Live` gives `RecoversLive`: without harm, the replay of the files is memory, or
one commit more behind a leftover. `PastOnlyErased`, an action property, follows from `Typed` and `Sane`: a commit
creates and revokes bonds at its own sequence number, after every earlier one, and a bond it puts
again has no earlier interval any more.

**Licensing and usage control** (`UsageControlProofs`): `Spec => []TypeOK` (`Typed`) and, from it,
all four properties of the run `licensing`: `LicenceHistory` (`HistoryKept`), `AgreementSound`
(`AgreementKept`), `TicketsAccounted` (`TicketsKept`) and `LedgerMatches` (`LedgerKept`), for any sets of
threads, licences, terms, claims, tickets and nonces, of any size, and every bound. `UsageAssumption`
asks that `NoTicket` is no ticket, `NoCall` no call and `"receipt"` no licence. The first two
properties speak of licences at rest, and a step is made from what a call loaded earlier, so they need what a
call in between still knows (`LoadedSound`): the row it loaded is the present one while the
licence has no new event, and is otherwise no newer, with the same terms at the same version. It is this last part that
`counter` breaks for a licence it overtakes, and why `overtaken` excepts it; the comparison of
`_transition` then turns it into the fact that the accepted terms are the present ones. `TicketCalls` adds that one
call at a time consumes a ticket and that a ticket about to get its receipt has none; `LedgerCalls`
that one call at a time reports a record, which exists, was not reported and not given up. That an
event reported is new needs `Begun`: a licence has events exactly once it exists.

**The market with its migration** (`PrelaunchWithdrawalProofs`): `OneObligationPerTrade`,
`BalancesExplained`, `WithdrawnUnused` and `WithdrawalWhole`, for any parties,
instruments, orders, policies, agents and bounds. One invariant, `MInv`, is inductive until a restoration
overwrites what others committed (`undone`), where the properties end too. Its parts are the types of
the exchange's tables and of participation's (`Stamped`, `Economy`; a balance may be negative after
a second migration), that the policy of an event was in force when its trade was made (`Charges`), what a
call holds and what it still knows of the tables it read (`Jobs`, `Knows`, with one migration at a
time), that a receipt's migration is whole (`Receipts`, `Whole`), that nothing on a withdrawn
instrument is there or on its way (`Withdrawn`), the sums (`Balanced`, which count a reserve as often as
it was taken back, so that they stay inductive through repeated migrations; `BalancesExplained` is what
they say of at most one), and that only an instrument already withdrawn can have a balance below zero
(`Solvent`). Since a restoration can bring an older file back, what is said of the exchange's
file is also said of its copy while one is held (`Copied`). `SellsCovered` is not among them: it is
false (`market_oversold`).

**Only model-checked**: `CallsReturn`, as liveness under fairness and ENABLED are
beyond the prover. The exchange's `IInv` was checked by TLC before it was proved, as were the
invariants of the other proofs, and none is a property of a run. Facts about recursive
definitions are out of the prover's reach, which is why the modules have none.

## 7. What is not modelled, and why

* Of the storage kernel: codecs, ciphers and record formats; reads without the lock, which
  change nothing; power loss that undoes a completed rename or fsync (crashes are those of
  processes); the creation of the tables.
* Of the storage kernel's tapes: `recover_index` deletes `chunk_references` with the old index and
  recomputes the counts without them (lines 1059-1064), so that `gc_report` offers the chunks of a retained tape,
  which `retain_chunk` promises to keep (lines 498-500). `RecoverCommit` does so too;
  `RefCountExact` speaks of the references the index has.
* Of the exchange: payment attestations and verifiers, usage metering, revenue rules and
  distribution (step 6 of the plan), market data, surveillance.
* Of ADAM: queries, the matching of reactions, page sizes and memory limits, older checkpoint
  formats, loss of written data by the disk.
* Of participation: derivative and service revenue and the settlement of an obligation, which
  repeat transactions that are modelled; verifiers and reports. Of the migration: the factory's
  database, which nothing else modelled writes.
* Of the core runtime and the registry: identities, permissions and policy, which are
  single guarded statements; economics, whose settlements move by the compared transition
  licences have; the ledger's hash chain, written under one exclusive transaction; two services on
  one state directory.
* The market registry: its hazard, a listing committed in the exchange and not in
  the registry, needs both state machines and several callers, and no run of that composition
  ends in its time. Bulk ingest: a finished batch is told by a range of ledger timestamps, so two
  overlapping ingests of one controller can mistake each other's events for their own; it
  is the next step of the plan.
* The rest of the inventory: pure document building, cryptography, static catalogues and
  wiring, or an earlier copy of what is modelled.
