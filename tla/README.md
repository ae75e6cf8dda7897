# oracle-example in TLA+

The oracle connects vehicles, known by their VINs, to a vendor and to the DIMO
chain.  A client verifies a VIN, onboards it (the vendor is connected, a vehicle
and a synthetic device, SD, are minted), disconnects it (the vendor is
disconnected, the SD is burned) and deletes it (the vehicle is burned).  While a
VIN is onboarded, telemetry that arrives over Kafka is signed with the SD's key
and sent on to a DIMO node.

This directory models that program, checks the models with TLC and proves with
TLAPS what they show of safety.  Line numbers are those of `src/`.

## The system

| Component | State | Operations | Makes it correct |
|---|---|---|---|
| Status codes (`onboarding/status.go`) | none; an integer per VIN in the table | predicates (`IsVerified`, ...), submit gates, `Get*Status` | every status has an endpoint that accepts it; the status tells which tokens exist |
| vins table (`db/models/vins.go`, `service/vehicle.go`) | a row per VIN: status, token ids, wallet index, connection and disconnection status, device definition; `sd_wallet_index_seq` | lookup, insert, whitelisted update, upsert of every column | a row names tokens of its own VIN, and the wallet index of its SD |
| Verify worker (`onboarding/verify.go`) | its copy of a row | decode, validate with the vendor, update after each | saves what it decided and nothing else |
| Onboard worker (`onboarding/onboard.go`) | its copy, an index, a mutex | connect, take an index, mint, update | mints what is missing, once; no key is used twice |
| Disconnect and delete workers (`disconnect.go`, `delete.go`) | a copy, a mutex each | disconnect from the vendor, send a burn operation, update | one burn at a time; the mutex is released on every path; failures are saved |
| Submit handlers (`controllers/vehicle.go`, `vehicle_delete.go`) | their copies of rows | validate, read, gate, queue a job, upsert the copy | one job per VIN; nothing else's update is lost |
| River (library; `cmd/oracle-example/main.go`) | jobs in the database | queue, run, retry, rescue | every job ends |
| Operations consumer (`kafka/consumer.go`, `service/vehicle.go`) | a channel of 100 | read an operation, update enrollment columns | no operation is lost; the channel is drained |
| Telemetry consumer (`kafka/consumer.go`, `service/oracle.go`) | a cache of rows, offsets | read an event, look the VIN up, convert, send | no event is sent for a vehicle that is gone, or skipped |
| RegisterVehicle (`controllers/vehicle.go:178`) | its copy of a row | adopt a vehicle minted elsewhere | the owner of a vehicle can register its VIN |
| Access check (`app/access.go`, `service/access.go`) | a copy of the access table, for ten minutes | admit or refuse a wallet | a wallet that was removed is out when the copy has expired |
| Developer token (`service/dimo_auth.go`) | a token, a mutex | hand it out, renew it | a token in use is not replaced; one renewal at a time |
| Identity API, device definitions API (`service/identity_api.go`, `device_definitions_api.go`) | a copy of each definition, for ten minutes | fetch, decode | a stale or an empty answer is not used past its time |
| The writer's pool (`database/sql`; the `update` methods, `service/`) | at most `DB_MAX_OPEN_CONNECTIONS` connections | take one, give it back | nobody keeps a connection; nobody who has one waits for another |
| HTTP application, start-up, migrations | none of their own | routing, wiring, schema | - |

Interaction: the handlers and the workers share nothing but the vins table, and
no transaction spans a read and the write that follows from it.  A handler
reads a row, queues a job in River, then writes every column of the row it read;
by then the job may be running.  A worker reads the row once, talks to the
vendor and the chain for seconds or minutes, and writes columns of its own copy
at several points.  Jobs of one VIN are not excluded from each other: the gates
look only at the status.  The chain is shared by all.  What is hard is
therefore: which mixes of stale writes can occur, what a failure between a chain
call and a save leaves behind, the two mutexes, retries, and whether any sequence
of failed steps strands a VIN.  `PROJECT.json` lists these hazards at their lines.

## Modules

    OnboardingStatus             codes, predicates, gates, answers
      VinRecords                 a row, the column lists, Update, Insert, Upsert
        Onboarding               table, jobs, handlers, workers, River, chain
          OnboardingProperties   what must hold
            OnboardingInvariant  the inductive invariant
              OnboardingProofs   the theorems (with TLAPS)
              SerialInvariant    the inductive invariant for clients that wait
                SerialProofs     its theorems
            OnboardingRefinement Onboarding implements VehicleLifecycle
              LifecycleProofs    the proof of it
            MCOnboarding         values for the .cfg files
          Operations             the operations consumer, composed with Onboarding
            OperationsProperties, OperationsInvariant, OperationsProofs, MCOperations
              SerialOperationsProofs  clients that wait, with the consumer beside them
          Registration           RegisterVehicle, composed with Onboarding
            MCRegistration
    VehicleLifecycle             the abstract life of a VIN's tokens
      Telemetry                  the telemetry consumer, composed with it
        TelemetryProperties, TelemetryProofs, MCTelemetry
    ConsumerGroup                claims, marks and offsets, for both consumers
    ConnectionPool               the writer's connections and who takes them
      PoolProperties, PoolProofs, MCPool
    DeveloperToken, AccessList   what the clients of other services keep
      Services                   verify jobs and requests that use them
        ServicesProperties, ServicesProofs, MCServices

**OnboardingStatus** has the codes and, under their own names, the predicates of
`status.go`, the four `canSubmit...Job` gates and the four answers `Get...Status`.  **VinRecords** has a row as the
Go struct that the ORM fills, the lists of columns that the workers pass to
`record.Update`, and what that UPDATE, an INSERT and the upsert of a handler do to a row.

**Onboarding** is one state machine, since its parts meet in every row:

| Variable | In the program |
|---|---|
| `vins` | the vins table |
| `jobs` | River's jobs; for a running one also where its worker is (`at`), the worker's copy of the row (`record`) and the wallet index it took |
| `requests` | HTTP submit requests in service, with the handler's copies |
| `vehicles`, `sds`, `burned` | the chain: everything minted, everything burned |
| `seq` | the chain's next ids and `sd_wallet_index_seq` |
| `locked` | `DisconnectWorker.m` and `DeleteWorker.m` |
| `failures` | how many failures were injected, a bound of the model |

Each access of the table, each call of the vendor or the chain, and each operation on
a mutex is a step; what a function does in memory between two of them belongs to the
step before.  A deferred update is part of the function's last step or, where
another process can be seen in between, a step of its own (`saveConnect`,
`saveVehicle`, ...).  The actions, by function:

| Function | Actions |
|---|---|
| `VerifyWorker.Work`, `GetOrCreateVinRecord` | `StartVerify`, `InsertVinRecord` |
| `DecodeVinAndUpdate`, `ValidateWithExternalVendorAndUpdate` | `StartDecode`, `DecodeVin`, `Validate` |
| `OnboardingWorker.Work`, `ConnectToVendorAndUpdate` | `StartOnboard`, `ConnectToVendor`, `SaveConnect`, `FinishOnboard` |
| `MintVehicleWithSDAndUpdate`, `MintSDAndUpdate`, `GetNextSDWalletIndex` | `TakeWalletIndex`, `MintVehicleWithSD`, `MintSD`, `SaveMintedVehicle`, `SaveMintedSD` |
| `DisconnectWorker.Work`, `DisconnectFromVendorAndUpdate` | `StartDisconnect`, `DisconnectFromVendor`, `SaveDisconnect` |
| `DeleteWorker.Work`, `BurnSDAndUpdate`, `BurnVehicleAndUpdate` | `StartDelete`, `Lock`, `SendBurnOperation`, `UnlockBurn`, `UnlockTwice`, `SaveBurn` |
| the four `Submit...ForVins` handlers | `BeginRequest`, for a mint `RereadMinted` or `HandlerReadFails`, then per VIN `SubmitJob` and `UpsertVin` |
| `GetVinRecord`, the lookup of `GetOrCreateVinRecord`, when the database gives an error | `WorkerReadFails` |
| River, the process | `Started`, `Completed`, `Errored`, `Die`, `Crash`, and `FatalUnlock` for the death by a double unlock |

`Get...StatusForVins` and `Get...DataForVins` change nothing: they are operators of a row (`StatusFor`,
`MintDataOffered`, `DisconnectDataOffered`, `DeleteDataOffered`) that the properties use.  The identity API,
which the last two also ask, answers with what lives on the chain (`IdentitySDs`), all of its pages together.

Choices that a reader of the code will look for:

- The vendor of the repository never fails, but its interface returns errors and the
  workers handle them; the model lets every vendor call fail.  Every chain call may be
  refused.
- `Failures` names five more kinds, at most `MaxFailures` of them in a behaviour: `crash`
  (the process dies between two steps), `lostRead` (the row cannot be read: `Work` returns
  the error and the attempt is spent, `onboard.go:138`; a mint request that fails at its second read
  is answered with 500, `vehicle.go:764`; the other reads of a handler come before it has done
  anything), `lostWrite` (a database write fails; the update
  methods return the error of the commit, not of the UPDATE, and deferred updates drop
  theirs, so the worker goes on; only the insert of a new row ends the attempt), `lostAnswer` (the chain did it and the caller sees an
  error), `burnResult` (the operation was included and its result cannot be read).
- After `burnResult`, `BurnSDAndUpdate` unlocks at `disconnect.go:174`, does not return,
  and unlocks again at `:179` (`delete.go:132`, `:137`).  Unlocking a mutex that is not locked
  is a fatal error in Go, so the process dies, unless another job took the mutex in between,
  whose lock is then released.
- The onboard worker's own mutex (`onboard.go:277`, `:380`) lies around one chain call and is
  released on every path; that call is one action, so the mutex is not a variable.
- The data that the client signs is fetched just before it submits: the token that a burn
  operation burns (`op`) is that of the row the handler reads.
- The read replica of the database is taken to be current, and the program to run as one
  process (`charts/` deploys one replica).
- The chain lets an SD be burned while it lives and a vehicle when no SD of its own lives
  (the comment at `delete.go:85`); minting an SD needs a living vehicle.
- River retries a verify job (25 attempts by default, `MaxAttempts` here) and gives one attempt
  to the others (`MaxAttempts: 1` in their `InsertOpts`).

`Races` says which accesses of one VIN may overlap.  With `"requests"` clients submit whatever
they like at any time, without it they submit for a VIN when its last job has ended (so they name it
once in a request, for the handler would queue a job each time: `slices.Compact` drops only
repeats next to each other).  With
`"upsert"` a job may start before the handler that queued it has written its rows back, which the
code allows; without it the handler is faster.  The properties of the first group below hold with
both.  Those of the second are false with either, as the third group shows; they state what a
patient client gets.

**VehicleLifecycle** says the same in a page: per VIN the tokens that live (`held`) and the tokens its row
names (`recorded`), which are minted, burned and recorded in turn.  **OnboardingRefinement** maps `Onboarding`
to it: `held` is computed from the chain, `recorded` from the table.

**ConsumerGroup** is what both Kafka consumers know of a partition: the position of the claim and the offset
that its marks amount to.  `continue` leaves a message unmarked and a later mark includes it
(`MarkMessage` sets the offset, it does not count).  Marks are committed from time to time; a rebalance commits
them and claims the partition again, a death claims it again at what was committed.  The group is taken to
have committed an offset before, since sarama begins at the newest message otherwise.

**Operations** composes `Onboarding` with the consumer of enrollment operations:

| Code | Actions |
|---|---|
| `MessageHandlerOperations.ConsumeClaim` (`consumer.go:155`) | `Receive` (parse, dispatch; a malformed message is skipped), `Enqueue` (the send into the enrollment channel) |
| `UpdateEnrollmentStatus`, `UpdateUnenrollmentStatus` (`service/vehicle.go`) | `ReadVin`, `WriteVin`: a transaction at READ COMMITTED does not keep others from writing in between |
| sarama, the process, the vendor | `Commit`, `Rebalance`, `ConsumerDies` (together with `Onboarding`'s `Crash` or `FatalUnlock`), `Publish` |

`channel` counts what is in the enrollment channel; nothing in `src/` receives from it (`vendor.go:39` only
stores it), so no action takes anything out.  The capacity is `ChannelSize` instead of 100.  `disturbed` is a
history variable, used by `LastIsRecorded` alone.  There is one partition.

**Telemetry** composes `VehicleLifecycle` with the consumer of telemetry, one handler per partition:

| Code | Actions |
|---|---|
| `HandleDeviceByVIN` to the lookup in the cache (`oracle.go:74-119`) | `Fetch` |
| `GetVehicleByVin` on a miss | `ReadRow` |
| `cache.Set` and the test for a vehicle (`oracle.go:129`, `:133`) | `SetCache`, `UseTokens` |
| `SendToDimoNode` and its answer | `Answer`; no answer at all is a `Crash`, since `dimonode_api.go:89` looks into the missing response |
| `ConsumeClaim` (`consumer.go:118`) | `Refused` (left unmarked), `Done` (marked) |
| sarama, the process, the vendor | `Commit`, `Rebalance`, `Crash`, `Publish` |
| onboarding | `Onboarding`: a step of `VehicleLifecycle` |
| go-cache | `Tick`: `TTL` ticks are the ten minutes |

The cache holds a pointer to a row that nobody writes to afterwards: its tokens.  A handler is taken to put what
it read into the cache within a tick, that is, much faster than ten minutes.  `former` and `handled` are
history variables: what a row said in the last `TTL` ticks, and which offsets were dropped, refused or sent.

**ConnectionPool** counts the writer's connections.  Clients are goroutines, each with the uses it makes of the pool:

| Use | Code | Steps |
|---|---|---|
| `update` | `update` of the onboard, disconnect and delete workers | `Begin`, `TakeSecond` and `Exec` (the UPDATE goes to the pool, `onboard.go:490`, while the transaction has a connection), `Commit` |
| `service` | lookups, inserts and upserts of `service/vehicle.go`, `service/access.go` | `Begin`, `Statement` (rolled back when refused), `Commit` |
| `index` | `GetNextSDWalletIndex` | the same; its statement goes to the reader |
| `enroll` | `UpdateEnrollmentStatus`, `UpdateUnenrollmentStatus` | the same, or `LoseConnection`: the UPDATE's `err` shadows the one that the deferred function looks at (`service/vehicle.go:299`, `:353`) |
| `verify` | `update` of the verify worker | `Begin`, `SingleStatement` |

Workers call with a context that ends after 30 minutes (`Timeout`), everybody else with one that does not end
(`Deadline`).  30 minutes are taken to be longer than anything but a wait that nobody can end: `Expire` needs
that no client that has a connection can go on (`Exhausted`).  A commit is taken to come back.

**DeveloperToken** has the token that `GetToken` hands out and who renews it, **AccessList** the table of wallets, its
copy and the middleware's decision.  **Services** composes them with the jobs and requests that use them:

| Code | Actions |
|---|---|
| `DecodeVin`, `GetToken`, `getNewToken` | `DecodeWithToken`, or `RenewToken` and `TokenRenewed`; then `Decoded` |
| `NewAccessMiddleware`, `GetWalletsWithAccess` | `Arrive`; without a copy `ReadAccess` and `KeepAccess` |
| `GetDeviceDefinitionByID`, `FetchDeviceDefinitionByID` | `AskDefinition`; without a copy `FetchDefinition` and `SetDefinition` |
| their errors | `FailRequest`, and the second alternative of `TokenRenewed` |
| whoever edits the table, the clock | `EditAccess`, `Tick` |

A request stands for one for mint data (`GET /v1/vehicle/mint`), which passes the access check and then reads the
definition of one device.  The identity API may answer 200 with nothing in it, which unmarshals to an empty definition
and is kept like any other.  Of the three identity clients in the program (`app.go:51`, `main.go:82`, `oracle.go:40`) this
is the handlers'; the workers' only writes its cache.  A read and the copy made of it fall into one tick; how the reads and copies
of several requests interleave within it is free.

**Registration** composes `Onboarding` with `RegisterVehicle`: `BeginRegistration` (the checks of the request against the
identity API), `Lookup` (by `external_id`), `RegisterVin` (the upsert), `BreakRegistration`.  `external` says which rows
have their VIN as their `external_id`.

## Properties and runs

What holds under every interleaving and failure:

- `DeviceKeysMatch`: a row names only tokens minted for its VIN, and its wallet index is the one
  its SD was minted with, so the device signs with a key the chain knows.  Handlers upsert all
  columns of stale rows, the verify worker updates all columns of a stale row, the others some.
- `WalletIndexesAreUnique`: no two SDs have one key; no two VINs hold one token.  The index is taken long before it is
  minted with, and it is spent when the mint's answer, its save or the process is lost.
- `NeverBothSucceeded`: no row is both connected and disconnected.
- `LocksAreReleased`: a mutex that is held is held by a job in its burn.
- `OneBurnAtATime`: each burning worker sends one operation at a time, while every burn result
  can be read (a double unlock can release another's lock).
- `EveryJobEnds` (liveness).

What holds for a client that waits, when nothing crashes or is lost:

- `RowsMatchTheChain`: the live tokens of a VIN are those of its row.
- `StatusTellsTokens`: success and failure codes imply the tokens they claim.
- `NeverStranded`: for some kind of job the API hands out what to sign, the endpoint accepts the VIN and the
  worker does not just return.  That data for a mint is handed out says that the endpoint answers 200; for a row without a
  device definition the answer is made of an empty one (manufacturer 0), with which a mint will hardly succeed.  Three statuses are exceptions, named in `DeadEnds`: after a failed burn of the
  vehicle (102) the data is handed out again but `canSubmitDeleteJob` takes the failure for a pending job
  (`vehicle_delete.go:270`), and a VIN submitted for a disconnect (60) or a delete (90) before the oracle knew it
  has a made-up status that no endpoint leads out of.
- `EndedJobsAreAnswered`: when a job has ended, the status endpoint of its kind answers "Success" or "Failure".
- `FollowsLifecycle`: `Onboarding` implements `VehicleLifecycle`; so nothing is minted or burned before the last
  mint or burn is in the row.
- `SerialInv`, the inductive invariant of the proofs.

The operations consumer (`OperationsProperties`):

- `LastIsRecorded`: once the consumer has read the topic to its end, the row says what the last operation said, in
  spite of redelivery, if nobody else wrote those columns and no write was lost.
- `RowsStillMatch`: `RowsMatchTheChain` with the consumer saving its old copies in between.
- `FailedConnectionsCanRetry`: a minted VIN whose connection has failed passes the three tests made for it.
- `NeverBothSucceeded`, with three kinds of writers now: an upsert or a save of a stale copy meets the consumer's.
- `OInv`, the inductive invariant of the proofs.

The telemetry consumer (`TelemetryProperties`):

- `NothingIsSkipped`: what is behind a position or a committed offset was handled.
- `DecidedByRecentTokens`: whether an event is dropped, and in whose name it is sent, is decided by tokens that the
  row has or had within the life of a cache entry.
- `EveryEventIsHandled` (liveness).
- `TelemetryInv`, the inductive invariant of the proofs.

The writer's pool (`PoolProperties`):

- `EveryConnectionIsHeld`: a connection that is not free is one that a client will give back, or one lost by a refused
  UPDATE of the operations consumer; no other path of an error, a deadline or a commit keeps one.
- `OnlyUpdatesExhaust`: when nobody can go on, the workers' updates have every connection that is not lost.
- `EveryCallReturns` (liveness): those with a deadline always, the others unless every connection is lost.

The clients of other services (`ServicesProperties`):

- `OneValidToken`: a valid token that some job calls with is the one that is kept.
- `AdmittedRecently` (an action property): whoever is admitted was allowed by the table less than the life of a copy ago,
  although an older list may replace a newer one in the copy.
- `EmptyOnlyRecently`: an empty definition is served no longer after the last empty answer than a copy lives.

| Run | Instance | Shows | Distinct states |
|---|---|---|---|
| `serial_one_vin` | 1 VIN from nothing, 7 jobs of all kinds, no overlap | `TypeOK` and the second group, among it `SerialInv`; seven jobs are enough for verify, onboard, disconnect, delete and onboard again with failures at any of them | 8,393 |
| `races_one_vin` | 1 unknown VIN, 3 verify/onboard/disconnect jobs, all overlaps | `DeviceKeysMatch`, `NeverBothSucceeded`, `OneBurnAtATime` under stale updates of some columns and of every column, and the duplicate insert | 1.2 M |
| `failures_two_vins` | a minted and a verified VIN in one request or two, 2 onboard/disconnect/delete jobs, up to 2 mints beside the first, all overlaps, one failure of any kind | `WalletIndexesAreUnique` where two jobs hold an index at once and where a mint follows a lost save, a lost answer or a crash; `LocksAreReleased`; and `IInv`, the invariant of the proofs, whose part `RowsSound` says what `DeviceKeysMatch` and `NeverBothSucceeded` say | 2.0 M |
| `liveness_three_vins` | two minted VINs and an unknown one, 2 verify/disconnect jobs, one crash, failed read, lost write or unreadable result | `EveryJobEnds`: nobody waits for a mutex for ever, and retries run out | 70 k |
| `operations_one_vin` | 1 unknown VIN, 2 onboard/disconnect jobs, 2 messages, one crash, failed read or lost write, rebalances | the operations consumer's properties, among them `OInv` | 1.6 M |
| `telemetry` | 1 VIN with one vehicle and up to two SDs, partitions of 2 and 1 messages, one death or rebalance, `TTL` 1 | the telemetry consumer's properties | 387 k |
| `connection_pool` | two workers, a handler and the operations consumer share 2 connections, 2 refused statements | the pool's properties | 8,004 |
| `services` | 2 jobs, 2 requests, 2 wallets, lifetimes of 2 ticks, 2 edits of the table in each | the properties of the service clients | 1.1 M |

Every passing run's property is broken by a mutant: a definition changed the way a plausible bug
would change the code, such as an update that leaves a column out, a lock not taken, an error path
that does not unlock, an index taken from the table instead of the sequence.  The mutated forms
stand beside the originals and are marked.

What the repository's own words say and the code does not do, each refuted by a run:

| Run | Violated | What happens |
|---|---|---|
| `violation_double_unlock` | `BurnFailureIsSaved` | The double unlock kills the process before the deferred save ("make sure we save status update", `disconnect.go:156`). |
| `violation_enrollment_channel` | `EveryOperationIsRecorded` | The consumer sends each operation into a channel that nothing drains, before it updates the database ("Update the database with VIN, Status, and vehicleId", `consumer.go:191`): with room for one it stops for ever at the second, with room for 100 at the 101st.  The run has no jobs, no failures, no rebalances and no other messages, so nothing else keeps an operation from being recorded. |
| `violation_pool_exhausted` | `StatusIsSaved` | Each update begins a transaction and then runs its UPDATE on the pool: with as many updates at once as there are connections, each waits for another's until its 30 minutes have passed, and its status is not saved though the database refused nothing ("make sure we save status update (and possible new DD)", `onboard.go:196`). 100 River workers share 10 connections (`main.go:218`, `settings.sample.yaml:10`). |
| `violation_registration` | `OwnersCanRegister` | For a VIN that no row has, `GetVehicleByExternalID` returns an error of its own (`service/vehicle.go:194`), the handler lets only `ErrVehicleNotFound` pass and answers 500 ("if now found, we're still good, so fail only on other errors", `vehicle.go:221`). |

Also seen while modelling, without a run:

- The row made up for an unknown VIN submitted for minting has status 30, which `IsVerified` accepts, so the vendor connects a
  VIN that nobody verified (`onboard.go:143`, `vehicle.go:789`).
- A verify job that read its row before an onboard job ended writes all columns back and erases the tokens (`verify.go:200`).
- Of two overlapping onboard jobs of a VIN the second mints a second vehicle (`onboard.go:159`).
- `slices.Compact` drops adjacent duplicates only, so a request for a, b, a queues two jobs for a (`vehicle.go:736`).
- A row that `RegisterVehicle` finds keeps its `vehicle_token_id`, also when that is NULL (`vehicle.go:237`), and an SD is adopted
  without a wallet index (`vehicle.go:241`), so the oracle cannot sign for it.

### Bounds

One VIN is enough for what happens within a row, since jobs of other VINs meet it only at the
mutexes, the sequence and the chain's ids: two runs have more.  A stale write needs a reader, a
writer that overtakes it and, for an erased token, a third job that put it there: three jobs.  Jobs
are counted over the whole behaviour, so a finished one still counts.  One request in service
overlaps any number of jobs, the only thing a handler races with other than another handler of the
same VIN; since handlers write what a job could have read, the overlap of two is found as that of a
request and a job that was started before it.  `MaxMints` and `MaxIndexes` are 2, a first token and the
one that replaces it, except where the VIN is to be minted once.  In `failures_two_vins`, where one
VIN begins minted, they are 3: that leaves an index for each of two jobs, which may hold them at once, or one for the mint that is
lost and one for the mint that follows it.  A request names at most two VINs; the two jobs that
one for a, b, a would queue for a come from two requests.  `MaxAttempts` 2 has a retry and a last attempt;
in `races_one_vin` it is 1, for a retried job adds nothing there that another job does not.

Two operations are one that another overtakes by redelivery; the jobs beside them bring an unknown VIN to minted
and back, so that the consumer's copies span a mint and a burn.  `Statuses` leaves out `inQueue` and `inProgress`,
which the code treats as it does `failed`.  In `telemetry` two partitions fill one cache entry, and one of them
has a message that can be marked past a failed one; `TTL` 1 is enough for an entry to outlive a mint or a burn;
the second SD tells a stale entry from a current one.  `MaxRestarts` bounds deaths and rebalances.

Two connections are few enough for two updates to exhaust the pool, or an update and a lost connection, or two lost ones; the handler
and the consumer are those who then wait.  Two requests read the table and keep what they read in either order, around two
edits; lifetimes of two ticks tell a copy that has just been made from one that is about to expire.

Edits of the table are bounded by `MaxChanges` per life of a copy, refused statements by `MaxErrors`.

Deadlock is checked in every run but `violation_enrollment_channel`, where the consumer stops, which is the point.

### Fairness

`FairSpec` adds strong fairness of each job's steps and weak fairness of each request's steps.
River fetches up to 100 jobs at a time and every queued job in the end; a goroutine that can run
does.  Strong fairness is needed for `Lock` alone: while others take and release the mutex, a waiter
is enabled again and again but not always.  Go's mutex grants the lock to the longest waiter once it
has starved for a millisecond, which is strong fairness.  Nothing is assumed of clients, of failures,
or of which answer the vendor and the chain give.

`OperationsFairSpec` and `TelemetryFairSpec` add weak fairness of a consumer's steps: its goroutine runs, and calls
of the database and of the DIMO node come back (the HTTP client has a timeout).  Commits, rebalances, restarts, the
vendor and onboarding need not happen.

`PoolFairSpec` adds strong fairness of getting a connection and of a client's other steps: `database/sql` hands a free
connection to one of those that wait, so who waits while others come and go gets one in the end; the second
connection of an update is waited for in the same way.  New calls and errors need not happen.
`ServicesSpec` has no fairness, for its properties are of safety.

## Proofs

`OnboardingProofs` proves, for any number of VINs, jobs and requests, any bounds, any overlaps and
any failures, from `BoundsAssumption` and `InputAssumption` of `Onboarding` (the bounds are naturals,
there is a VIN, and `Minted` names VINs at most once):

| Theorem | States |
|---|---|
| `InvariantHolds` | `Spec => []IInv` |
| `TypeCorrect` | `Spec => []TypeOK` |
| `KeysMatch` | `Spec => []DeviceKeysMatch` |
| `OneEnrollment` | `Spec => []NeverBothSucceeded` |
| `UniqueIndexes` | `Spec => []WalletIndexesAreUnique` |
| `LocksReleased` | `Spec => []LocksAreReleased` |
| `BurnsAreExclusive` | `Spec => []OneBurnAtATime`, if `"burnResult"` is not among the failures |

None of these invariants is inductive: a row is as good as the copy that is written over it.  `IInv`
therefore says of every copy, in a job or in a handler, what the properties say of the table
(`Sound`), and adds what a token needs on its way into a row: ids and indexes on the chain are below
the sequences and not repeated (`TokensFresh`), an index that a job has taken and not yet minted with
is nobody else's (`IndexesFresh`), only burning workers are in a burn (`BurnersBurn`), and whoever is in
one holds the lock alone (`BurnsExclude`).  `Sound` looks at what was *ever* minted, not at what lives,
and that is why stale writes keep it: minted tokens are never unminted, so a copy once sound stays
sound (`SoundGrows`).  A partial update keeps it because the columns that `Sound` relates (SD and wallet
index; connection and disconnection) are always written together (`UpdateSound`).

The proof has lemmas about rows first, then one about *calm* steps, those that leave the chain, the
sequences and the locks alone and change one job to another sound one; most steps of the workers are
calm.  The steps that mint, take an index, lock, unlock, burn or die have lemmas of their own, and
`NextIInv` joins them.

`TelemetryProofs` proves, for any partitions, VINs, messages, restarts and `TTL`, from `TelemetryAssumption`:

| Theorem | States |
|---|---|
| `TelemetryInvariantHolds` | `TelemetrySpec => []TelemetryInv` |
| `TelemetryTypeCorrect` | `TelemetrySpec => []TelemetryTypeOK` |
| `NoEventIsSkipped` | `TelemetrySpec => []NothingIsSkipped` |
| `TokensAreRecent` | `TelemetrySpec => []DecidedByRecentTokens` |

`NothingIsSkipped` needs that marks never run ahead of the position (`HandlersSound`), or a commit could.
`DecidedByRecentTokens` is not inductive because time passes: an entry must expire before what it was filled
from is too old, so `CacheSound` bounds the sum of an entry's remaining life and the age of those tokens by `TTL`, and
`ReadsSound` says that what a handler has read and not yet cached is not a tick old.

`PoolProofs` proves, for any clients, uses and size of the pool, from `PoolAssumption`:

| Theorem | States |
|---|---|
| `PoolInvariantHolds` | `PoolSpec => []PoolInv` |
| `PoolTypeCorrect` | `PoolSpec => []PoolTypeOK` |
| `ConnectionsAreHeld` | `PoolSpec => []EveryConnectionIsHeld` |
| `UpdatesExhaust` | `PoolSpec => []OnlyUpdatesExhaust` |

`EveryConnectionIsHeld` is an equation between a counter and two cardinalities; the invariant adds in which use a client can be at
which place, so that a step that gives a connection back is one of a client that is counted, and the cardinalities change by one
(facts of `FiniteSetTheorems`).  `OnlyUpdatesExhaust` follows from it.

`ServicesProofs` proves, for any jobs, requests, wallets, lifetimes and edits, from `LifetimeAssumption`, `AccessAssumption` and
`DefinitionAssumption`:

| Theorem | States |
|---|---|
| `ServicesInvariantHolds` | `ServicesSpec => []ServicesInv` |
| `ServicesTypeCorrect` | `ServicesSpec => []ServicesTypeOK` |
| `TokensAreKept` | `ServicesSpec => []OneValidToken` |
| `EmptyDefinitionsExpire` | `ServicesSpec => []EmptyOnlyRecently` |
| `AdmissionsAreRecent` | `ServicesSpec => AdmittedRecently` |

`OneValidToken` needs that whoever renews is alone and that there is no token meanwhile (`RenewalsExclude`).  The two properties of
copies are not inductive because time passes: `CopySound` and `EmptySound` bound the remaining life of a copy plus the age of what it was
made of by the copy's whole life.  Every step of a request is one of a few moves (`RequestMoves`), of which one lemma shows that they
keep the invariant, and the action property follows from it and the same moves.

`OperationsProofs` proves, for any topic, statuses, other messages and size of the channel, with crashes, redeliveries,
rebalances and lost writes, from the assumptions of `Onboarding` and `OperationsAssumption`:

| Theorem | States |
|---|---|
| `OperationsInvariantHolds` | `OperationsSpec => []OInv` |
| `OperationsTypeCorrect` | `OperationsSpec => []OperationsTypeOK` |
| `OneEnrollmentWithOperations` | `OperationsSpec => []NeverBothSucceeded` |
| `KeysMatchWithOperations` | `OperationsSpec => []DeviceKeysMatch` |
| `LastOperationRecorded` | `OperationsSpec => []LastIsRecorded` |

`OInv` has `IInv`, which the consumer keeps because the two columns it writes are written together.  `LastIsRecorded`
speaks of the end of the topic only and is far from inductive: after a redelivery an old operation is recorded over a newer
one.  `RecordedSoFar` says what holds all the time: the row says what *some* operation of the topic said that no operation
handed out so far is later than.  At the end of the topic that can only be the last.

`SerialProofs` proves what a client gets that waits for its jobs.  The assumption is `SerialClients`, that is `Races = {}`; the
table may begin with any minted and verified VINs, and there are any number of VINs, jobs and requests, of any length:

| Theorem | States |
|---|---|
| `SerialInvariantHolds` | `Spec => []SerialInv` |
| `RowsAreTrue` | `Spec => [](failures = 0 => RowsMatchTheChain)` |
| `StatusesTell` | `Spec => [](failures = 0 => StatusTellsTokens)` |
| `NoneStranded` | `Spec => [](failures = 0 => NeverStranded)` |
| `JobsAreAnswered` | `Spec => EndedJobsAreAnswered`, if `Failures = {}` |

`failures = 0` is not a weaker instance than that of the run: the failures it excludes are a crash, a failed read, a lost write, a lost
answer and an unreadable result.  What the vendor, the decoder and the chain refuse, which every worker handles, is no failure in this
sense and may happen at any step, and the environment may have failures in store: the properties hold until the first.

`SerialInv` is `failures = 0 => SInv`, and `SInv` has two halves.  `OneAtATime` says who has a VIN in hand: one pending job at
most, one request at most, and both only from the queueing of the job to the upsert of the row.  `CopiesCurrent` follows
from it: what a handler will write back is what the row says.  `JobFits` then says, place by place of each worker, how its copy, the row, the
status and the chain are related (`VerifyFits`, `OnboardFits`, `DisconnectFits`, `DeleteFits`): the copy names the tokens that live,
and so does the row, but for the places between a call of the chain and its deferred save (`Behind`).  A row that no worker has in
hand satisfies `StatusFits`, which relates each of the statuses that a job may leave behind to the tokens that come with it.
The properties follow from `RowFits`, and the proof that steps keep `SInv` has one lemma per action, `NextSInv` at the end.

`LifecycleProofs` proves the refinement, from `SerialClients` and `Failures = {}`:

| Theorem | States |
|---|---|
| `StepsFollowLifecycle` | `Spec => [][Lifecycle!LifecycleNext]_(Lifecycle!lifecycle)` |
| `FollowsTheLifecycle` | `Spec => FollowsLifecycle`, if the table begins empty, as `LifecycleInit` does |

The mapping computes `held` from the chain, by a `CHOOSE` among what lives.  `HeldTracked` replaces it: by `SInv` the tokens that
live for a VIN are those of the copy of the worker that has it in hand, and otherwise those of its row.  So a step is followed on copies
and rows alone: most leave both as they are, one makes the row (`Learn`), a deferred save brings the row up to what the
copy knows (`Record`), and at a mint or a burn the row still equals the copy (the places of `Behind` are not where the chain
is called), which is what `OnChain` asks for.

`SerialOperationsProofs` puts the operations consumer beside clients that wait:

| Theorem | States |
|---|---|
| `SerialInvariantWithOperations` | `OperationsSpec => []SerialInv` |
| `RowsAreStillTrue` | `OperationsSpec => []RowsStillMatch` |
| `FailedConnectionsRetry` | `OperationsSpec => []FailedConnectionsCanRetry` |
| `AnswersWithOperations` | `OperationsSpec => [](failures = 0 => StatusTellsTokens /\ NeverStranded)` |
| `FollowsWithOperations` | `OperationsSpec => FollowsLifecycle`, if nothing fails and the table begins empty |

The consumer is not a client that waits: it writes a copy as old as it likes at any moment, also while a worker has the VIN in hand.  But
`SInv` and the lifecycle speak of none of the columns it writes (`Alike`), and a row it has read is not made or removed by it.

Model-checked only: liveness (`EveryJobEnds`, `EveryEventIsHandled`, `EveryCallReturns`), which is out of the prover's reach, as is
what the violation runs refute.  Every invariant and every action property of a passing run is a theorem.

## Not modelled, and the plan

1. A passing run of `Registration` with rows that the lookup finds: its upsert of a stale copy meets the workers' and the
   consumer's columns, and the proof that `Registration` keeps `IInv` but for the tokens it adopts.
2. Proofs of what the lifecycle alone implies (no token is ever held twice, no id is given again), so that they hold of
   `Onboarding` through the refinement and of `Telemetry`, which is composed with it.

In `Registration` the operations consumer is reduced to what it does to `external_id`, at any time (`SetExternal`).  The copies of
vehicles in the identity client are written and never read, and `GetVehicles` has no route: neither is modelled.

Left out altogether: logging, metrics, HTTP routing and middleware (`internal/app`), configuration and wiring,
migrations and generated ORM code beyond what `VinRecords` says of it, the values that conversion puts into CloudEvents
and cryptography (a wallet index stands for its key).
