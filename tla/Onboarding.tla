------------------------------ MODULE Onboarding ------------------------------
(***************************************************************************)
(* The life of a VIN in the oracle: the submit handlers of the HTTP API    *)
(* (internal/controllers), the River jobs they queue, the verify, onboard, *)
(* disconnect and delete workers (internal/onboarding) that run them, the  *)
(* vins table they all read and write, and the chain the workers mint and  *)
(* burn on.  A handler or a worker is a process that copies a row into     *)
(* memory, works on the copy and writes columns of it back later; each     *)
(* access of the table, of the chain or of a worker's mutex is a step.     *)
(***************************************************************************)
EXTENDS VinRecords, Sequences, FiniteSets

CONSTANTS
  Vins,         \* vehicle identification numbers
  Verified,     \* those that begin verified
  Minted,       \* those that begin minted, in the order of their minting
  Offered,      \* the kinds of job clients submit
  MaxJobs,      \* bound on the jobs ever queued
  Requests,     \* HTTP requests in service at the same time: a bound
  MaxBatch,     \* bound on the VINs of one submit request
  MaxAttempts,  \* attempts River gives a verify job (its default is 25)
  MaxMints,     \* bound on the vehicles, and on the SDs, ever minted
  MaxIndexes,   \* bound on the wallet indexes ever taken
  Failures,     \* kinds of failure the environment may produce
  MaxFailures,  \* bound on their number
  Races         \* which accesses to one VIN may overlap, see Quiet below

Kinds        == {"verify", "onboard", "disconnect", "delete"}
BurnKinds    == {"disconnect", "delete"}
FailureKinds == {"crash", "lostRead", "lostWrite", "lostAnswer", "burnResult"}

ASSUME BoundsAssumption ==
  /\ MaxJobs \in Nat /\ MaxBatch \in Nat /\ MaxAttempts \in Nat
  /\ MaxMints \in Nat /\ MaxIndexes \in Nat /\ MaxFailures \in Nat
ASSUME InputAssumption ==
  /\ Vins # {} /\ Verified \subseteq Vins /\ Offered \subseteq Kinds
  /\ Minted \in Seq(Vins)
  /\ \A i, k \in DOMAIN Minted : Minted[i] = Minted[k] => i = k
ASSUME FailuresAssumption == Failures \subseteq FailureKinds
ASSUME RacesAssumption    == Races \subseteq {"requests", "upsert"}

VARIABLES
  vins,      \* the vins table: VIN -> row
  jobs,      \* the jobs: not yet queued, queued, running or ended
  requests,  \* request slot -> request in service, or NoRequest
  vehicles,  \* chain: every vehicle ever minted, and for which VIN
  sds,       \* chain: every synthetic device ever minted
  burned,    \* chain: ids burned, of vehicles and of SDs
  seq,       \* next vehicle id, next SD id, next value of sd_wallet_index_seq
  locked,    \* the mutex of the disconnect and of the delete worker
  failures   \* failures injected so far

vars == <<vins, jobs, requests, vehicles, sds, burned, seq, locked, failures>>
chain == <<vehicles, sds, burned>>

-----------------------------------------------------------------------------
(* Jobs, requests and the chain.                                           *)

Jobs == 1..MaxJobs

Places == {"none", "available", "ended",
           "insert", "decode", "decoding", "validate",
           "connect", "saveConnect", "wallet", "mint",
           "saveVehicle", "saveSD", "finish",
           "disconnect", "saveDisconnect",
           "lock", "burn", "unlockTwice", "unlock", "saveBurn"}

\* A job: its arguments (kind, vin, op: the token its signed user operation
\* burns), the attempts River has started, where its worker is, the worker's
\* copy of the row, and the wallet index it took.
Job == [kind : Kinds, vin : Vins, op : Nat, attempt : Nat,
        at : Places, record : Row, index : Nat]

AnyVin == CHOOSE v \in Vins : TRUE
Available(kind, v, op, attempt) ==
  [kind |-> kind, vin |-> v, op |-> op, attempt |-> attempt,
   at |-> "available", record |-> NoRow, index |-> 0]
NoJob == [Available("verify", AnyVin, 0, 0) EXCEPT !.at = "none"]
Ended == [NoJob EXCEPT !.at = "ended"]

Request == [kind : Kinds, at : {"none", "reread", "submit", "upsert"},
            batch : Seq(Vins), rows : [Vins -> Row]]
NoRequest == [kind |-> "verify", at |-> "none", batch |-> <<>>,
              rows |-> [v \in Vins |-> NoRow]]

\* slices.Compact(vins) has the length of vins: it drops only a VIN that
\* follows itself.
Batches ==
  {b \in UNION {[1..n -> Vins] : n \in 1..MaxBatch} :
     \A i \in 1..(Len(b) - 1) : b[i] # b[i + 1]}

Vehicle == [id : Nat, vin : Vins]
SD      == [id : Nat, vehicle : Nat, wallet : Nat, vin : Vins]

LiveVehicle(id) == id \notin burned.vehicles /\ \E x \in vehicles : x.id = id
LiveSD(id)      == id \notin burned.sds /\ \E x \in sds : x.id = id

\* The rows that verification and the mint with index i leave behind.
VerifiedRow ==
  [NewRow(OnboardingStatusVendorValidationSuccess) EXCEPT !.dd = TRUE]
MintedRow(i) ==
  [VerifiedRow EXCEPT !.status = OnboardingStatusMintSuccess, !.veh = i,
                      !.sd = i, !.wallet = i, !.conn = "succeeded"]
MintIndex(v) == CHOOSE i \in DOMAIN Minted : Minted[i] = v

StartRow(v) ==
  IF \E i \in DOMAIN Minted : Minted[i] = v THEN MintedRow(MintIndex(v))
  ELSE IF v \in Verified THEN VerifiedRow
  ELSE NoRow

Init ==
  /\ vins = [v \in Vins |-> StartRow(v)]
  /\ jobs = [j \in Jobs |-> NoJob]
  /\ requests = [r \in Requests |-> NoRequest]
  /\ vehicles = {[id |-> i, vin |-> Minted[i]] : i \in DOMAIN Minted}
  /\ sds = {[id |-> i, vehicle |-> i, wallet |-> i, vin |-> Minted[i]] :
              i \in DOMAIN Minted}
  /\ burned = [vehicles |-> {}, sds |-> {}]
  /\ seq = [vehicle |-> Len(Minted) + 1, sd |-> Len(Minted) + 1,
            wallet |-> Len(Minted) + 1]
  /\ locked = [k \in BurnKinds |-> FALSE]
  /\ failures = 0

Fail(kind) ==
  /\ kind \in Failures
  /\ failures < MaxFailures
  /\ failures' = failures + 1

Pending(j) == jobs[j].at \notin {"none", "ended"}
Running(j) == Pending(j) /\ jobs[j].at # "available"

\* With "requests" in Races, clients submit whatever they like at any time;
\* without it they submit for a VIN only once its last job has ended, and so
\* name it once in a request, for the handler queues a job each time it is
\* named.  With "upsert" in Races a job may start before the handler that
\* queued it has written its rows back; without it the handler is always faster.
Quiet(r, batch) ==
  "requests" \in Races \/
    \A i \in DOMAIN batch :
      /\ \A j \in Jobs : Pending(j) => jobs[j].vin # batch[i]
      /\ \A q \in Requests \ {r} :
           \A k \in DOMAIN requests[q].batch : requests[q].batch[k] # batch[i]
      /\ \A k \in DOMAIN batch : batch[k] = batch[i] => k = i

MayStart(j) ==
  "upsert" \in Races \/
    \A r \in Requests :
      \A i \in DOMAIN requests[r].batch : requests[r].batch[i] # jobs[j].vin
-----------------------------------------------------------------------------
(* River.  A job whose worker returns nil is complete; one whose worker    *)
(* returns an error, panics or dies with the process is run again while it *)
(* has attempts left, which only a verify job ever has (MaxAttempts is 1   *)
(* for the others), and discarded otherwise.                               *)

Completed == Ended
Errored(job) ==
  IF job.kind = "verify" /\ job.attempt < MaxAttempts
    THEN Available(job.kind, job.vin, job.op, job.attempt)
    ELSE Ended

Put(j, job)            == jobs' = [jobs EXCEPT ![j] = job]
Move(j, place, record) == Put(j, [jobs[j] EXCEPT !.at = place, !.record = record])

\* The process dies: no deferred call runs, running jobs are rescued later.
Die ==
  /\ jobs' = [j \in Jobs |-> IF ~Running(j)
                               THEN jobs[j] ELSE Errored(jobs[j])]
  /\ requests' = [r \in Requests |-> NoRequest]
  /\ locked' = [k \in BurnKinds |-> FALSE]

Crash ==
  /\ Fail("crash")
  /\ Die
  /\ UNCHANGED <<vins, chain, seq>>

\* The update methods of the workers: write columns of the record back.  An
\* error of the UPDATE (or of its transaction, in a deferred update) is
\* logged and forgotten.
Save(j, record, columns) ==
  \/ /\ vins' = [vins EXCEPT ![jobs[j].vin] = Update(@, record, columns)]
     /\ UNCHANGED failures
  \/ /\ Fail("lostWrite")
     /\ UNCHANGED vins

Start(j, kind) ==
  /\ jobs[j].at = "available"
  /\ jobs[j].kind = kind
  /\ MayStart(j)
  /\ UNCHANGED <<vins, requests, chain, seq, locked, failures>>

StartedUncounted(j, place, record) ==  \* mutant: the attempt is not counted
  [jobs[j] EXCEPT !.at = place, !.record = record]
Started(j, place, record) ==
  [jobs[j] EXCEPT !.at = place, !.record = record, !.attempt = @ + 1]

RunsUnminted(kind, row) ==  \* mutant: a minted VIN is never connected again
  IF kind = "onboard"
    THEN row.present /\ IsVerified(row.status) /\ ~IsMinted(row.status)
    ELSE row.present

\* The early returns of the workers' Work: does a job of the kind do anything
\* for the row it finds?  A verify worker that finds no row makes one.
Runs(kind, row) ==
  CASE kind = "verify" -> row.status # OnboardingStatusVendorValidationSuccess
    [] kind = "onboard" ->
         /\ row.present
         /\ IsVerified(row.status)
         /\ ~(IsMinted(row.status) /\ row.conn # "failed")
    [] kind = "disconnect" ->
         /\ row.present
         /\ row.status >= OnboardingStatusMintSuccess
         /\ ~IsDisconnected(row.status)
    [] kind = "delete" ->
         /\ row.present
         /\ row.status >= OnboardingStatusBurnSDSuccess
         /\ row.status # OnboardingStatusBurnVehicleSuccess
         /\ row.sd = 0 /\ row.veh # 0

\* Work up to its first step: the row is read, and the job goes on from
\* place with that copy or ends at once.
StartOrEnd(j, kind, place) ==
  LET row == vins[jobs[j].vin]
  IN  /\ Start(j, kind)
      /\ \/ Runs(kind, row) /\ Put(j, Started(j, place, row))
         \/ ~Runs(kind, row) /\ Put(j, Completed)

\* GetVinRecord or GetOrCreateVinRecord cannot read the row: Work returns the
\* error.
WorkerReadFails(j) ==
  /\ jobs[j].at = "available"
  /\ MayStart(j)
  /\ Fail("lostRead")
  /\ Put(j, Errored(Started(j, "available", NoRow)))
  /\ UNCHANGED <<vins, requests, chain, seq, locked>>

-----------------------------------------------------------------------------
(* Verify worker.                                                          *)

\* Work and the lookup of GetOrCreateVinRecord.
StartVerify(j) ==
  \/ /\ vins[jobs[j].vin].present
     /\ StartOrEnd(j, "verify", "decode")
  \/ /\ ~vins[jobs[j].vin].present
     /\ Start(j, "verify")
     /\ Put(j, Started(j, "insert", NewRow(OnboardingStatusDecodingUnknown)))

\* The insert of GetOrCreateVinRecord: it fails, with a duplicate key if the
\* row has come to exist since the lookup.
InsertVinRecord(j) ==
  LET v == jobs[j].vin
  IN  /\ jobs[j].at = "insert"
      /\ \/ /\ ~vins[v].present
            /\ vins' = [vins EXCEPT ![v] = Insert(@, jobs[j].record)]
            /\ Move(j, "decode", jobs[j].record)
            /\ UNCHANGED failures
         \/ /\ \/ vins[v].present /\ UNCHANGED failures
               \/ Fail("lostWrite")
            /\ UNCHANGED vins
            /\ Put(j, Errored(jobs[j]))
      /\ UNCHANGED <<requests, chain, seq, locked>>

\* DecodeVinAndUpdate up to the call of the decoder, or all of it when the
\* VIN was decoded before.
StartDecode(j) ==
  LET rec     == jobs[j].record
      decoded == rec.status >= OnboardingStatusDecodingSuccess /\ rec.dd
      next    == [rec EXCEPT !.status = IF decoded
                                          THEN OnboardingStatusDecodingSuccess
                                          ELSE OnboardingStatusDecodingPending]
  IN  /\ jobs[j].at = "decode"
      /\ Save(j, next, AllColumns)
      /\ Move(j, IF decoded THEN "validate" ELSE "decoding", next)
      /\ UNCHANGED <<requests, chain, seq, locked>>

\* The answer of the decoder and of identity-api, and the deferred update.
DecodeVin(j) ==
  LET ok  == [jobs[j].record EXCEPT !.dd = TRUE,
                                    !.status = OnboardingStatusDecodingSuccess]
      bad == [jobs[j].record EXCEPT !.status = OnboardingStatusDecodingFailure]
  IN  /\ jobs[j].at = "decoding"
      /\ \/ Save(j, ok, AllColumns) /\ Move(j, "validate", ok)
         \/ Save(j, bad, AllColumns) /\ Put(j, Errored(jobs[j]))
      /\ UNCHANGED <<requests, chain, seq, locked>>

\* ValidateWithExternalVendorAndUpdate and its deferred update.
Validate(j) ==
  LET result(status) == [jobs[j].record EXCEPT !.status = status]
  IN  /\ jobs[j].at = "validate"
      /\ \/ /\ Save(j, result(OnboardingStatusVendorValidationSuccess), AllColumns)
            /\ Put(j, Completed)
         \/ /\ Save(j, result(OnboardingStatusVendorValidationFailure), AllColumns)
            /\ Put(j, Errored(jobs[j]))
      /\ UNCHANGED <<requests, chain, seq, locked>>

-----------------------------------------------------------------------------
(* Onboard worker.                                                         *)

StartOnboard(j) == StartOrEnd(j, "onboard", "connect")

\* What the two workers make of the enrollment columns.
ConnectedOnly(rec) == [rec EXCEPT !.conn = "succeeded"]  \* mutant
Connected(rec)     == [rec EXCEPT !.conn = "succeeded", !.disc = "null"]
Disconnected(rec)  == [rec EXCEPT !.disc = "succeeded", !.conn = "null"]

\* ConnectToVendorAndUpdate up to its deferred update: the vendor's answer,
\* and the enrollment columns.  Only a failure to begin or commit is an error.
ConnectToVendor(j) ==
  LET rec == Connected(jobs[j].record)
      failed(record) ==
        Move(j, "saveConnect", [record EXCEPT !.status = OnboardingStatusConnectFailure])
  IN  /\ jobs[j].at = "connect"
      /\ \/ /\ failed(jobs[j].record)
            /\ UNCHANGED <<vins, failures>>
         \/ /\ Save(j, rec, EnrollColumns)
            /\ Move(j, "saveConnect", [rec EXCEPT !.status = OnboardingStatusConnectSuccess])
         \/ /\ Fail("lostWrite")
            /\ failed(rec)
            /\ UNCHANGED vins
      /\ UNCHANGED <<requests, chain, seq, locked>>

\* The deferred update, and where Work goes on: mint what is missing, or
\* just record success.
SaveConnect(j) ==
  LET rec == jobs[j].record
  IN  /\ jobs[j].at = "saveConnect"
      /\ Save(j, rec, StatusColumn)
      /\ \/ /\ rec.status = OnboardingStatusConnectFailure
            /\ Put(j, Errored(jobs[j]))
         \/ /\ rec.status = OnboardingStatusConnectSuccess
            /\ rec.veh = 0 \/ rec.sd = 0
            /\ Move(j, "wallet", rec)
         \/ /\ rec.status = OnboardingStatusConnectSuccess
            /\ rec.veh # 0 /\ rec.sd # 0
            /\ Move(j, "finish", rec)
      /\ UNCHANGED <<requests, chain, seq, locked>>

\* Where the deferred update of the mint that a record needs is made.
SavePlace(record) == IF record.veh = 0 THEN "saveVehicle" ELSE "saveSD"
MintFailed(j) ==
  Move(j, SavePlace(jobs[j].record),
       [jobs[j].record EXCEPT !.status = OnboardingStatusMintFailure])

\* SELECT nextval('sd_wallet_index_seq').
NextWalletIndexFromTable ==  \* mutant: MAX(wallet_index) + 1
  CHOOSE n \in 1..(MaxIndexes + 1) :
    /\ \A v \in Vins : vins[v].wallet < n
    /\ n = 1 \/ \E v \in Vins : vins[v].wallet = n - 1
NextWalletIndex == seq.wallet

\* GetNextSDWalletIndex; before it the device definition is fetched.
TakeWalletIndex(j) ==
  /\ jobs[j].at = "wallet"
  /\ \/ MintFailed(j) /\ UNCHANGED seq
     \/ /\ seq.wallet <= MaxIndexes
        /\ Put(j, [jobs[j] EXCEPT !.at = "mint", !.index = NextWalletIndex])
        /\ seq' = [seq EXCEPT !.wallet = @ + 1]
  /\ UNCHANGED <<vins, requests, chain, locked, failures>>

\* The chain mints an SD for a vehicle, keyed by the job's wallet index.
ChainMintSD(j, vehicle) ==
  sds' = sds \cup {[id |-> seq.sd, vehicle |-> vehicle,
                    wallet |-> jobs[j].index, vin |-> jobs[j].vin]}

\* MintVehicleAndSDWithDD (or ...AndSACD) and the signing before it: the
\* mint is refused, or done, or done with its answer lost.
MintVehicleWithSD(j) ==
  /\ jobs[j].at = "mint"
  /\ jobs[j].record.veh = 0
  /\ \/ /\ MintFailed(j)
        /\ UNCHANGED <<vehicles, sds, seq, failures>>
     \/ /\ seq.vehicle <= MaxMints /\ seq.sd <= MaxMints
        /\ vehicles' = vehicles \cup {[id |-> seq.vehicle, vin |-> jobs[j].vin]}
        /\ ChainMintSD(j, seq.vehicle)
        /\ seq' = [seq EXCEPT !.vehicle = @ + 1, !.sd = @ + 1]
        /\ \/ /\ Move(j, "saveVehicle",
                      [jobs[j].record EXCEPT !.status = OnboardingStatusMintSuccess,
                                             !.veh = seq.vehicle, !.sd = seq.sd,
                                             !.wallet = jobs[j].index])
              /\ UNCHANGED failures
           \/ Fail("lostAnswer") /\ MintFailed(j)
  /\ UNCHANGED <<vins, requests, burned, locked>>

MintSD(j) ==
  /\ jobs[j].at = "mint"
  /\ jobs[j].record.veh # 0
  /\ \/ /\ MintFailed(j)
        /\ UNCHANGED <<sds, seq, failures>>
     \/ /\ seq.sd <= MaxMints /\ LiveVehicle(jobs[j].record.veh)
        /\ ChainMintSD(j, jobs[j].record.veh)
        /\ seq' = [seq EXCEPT !.sd = @ + 1]
        /\ \/ /\ Move(j, "saveSD",
                      [jobs[j].record EXCEPT !.status = OnboardingStatusMintSuccess,
                                             !.sd = seq.sd,
                                             !.wallet = jobs[j].index])
              /\ UNCHANGED failures
           \/ Fail("lostAnswer") /\ MintFailed(j)
  /\ UNCHANGED <<vins, requests, vehicles, burned, locked>>

\* The deferred update of MintVehicleWithSDAndUpdate.
SaveMintedVehicle(j) ==
  LET rec == jobs[j].record
  IN  /\ jobs[j].at = "saveVehicle"
      /\ Save(j, rec, VehicleSDColumns)
      /\ \/ /\ rec.status = OnboardingStatusMintSuccess
            /\ Move(j, "finish", rec)
         \/ /\ rec.status = OnboardingStatusMintFailure
            /\ Put(j, Errored(jobs[j]))
      /\ UNCHANGED <<requests, chain, seq, locked>>

\* The deferred update of MintSDAndUpdate; nothing follows it.
SaveMintedSD(j) ==
  /\ jobs[j].at = "saveSD"
  /\ Save(j, jobs[j].record, SDColumns)
  /\ Put(j, Completed)
  /\ UNCHANGED <<requests, chain, seq, locked>>

FinishOnboardUnsaved(j) ==  \* mutant: returns without the save
  /\ jobs[j].at = "finish"
  /\ Put(j, Completed)
  /\ UNCHANGED <<vins, requests, chain, seq, locked, failures>>

\* The last branch of Work: both tokens are there.
FinishOnboard(j) ==
  /\ jobs[j].at = "finish"
  /\ Save(j, [jobs[j].record EXCEPT !.status = OnboardingStatusMintSuccess], StatusColumn)
  /\ Put(j, Completed)
  /\ UNCHANGED <<requests, chain, seq, locked>>
-----------------------------------------------------------------------------
(* Disconnect worker and delete worker.                                    *)

StartDisconnect(j) == StartOrEnd(j, "disconnect", "disconnect")
StartDelete(j)     == StartOrEnd(j, "delete", "lock")

\* DisconnectFromVendorAndUpdate up to its deferred update.  A failure to
\* save the enrollment columns is recorded as a failure to connect.
DisconnectFromVendor(j) ==
  LET rec == Disconnected(jobs[j].record)
      result(record, status) ==
        Move(j, "saveDisconnect", [record EXCEPT !.status = status])
  IN  /\ jobs[j].at = "disconnect"
      /\ \/ /\ result(jobs[j].record, OnboardingStatusDisconnectFailure)
            /\ UNCHANGED <<vins, failures>>
         \/ /\ Save(j, rec, EnrollColumns)
            /\ result(rec, OnboardingStatusDisconnectSuccess)
         \/ /\ Fail("lostWrite")
            /\ result(rec, OnboardingStatusConnectFailure)
            /\ UNCHANGED vins
      /\ UNCHANGED <<requests, chain, seq, locked>>

SaveDisconnect(j) ==
  LET rec  == jobs[j].record
      done == rec.status = OnboardingStatusDisconnectSuccess
  IN  /\ jobs[j].at = "saveDisconnect"
      /\ Save(j, rec, StatusColumn)
      /\ \/ ~done /\ Put(j, Errored(jobs[j]))
         \/ done /\ rec.sd = 0 /\ Put(j, Completed)
         \/ done /\ rec.sd # 0 /\ Move(j, "lock", rec)
      /\ UNCHANGED <<requests, chain, seq, locked>>

\* BurnSDAndUpdate and BurnVehicleAndUpdate.  Each worker has a mutex: the
\* operation is sent, its result read, and the lock released before the
\* record is changed.
LockUnguarded(j) ==  \* mutant: a read lock taken where the lock was meant
  /\ jobs[j].at = "lock"
  /\ locked' = [locked EXCEPT ![jobs[j].kind] = TRUE]
  /\ Move(j, "burn", jobs[j].record)
  /\ UNCHANGED <<vins, requests, chain, seq, failures>>

Lock(j) ==
  /\ jobs[j].at = "lock"
  /\ ~locked[jobs[j].kind]
  /\ locked' = [locked EXCEPT ![jobs[j].kind] = TRUE]
  /\ Move(j, "burn", jobs[j].record)
  /\ UNCHANGED <<vins, requests, chain, seq, failures>>

BurnFailedUnknown(job) ==  \* mutant: the stage's code, no result
  [job.record EXCEPT !.status = 80]
BurnFailedAsDone(job) ==   \* mutant: the error is logged, success recorded
  [job.record EXCEPT !.status = IF job.kind = "disconnect"
                                  THEN OnboardingStatusBurnSDSuccess
                                  ELSE OnboardingStatusBurnVehicleSuccess]
BurnFailed(job) ==
  [job.record EXCEPT !.status = IF job.kind = "disconnect"
                                  THEN OnboardingStatusBurnSDFailure
                                  ELSE OnboardingStatusBurnVehicleFailure]
BurnDone(job) ==
  IF job.kind = "disconnect"
    THEN [job.record EXCEPT !.sd = 0, !.wallet = 0,
                            !.status = OnboardingStatusBurnSDSuccess]
    ELSE [job.record EXCEPT !.veh = 0,
                            !.status = OnboardingStatusBurnVehicleSuccess]

\* What the registry lets an operation burn: a live SD, or a live vehicle
\* that no live SD belongs to.
Burnable(kind, id) ==
  IF kind = "disconnect"
    THEN LiveSD(id)
    ELSE LiveVehicle(id) /\ \A x \in sds : x.vehicle = id => ~LiveSD(x.id)

ChainBurn(job) ==
  /\ Burnable(job.kind, job.op)
  /\ burned' = IF job.kind = "disconnect"
                 THEN [burned EXCEPT !.sds = @ \cup {job.op}]
                 ELSE [burned EXCEPT !.vehicles = @ \cup {job.op}]

\* SendSignedUserOperation and the reading of its result.  It is refused, or
\* done, or done with its answer lost; or it is included but its result
\* cannot be read, whether it took effect or not.  That last error is logged
\* and the lock released, but the function goes on: it releases the lock
\* again and records success.
SendBurnOperation(j) ==
  LET job == jobs[j]
  IN  /\ job.at = "burn"
      /\ \/ /\ Move(j, "unlock", BurnFailed(job))
            /\ UNCHANGED <<burned, failures>>
         \/ /\ ChainBurn(job)
            /\ Move(j, "unlock", BurnDone(job))
            /\ UNCHANGED failures
         \/ /\ Fail("lostAnswer")
            /\ ChainBurn(job)
            /\ Move(j, "unlock", BurnFailed(job))
         \/ /\ Fail("burnResult")
            /\ ChainBurn(job) \/ UNCHANGED burned
            /\ Move(j, "unlockTwice", BurnFailed(job))
      /\ UNCHANGED <<vins, requests, vehicles, sds, seq, locked>>

\* sync.RWMutex.Unlock.  A mutex has no owner: it may be another job's lock.
UnlockOnSuccess(j, place, record) ==  \* mutant: the error path keeps the lock
  /\ locked' = IF IsFailure(record.status) THEN locked
               ELSE [locked EXCEPT ![jobs[j].kind] = FALSE]
  /\ Move(j, place, record)
  /\ UNCHANGED <<vins, chain, seq, failures, requests>>

Unlock(j, place, record) ==
  /\ locked[jobs[j].kind]
  /\ locked' = [locked EXCEPT ![jobs[j].kind] = FALSE]
  /\ Move(j, place, record)
  /\ UNCHANGED <<vins, requests, chain, seq, failures>>

UnlockBurn(j) ==
  /\ jobs[j].at = "unlock"
  /\ Unlock(j, "saveBurn", jobs[j].record)

UnlockTwice(j) ==
  /\ jobs[j].at = "unlockTwice"
  /\ Unlock(j, "unlock", BurnDone(jobs[j]))

\* To unlock a mutex that is not locked is a fatal error of the Go runtime.
FatalUnlock(j) ==
  /\ jobs[j].at \in {"unlock", "unlockTwice"}
  /\ ~locked[jobs[j].kind]
  /\ Die
  /\ UNCHANGED <<vins, chain, seq, failures>>

\* The deferred update, which a panic on the missing result runs as well.
SaveBurn(j) ==
  /\ jobs[j].at = "saveBurn"
  /\ Save(j, jobs[j].record,
          IF jobs[j].kind = "disconnect" THEN SDColumns ELSE VehicleColumns)
  /\ Put(j, Completed)
  /\ UNCHANGED <<requests, chain, seq, locked>>

-----------------------------------------------------------------------------
(* The submit handlers: SubmitVerificationForVins, SubmitMintDataForVins,  *)
(* SubmitDisconnectDataForVins and SubmitDeleteDataForVins.                *)

\* The row a handler makes up for a VIN the table does not know.
UnknownStatus(kind) ==
  CASE kind = "verify"     -> OnboardingStatusSubmitUnknown
    [] kind = "onboard"    -> OnboardingStatusMintSubmitUnknown
    [] kind = "disconnect" -> OnboardingStatusDisconnectSubmitUnknown
    [] kind = "delete"     -> OnboardingStatusDeleteSubmitUnknown

CanSubmit(kind, row) ==
  CASE kind = "verify"     -> canSubmitVerificationJob(row.status)
    [] kind = "onboard"    -> canSubmitMintingJob(row.status, row.conn)
    [] kind = "disconnect" -> canSubmitDisconnectJob(row.status)
    [] kind = "delete"     -> canSubmitDeleteJob(row.status)

\* The token that the operation the API hands out for the row burns.
Operation(kind, row) ==
  CASE kind = "disconnect" -> row.sd
    [] kind = "delete"     -> row.veh
    [] OTHER               -> 0

\* FetchVehiclesByWalletAddress: the identity API tells which of a wallet's
\* vehicles live, and their SDs.
IdentitySDs(vehicle) == {x.id : x \in {y \in sds : y.vehicle = vehicle /\ LiveSD(y.id)}}

\* Do the two lookups of service/vehicle.go that ask for a status find the row?
GetVehiclesByVinsAndOnboardingStatus(row, status) ==
  row.present /\ row.status = status
GetVehiclesByVinsAndOnboardingStatusRange(row, minStatus, maxStatus, additionalStatuses) ==
  row.present /\ row.status \in minStatus..maxStatus \cup additionalStatuses

\* GetMintDataForVins, GetDisconnectDataForVins and GetDeleteDataForVins: for
\* which rows do they hand out what the client has to sign?
MintDataOffered(row) ==
  \/ /\ GetVehiclesByVinsAndOnboardingStatusRange(row,
          OnboardingStatusVendorValidationSuccess, OnboardingStatusMintFailure,
          {OnboardingStatusBurnSDSuccess, OnboardingStatusBurnVehicleSuccess})
     /\ row.veh = 0 \/ row.sd = 0 \/ row.conn = "failed"
  \/ /\ GetVehiclesByVinsAndOnboardingStatus(row, OnboardingStatusMintSuccess)
     /\ row.conn = "failed"

DisconnectDataOffered(row) ==
  /\ GetVehiclesByVinsAndOnboardingStatusRange(row,
       OnboardingStatusMintSuccess, OnboardingStatusBurnSDFailure, {})
  /\ row.veh # 0 /\ row.sd # 0
  /\ LiveVehicle(row.veh) /\ IdentitySDs(row.veh) = {row.sd}

DeleteDataOffered(row) ==
  /\ GetVehiclesByVinsAndOnboardingStatusRange(row,
       OnboardingStatusBurnSDSuccess, OnboardingStatusBurnVehicleFailure, {})
  /\ row.veh # 0 /\ row.sd = 0
  /\ LiveVehicle(row.veh) /\ IdentitySDs(row.veh) = {}

\* The four status handlers, for one VIN.
IfKnown(row, answer) == IF row.present THEN answer ELSE "Unknown"
GetVerificationStatusForVins(row) == IfKnown(row, GetVerificationStatus(row.status))
GetMintStatusForVins(row)         == IfKnown(row, GetMintStatus(row.status))
GetDisconnectStatusForVins(row)   == IfKnown(row, GetDisconnectStatus(row.status))
GetDeleteStatusForVins(row)       == IfKnown(row, GetBurnStatus(row.status))

StatusFor(kind, row) ==
  CASE kind = "verify"     -> GetVerificationStatusForVins(row)
    [] kind = "onboard"    -> GetMintStatusForVins(row)
    [] kind = "disconnect" -> GetDisconnectStatusForVins(row)
    [] kind = "delete"     -> GetDeleteStatusForVins(row)

\* The handler's copy of the row of a VIN.
Copy(r, v) ==
  IF requests[r].rows[v].present
    THEN requests[r].rows[v]
    ELSE NewRow(UnknownStatus(requests[r].kind))

\* The request is validated and the rows of its VINs are read.
BeginRequest(r) ==
  /\ requests[r].at = "none"
  /\ \E kind \in Offered, batch \in Batches :
       /\ Quiet(r, batch)
       /\ requests' =
            [requests EXCEPT ![r] =
               [kind |-> kind, batch |-> batch,
                at |-> IF kind = "onboard" THEN "reread" ELSE "submit",
                rows |-> [v \in Vins |-> IF \E i \in DOMAIN batch : batch[i] = v
                                           THEN vins[v] ELSE NoRow]]]
  /\ UNCHANGED <<vins, jobs, chain, seq, locked, failures>>

\* SubmitMintDataForVins reads the minted rows again, and takes those whose
\* connection has failed.
RereadMinted(r) ==
  LET req      == requests[r]
      again(v) == /\ \E i \in DOMAIN req.batch : req.batch[i] = v
                  /\ GetVehiclesByVinsAndOnboardingStatus(vins[v], OnboardingStatusMintSuccess)
                  /\ vins[v].conn = "failed"
  IN  /\ req.at = "reread"
      /\ requests' = [requests EXCEPT ![r] =
           [req EXCEPT !.at = "submit",
                       !.rows = [v \in Vins |-> IF again(v) THEN vins[v] ELSE @[v]]]]
      /\ UNCHANGED <<vins, jobs, chain, seq, locked, failures>>

\* The second read fails, which is answered with 500.
HandlerReadFails(r) ==
  /\ requests[r].at = "reread"
  /\ Fail("lostRead")
  /\ requests' = [requests EXCEPT ![r] = NoRequest]
  /\ UNCHANGED <<vins, jobs, chain, seq, locked>>

NextJob(j) == jobs[j].at = "none" /\ \A i \in 1..(j - 1) : jobs[i].at # "none"

\* Gate and queue a job for the next VIN; queueing may fail, which is only
\* reported to the client.
SubmitJob(r) ==
  LET req == requests[r]
      v   == Head(req.batch)
      row == Copy(r, v)
  IN  /\ req.at = "submit"
      /\ \/ /\ CanSubmit(req.kind, row)
            /\ \E j \in Jobs :
                 /\ NextJob(j)
                 /\ Put(j, Available(req.kind, v, Operation(req.kind, row), 0))
         \/ UNCHANGED jobs
      /\ requests' = [requests EXCEPT ![r].at = "upsert"]
      /\ UNCHANGED <<vins, chain, seq, locked, failures>>

\* InsertOrUpdateVin, queued or not, of every column of the copy; an error
\* ends the request.
UpsertVin(r) ==
  LET req == requests[r]
      v   == Head(req.batch)
  IN  /\ req.at = "upsert"
      /\ \/ /\ vins' = [vins EXCEPT ![v] = Upsert(@, Copy(r, v))]
            /\ requests' = [requests EXCEPT ![r] =
                 IF Len(req.batch) = 1 THEN NoRequest
                 ELSE [req EXCEPT !.at = "submit", !.batch = Tail(@)]]
            /\ UNCHANGED failures
         \/ /\ Fail("lostWrite")
            /\ requests' = [requests EXCEPT ![r] = NoRequest]
            /\ UNCHANGED vins
      /\ UNCHANGED <<jobs, chain, seq, locked>>

-----------------------------------------------------------------------------
VerifyStep(j) ==
  \/ StartVerify(j) \/ InsertVinRecord(j) \/ StartDecode(j)
  \/ DecodeVin(j) \/ Validate(j)

OnboardStep(j) ==
  \/ StartOnboard(j) \/ ConnectToVendor(j) \/ SaveConnect(j)
  \/ TakeWalletIndex(j) \/ MintVehicleWithSD(j) \/ MintSD(j)
  \/ SaveMintedVehicle(j) \/ SaveMintedSD(j) \/ FinishOnboard(j)

BurnStep(j) ==
  \/ StartDisconnect(j) \/ DisconnectFromVendor(j) \/ SaveDisconnect(j)
  \/ StartDelete(j) \/ Lock(j) \/ SendBurnOperation(j)
  \/ UnlockBurn(j) \/ UnlockTwice(j) \/ SaveBurn(j)

WorkerStep(j)  == VerifyStep(j) \/ OnboardStep(j) \/ BurnStep(j) \/ FatalUnlock(j)
HandlerStep(r) == RereadMinted(r) \/ SubmitJob(r) \/ UpsertVin(r)
ReadFails ==
  \/ \E j \in Jobs : WorkerReadFails(j)
  \/ \E r \in Requests : HandlerReadFails(r)

Next ==
  \/ \E j \in Jobs : WorkerStep(j)
  \/ \E r \in Requests : BeginRequest(r) \/ HandlerStep(r)
  \/ ReadFails
  \/ Crash

Spec == Init /\ [][Next]_vars

\* River fetches every queued job in the end (it runs up to 100 at a time), a
\* goroutine that can go on does, and Go's mutexes are starvation-free: Lock is
\* granted in the end to whoever waits, though others take it in between.
\* Handlers run to their end; clients need not act.
FairSpec ==
  /\ Spec
  /\ \A j \in Jobs : SF_vars(WorkerStep(j))
  /\ \A r \in Requests : WF_vars(HandlerStep(r))
=============================================================================
