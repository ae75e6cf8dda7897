------------------------- MODULE OnboardingProperties -------------------------
(***************************************************************************)
(* What the onboarding of VINs must guarantee.  The first group holds      *)
(* whatever overlaps and whatever fails; the second when clients wait for  *)
(* their jobs and nothing is lost; the last is what the repository's own   *)
(* words say of the code, and the code does not do.                        *)
(***************************************************************************)
EXTENDS Onboarding

TypeOK ==
  /\ vins \in [Vins -> Row]
  /\ jobs \in [Jobs -> Job]
  /\ requests \in [Requests -> Request]
  /\ vehicles \in SUBSET Vehicle
  /\ sds \in SUBSET SD
  /\ burned \in [vehicles : SUBSET Nat, sds : SUBSET Nat]
  /\ seq \in [vehicle : Nat \ {0}, sd : Nat \ {0}, wallet : Nat \ {0}]
  /\ locked \in [BurnKinds -> BOOLEAN]
  /\ failures \in Nat

-----------------------------------------------------------------------------
(* Under every interleaving and failure.                                   *)

\* What a copy of v's row says of its tokens: both were minted for v, and the
\* wallet index is the one the SD was minted with.
KeyedBy(v, row) ==
  /\ row.veh # 0 => [id |-> row.veh, vin |-> v] \in vehicles
  /\ row.sd = 0 => row.wallet = 0
  /\ row.sd # 0 => \E x \in sds : x.id = row.sd /\ x.vin = v /\ x.wallet = row.wallet

\* The device's key is derived from wallet_index, so a row whose index is not
\* its SD's signs with a key that the chain does not know, and one with
\* another VIN's tokens sends that vehicle's data.  Handlers and workers write
\* back different columns of stale copies (service/vehicle.go:251, the update
\* methods of the workers), and no mix of those writes may pair them wrongly.
DeviceKeysMatch == \A v \in Vins : KeyedBy(v, vins[v])

\* sd_wallet_index_seq is read outside every lock, by jobs of any VIN
\* (onboard.go:446): no two devices ever get the same key, and no two VINs
\* claim the same device or the same vehicle.
WalletIndexesAreUnique ==
  /\ \A x, y \in sds : x.wallet = y.wallet => x = y
  /\ \A v, w \in Vins : v # w =>
       /\ vins[v].wallet # 0 => vins[v].wallet # vins[w].wallet
       /\ vins[v].sd # 0 => vins[v].sd # vins[w].sd
       /\ vins[v].veh # 0 => vins[v].veh # vins[w].veh

\* The connect and the disconnect of a VIN may overlap, and each worker and
\* each handler writes the two columns from its own copy: a VIN is never
\* recorded as both connected and disconnected (onboard.go:415,
\* disconnect.go:128).
NeverBothSucceeded ==
  \A v \in Vins : ~(vins[v].conn = "succeeded" /\ vins[v].disc = "succeeded")

InBurn(j) == jobs[j].at \in {"burn", "unlockTwice", "unlock"}

\* Whoever leaves a burn, by whichever path, leaves the worker's mutex free
\* for the next one: it is never held with no job in the burn
\* (disconnect.go:163-179, delete.go:121-137).
LocksAreReleased ==
  \A k \in BurnKinds : locked[k] => \E j \in Jobs : InBurn(j) /\ jobs[j].kind = k

\* While every burn result can be read, one operation at a time is sent by
\* each burning worker, whatever dies or is lost.
OneBurnAtATime ==
  \A i, j \in Jobs :
    InBurn(i) /\ InBurn(j) /\ jobs[i].kind = jobs[j].kind => i = j

\* Every job that is queued ends: no worker waits for ever for a mutex, an
\* attempt that died is rescued, and retries run out.
EveryJobEnds == \A j \in Jobs : Pending(j) ~> jobs[j].at = "ended"

-----------------------------------------------------------------------------
(* When clients wait for their jobs, handlers write their rows back before *)
(* the jobs they queued start, and nothing crashes or is lost.             *)

AtRest(v) ==
  /\ \A j \in Jobs : Pending(j) => jobs[j].vin # v
  /\ \A r \in Requests : \A i \in DOMAIN requests[r].batch : requests[r].batch[i] # v

\* The table tells the truth about the chain: the vehicle and the SD that live
\* for a VIN are those of its row.
RowsMatchTheChain ==
  \A v \in Vins : AtRest(v) =>
    /\ \A x \in vehicles : x.vin = v => (LiveVehicle(x.id) <=> vins[v].veh = x.id)
    /\ \A x \in sds : x.vin = v => (LiveSD(x.id) <=> vins[v].sd = x.id)

\* What a client is told, and the status alone, which is what the handlers look
\* at, say which tokens the row has: the answer "Success" for each kind of job,
\* and the failure codes of the burns.
StatusTellsTokens ==
  \A v \in Vins : AtRest(v) =>
    LET row == vins[v]
    IN  /\ GetMintStatusForVins(row) = "Success" => row.veh # 0 /\ row.sd # 0
        /\ GetDisconnectStatusForVins(row) = "Success" => row.veh # 0 /\ row.sd = 0
        /\ GetDeleteStatusForVins(row) = "Success" => row.veh = 0 /\ row.sd = 0
        /\ row.status \in {OnboardingStatusDisconnectFailure,
                           OnboardingStatusBurnSDFailure} => row.sd # 0
        /\ row.status = OnboardingStatusBurnVehicleFailure
             => row.veh # 0 /\ row.sd = 0

\* A client polls the status of the kind of job it submitted: once the job has
\* done its work, well or not, the answer is final.  Each worker leaves Work at
\* several places, with the status that its last save left behind.
EndedJobsAreAnswered ==
  [][\A j \in Jobs : Running(j) /\ jobs'[j].at = "ended" =>
       StatusFor(jobs[j].kind, vins'[jobs[j].vin]) \in {"Success", "Failure"}]_vars

\* What the worker will do for the row needs the client's signature, and the
\* API hands out what to sign.
SignatureOffered(kind, row) ==
  CASE kind = "verify"     -> TRUE
    [] kind = "onboard"    -> (row.veh # 0 /\ row.sd # 0) \/ MintDataOffered(row)
    [] kind = "disconnect" -> DisconnectDataOffered(row)
    [] kind = "delete"     -> DeleteDataOffered(row)

\* The dead ends of the API.  A failed delete: its operation is handed out
\* again, but vehicle_delete.go:270 takes the failure for a pending delete.  A
\* VIN submitted for a disconnect or a delete before the oracle knew it: the
\* made-up status counts as verified, and no range of the data handlers has it.
DeadEnds == {OnboardingStatusBurnVehicleFailure,
             OnboardingStatusDisconnectSubmitUnknown, OnboardingStatusDeleteSubmitUnknown}

\* In every other status no VIN is stranded: whatever step failed, for some kind
\* of job the API hands out what to sign, the submit endpoint accepts the VIN,
\* and the worker does not just return.  Three places of the code keep three
\* lists of statuses that have to agree on that.
NeverStranded ==
  \A v \in Vins : AtRest(v) =>
    \/ vins[v].status \in DeadEnds
    \/ \E k \in Kinds : /\ SignatureOffered(k, vins[v])
                       /\ CanSubmit(k, vins[v])
                       /\ Runs(k, vins[v])

-----------------------------------------------------------------------------
(* What the words of the repository say, refuted by a run of its own.      *)

\* disconnect.go:156, delete.go:114: "make sure we save status update".  So a
\* burn whose result could not be read still reaches its deferred update: no
\* job ends in the middle of it.
BurnFailureIsSaved ==
  [][\A j \in Jobs : InBurn(j) => jobs'[j].at # "ended"]_vars
=============================================================================
