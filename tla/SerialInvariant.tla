---------------------------- MODULE SerialInvariant ----------------------------
(***************************************************************************)
(* The inductive invariant of Onboarding for clients that wait for their   *)
(* jobs, while nothing fails: each VIN is in one pair of hands at a time,  *)
(* and at each place of a worker its copy and the row are related in one   *)
(* way to each other, to the status and to the tokens that live.           *)
(***************************************************************************)
EXTENDS OnboardingInvariant

\* Clients wait for their jobs, and handlers are faster than them.
SerialClients == Races = {}

-----------------------------------------------------------------------------
(* Rows and the chain.                                                     *)

\* v's row, or a copy of it, names the tokens that live for v.
Names(v, row) ==
  /\ \A x \in vehicles : x.vin = v => (LiveVehicle(x.id) <=> row.veh = x.id)
  /\ \A x \in sds : x.vin = v => (LiveSD(x.id) <=> row.sd = x.id)

\* The statuses a job may leave behind, and the tokens that come with them.
Untokened == {OnboardingStatusSubmitUnknown, OnboardingStatusDecodingFailure,
              OnboardingStatusVendorValidationFailure,
              OnboardingStatusVendorValidationSuccess,
              OnboardingStatusMintSubmitUnknown,
              OnboardingStatusDisconnectSubmitUnknown,
              OnboardingStatusDeleteSubmitUnknown,
              OnboardingStatusBurnVehicleSuccess}
Unpaired  == {OnboardingStatusBurnSDSuccess, OnboardingStatusBurnVehicleFailure}
Paired    == {OnboardingStatusMintSuccess, OnboardingStatusDisconnectFailure,
              OnboardingStatusBurnSDFailure}

StatusFits(row) ==
  /\ row.status \in Untokened \cup Unpaired \cup Paired \cup
                    {OnboardingStatusConnectFailure, OnboardingStatusMintFailure}
  /\ row.veh = 0 => row.sd = 0
  /\ row.status \in Untokened => row.veh = 0
  /\ row.status \in Unpaired => row.veh # 0 /\ row.sd = 0
  /\ row.status \in Paired => row.sd # 0
  /\ row.status = OnboardingStatusMintFailure => row.sd = 0
  /\ ~row.present => row.status = OnboardingStatusSubmitUnknown

\* Token ids begin at 1, only minted tokens are burned, and an SD lives no
\* longer than the vehicle it was minted for.
ChainFits ==
  /\ \A x \in vehicles : x.id # 0
  /\ \A x \in sds : x.id # 0
  /\ \A id \in burned.vehicles : id < seq.vehicle
  /\ \A id \in burned.sds : id < seq.sd
  /\ \A x \in sds : /\ [id |-> x.vehicle, vin |-> x.vin] \in vehicles
                    /\ LiveSD(x.id) => LiveVehicle(x.vehicle)

-----------------------------------------------------------------------------
(* Who has a VIN in hand.                                                  *)

InBatch(r, v) == \E i \in DOMAIN requests[r].batch : requests[r].batch[i] = v

\* A VIN has one request at most, once in it, and one pending job at most; and
\* both only between the queueing of the job and the upsert of the row.
OneAtATime ==
  /\ \A i, j \in Jobs :
       Pending(i) /\ Pending(j) /\ jobs[i].vin = jobs[j].vin => i = j
  /\ \A r, q \in Requests, v \in Vins : InBatch(r, v) /\ InBatch(q, v) => r = q
  /\ \A r \in Requests : \A i, k \in DOMAIN requests[r].batch :
       requests[r].batch[i] = requests[r].batch[k] => i = k
  /\ \A r \in Requests, j \in Jobs :
       Pending(j) /\ InBatch(r, jobs[j].vin) =>
         /\ jobs[j].at = "available" /\ requests[r].at = "upsert"
         /\ jobs[j].vin = Head(requests[r].batch) /\ jobs[j].kind = requests[r].kind

\* But for the enrollment columns, the copy of a handler is the row.
Alike(copy, row) ==
  /\ copy.present = row.present /\ copy.status = row.status
  /\ copy.veh = row.veh /\ copy.sd = row.sd
CopiesCurrent ==
  \A r \in Requests, v \in Vins : InBatch(r, v) => Alike(requests[r].rows[v], vins[v])

\* Whoever is in a burn holds the lock, alone.
BurnsLocked ==
  /\ \A j \in Jobs : InBurn(j) => locked[jobs[j].kind]
  /\ OneBurnAtATime

-----------------------------------------------------------------------------
(* Jobs.                                                                   *)

\* A queued job fits the row it will find.
Waiting(job) ==
  LET row == vins[job.vin]
  IN  /\ job.kind = "verify" => ~IsVerified(row.status)
      /\ job.kind = "disconnect" => job.op = row.sd /\ row.sd # 0
      /\ job.kind = "delete" => job.op = row.veh

VerifyPlaces  == {"insert", "decode", "decoding", "validate"}
OnboardPlaces == {"connect", "saveConnect", "wallet", "mint", "saveVehicle",
                  "saveSD", "finish"}

\* Where the chain has changed, or may have, and the row has yet to say so.
Behind == {"saveVehicle", "saveSD", "unlock", "saveBurn"}

\* What a worker's copy says, place by place, and what the row says of it.
VerifyFits(job) ==
  /\ job.kind = "verify" /\ job.record.veh = 0
  /\ job.at = "insert" <=> ~vins[job.vin].present

OnboardFits(job) ==
  /\ job.kind = "onboard"
  /\ job.at = "saveConnect" =>
       job.record.status \in {OnboardingStatusConnectFailure,
                              OnboardingStatusConnectSuccess}
  /\ job.at \in {"wallet", "mint"} => job.record.sd = 0
  /\ job.at \in {"saveVehicle", "saveSD"} =>
       /\ job.record.status \in {OnboardingStatusMintFailure,
                                 OnboardingStatusMintSuccess}
       /\ StatusFits(job.record)
  /\ job.at = "saveSD" => job.record.veh = vins[job.vin].veh
  /\ job.at = "finish" => job.record.sd # 0

DisconnectFits(job) ==
  /\ job.at = "saveDisconnect" =>
       job.record.status \in {OnboardingStatusDisconnectFailure,
                              OnboardingStatusDisconnectSuccess}
  /\ IF job.at \in Behind
       THEN /\ job.record.status \in {OnboardingStatusBurnSDFailure,
                                      OnboardingStatusBurnSDSuccess}
            /\ StatusFits(job.record)
            /\ job.record.veh = vins[job.vin].veh
       ELSE job.op = job.record.sd /\ job.record.sd # 0

DeleteFits(job) ==
  /\ job.at \in {"lock", "burn"} \cup Behind
  /\ job.record.sd = 0 /\ vins[job.vin].sd = 0
  /\ IF job.at \in Behind
       THEN /\ job.record.status \in {OnboardingStatusBurnVehicleFailure,
                                      OnboardingStatusBurnVehicleSuccess}
            /\ StatusFits(job.record)
       ELSE job.op = job.record.veh /\ job.record.veh # 0

Working(job) ==
  LET row == vins[job.vin]
      rec == job.record
  IN  /\ Names(job.vin, rec)
      /\ rec.present
      /\ rec.veh = 0 => rec.sd = 0
      /\ job.at \notin Behind => rec.veh = row.veh /\ rec.sd = row.sd
      /\ job.at # "insert" => row.present
      /\ job.at # "unlockTwice"
      /\ job.at \in VerifyPlaces => VerifyFits(job)
      /\ job.at \in OnboardPlaces => OnboardFits(job)
      /\ job.at \in BurnPlaces /\ job.kind = "disconnect" => DisconnectFits(job)
      /\ job.at \in BurnPlaces /\ job.kind = "delete" => DeleteFits(job)

JobFits(j) ==
  /\ jobs[j].at = "available" => Waiting(jobs[j])
  /\ Running(j) => Working(jobs[j])

\* A row that no worker has in hand.
RowFits(v) == Names(v, vins[v]) /\ StatusFits(vins[v])

\* The inductive invariant, together with IInv.
SInv ==
  /\ ChainFits /\ OneAtATime /\ CopiesCurrent /\ BurnsLocked
  /\ \A j \in Jobs : JobFits(j)
  /\ \A v \in Vins : (\A j \in Jobs : Running(j) => jobs[j].vin # v) => RowFits(v)

\* It holds as long as nothing has failed.
SerialInv == failures = 0 => SInv
=============================================================================
