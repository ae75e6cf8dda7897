------------------------------ MODULE SerialProofs ------------------------------
(***************************************************************************)
(* Proofs about Onboarding for clients that wait for their jobs, as long   *)
(* as nothing has failed: SInv of SerialInvariant is inductive together    *)
(* with IInv, the properties of OnboardingProperties about VINs at rest    *)
(* follow from it, and so does the refinement of VehicleLifecycle.         *)
(***************************************************************************)
EXTENDS SerialInvariant, OnboardingRefinement, OnboardingProofs

-----------------------------------------------------------------------------
(* Statuses.                                                               *)

LEMMA Codes ==
  /\ OnboardingStatusSubmitUnknown = 0
  /\ OnboardingStatusDecodingUnknown = 10
  /\ OnboardingStatusDecodingPending = 11
  /\ OnboardingStatusDecodingFailure = 12
  /\ OnboardingStatusDecodingSuccess = 13
  /\ OnboardingStatusVendorValidationFailure = 22
  /\ OnboardingStatusVendorValidationSuccess = 23
  /\ OnboardingStatusMintSubmitUnknown = 30
  /\ OnboardingStatusConnectFailure = 42
  /\ OnboardingStatusConnectSuccess = 43
  /\ OnboardingStatusMintFailure = 52
  /\ OnboardingStatusMintSuccess = 53
  /\ OnboardingStatusDisconnectSubmitUnknown = 60
  /\ OnboardingStatusDisconnectSubmitFailure = 62
  /\ OnboardingStatusDisconnectFailure = 72
  /\ OnboardingStatusDisconnectSuccess = 73
  /\ OnboardingStatusBurnSDFailure = 82
  /\ OnboardingStatusBurnSDSuccess = 83
  /\ OnboardingStatusDeleteSubmitUnknown = 90
  /\ OnboardingStatusBurnVehicleFailure = 102
  /\ OnboardingStatusBurnVehicleSuccess = 103
  BY DEF OnboardingStatusSubmitUnknown,
    OnboardingStatusDecodingUnknown, OnboardingStatusDecodingPending,
    OnboardingStatusDecodingFailure, OnboardingStatusDecodingSuccess,
    OnboardingStatusVendorValidationFailure,
    OnboardingStatusVendorValidationSuccess, OnboardingStatusMintSubmitUnknown,
    OnboardingStatusConnectFailure, OnboardingStatusConnectSuccess,
    OnboardingStatusMintFailure, OnboardingStatusMintSuccess,
    OnboardingStatusDisconnectSubmitUnknown, OnboardingStatusDisconnectSubmitFailure,
    OnboardingStatusDisconnectFailure,
    OnboardingStatusDisconnectSuccess, OnboardingStatusBurnSDFailure,
    OnboardingStatusBurnSDSuccess, OnboardingStatusDeleteSubmitUnknown,
    OnboardingStatusBurnVehicleFailure, OnboardingStatusBurnVehicleSuccess

\* The statuses that fit, by the tokens that come with them.
LEMMA FittingCodes ==
  /\ Untokened = {0, 12, 22, 23, 30, 60, 90, 103}
  /\ Unpaired = {83, 102} /\ Paired = {53, 72, 82}
  BY Codes DEF Untokened, Unpaired, Paired

LEMMA Fits ==
  ASSUME NEW row
  PROVE  StatusFits(row) <=>
           /\ row.status \in {0, 12, 22, 23, 30, 60, 90, 103, 83, 102, 53, 72, 82, 42, 52}
           /\ row.veh = 0 => row.sd = 0
           /\ row.status \in {0, 12, 22, 23, 30, 60, 90, 103} => row.veh = 0
           /\ row.status \in {83, 102} => row.veh # 0 /\ row.sd = 0
           /\ row.status \in {53, 72, 82} => row.sd # 0
           /\ row.status = 52 => row.sd = 0
           /\ ~row.present => row.status = 0
  BY Codes, FittingCodes DEF StatusFits

-----------------------------------------------------------------------------
(* What one worker does to the VIN it has in hand.                         *)

\* The rows and the tokens of other VINs are left alone.
Elsewhere(v) ==
  /\ \A w \in Vins \ {v} : vins'[w] = vins[w]
  /\ \A w \in Vins \ {v}, row \in Row : Names(w, row) => Names(w, row)'

LEMMA WorkKeepsSInv ==
  ASSUME TypeOK, SInv, NEW j \in Jobs, Pending(j), NEW v \in Vins, v = jobs[j].vin,
         \A r \in Requests : ~InBatch(r, v),
         \A i \in Jobs \ {j} : jobs'[i] = jobs[i],
         jobs'[j].at \notin {"none", "ended"} => jobs'[j].vin = v,
         requests' = requests, Elsewhere(v),
         ChainFits', BurnsLocked', JobFits(j)', ~Running(j)' => RowFits(v)'
  PROVE  SInv'
<1>1. \A i \in Jobs : Pending(i)' => Pending(i) /\ jobs'[i].vin = jobs[i].vin
  BY DEF Pending
<1>2. \A r \in Requests : \A w : InBatch(r, w)' <=> InBatch(r, w)
  BY DEF InBatch
<1>3. OneAtATime'
  <2>1. \A i, k \in Jobs :
          Pending(i)' /\ Pending(k)' /\ jobs'[i].vin = jobs'[k].vin => i = k
    BY <1>1 DEF SInv, OneAtATime
  <2>2. \A r, q \in Requests, w \in Vins : InBatch(r, w)' /\ InBatch(q, w)' => r = q
    BY <1>2 DEF SInv, OneAtATime
  <2>3. \A r \in Requests : \A i, k \in DOMAIN requests'[r].batch :
          requests'[r].batch[i] = requests'[r].batch[k] => i = k
    BY DEF SInv, OneAtATime
  <2>4. ASSUME NEW r \in Requests, NEW i \in Jobs, Pending(i)',
               InBatch(r, jobs'[i].vin)
        PROVE  /\ jobs'[i].at = "available" /\ requests'[r].at = "upsert"
               /\ jobs'[i].vin = Head(requests'[r].batch)
               /\ jobs'[i].kind = requests'[r].kind
    <3>1. i # j
      BY <1>1, <2>4
    <3> QED
      BY <1>1, <2>4, <3>1 DEF SInv, OneAtATime
  <2>5. \A r \in Requests, i \in Jobs : InBatch(r, jobs[i].vin)' => InBatch(r, jobs'[i].vin)
    BY DEF InBatch
  <2> QED
    BY <2>1, <2>2, <2>3, <2>4, <2>5 DEF OneAtATime
<1>4. CopiesCurrent'
  BY <1>2 DEF SInv, CopiesCurrent, Elsewhere
<1>5. ASSUME NEW i \in Jobs PROVE JobFits(i)'
  <2>1. CASE i = j
    BY <2>1
  <2>2. CASE i # j /\ ~Pending(i)
    BY <2>2 DEF JobFits, Running, Pending
  <2>3. CASE i # j /\ Pending(i)
    <3>1. jobs[i] \in Job /\ jobs'[i] = jobs[i]
      BY <2>3 DEF TypeOK
    <3>2. jobs[i].vin \in Vins \ {v} /\ jobs[i].record \in Row
      BY <2>3, <3>1 DEF SInv, OneAtATime, Job
    <3>3. /\ vins'[jobs[i].vin] = vins[jobs[i].vin]
          /\ Names(jobs[i].vin, jobs[i].record) => Names(jobs[i].vin, jobs[i].record)'
      BY <3>1, <3>2 DEF Elsewhere, Names
    <3>4. Waiting(jobs[i]) => Waiting(jobs[i])'
      BY <3>1, <3>3 DEF Waiting
    <3>5. Working(jobs[i]) => Working(jobs[i])'
      BY <3>1, <3>3 DEF Working, VerifyFits, OnboardFits, DisconnectFits, DeleteFits
    <3> QED
      BY <3>1, <3>4, <3>5 DEF SInv, JobFits, Running, Pending
  <2> QED
    BY <2>1, <2>2, <2>3
<1>6. ASSUME NEW w \in Vins, \A i \in Jobs : Running(i)' => jobs'[i].vin # w
      PROVE  RowFits(w)'
  <2>1. CASE w = v
    BY <1>6, <2>1 DEF Running, Pending
  <2>2. CASE w # v
    <3>1. \A i \in Jobs : Running(i) => jobs[i].vin # w
      BY <1>6, <2>2 DEF Running, Pending
    <3>2. RowFits(w) /\ vins[w] \in Row
      BY <3>1 DEF SInv, TypeOK
    <3>3. vins'[w] = vins[w] /\ (Names(w, vins[w]) => Names(w, vins[w])')
      BY <2>2, <3>2 DEF Elsewhere, Names
    <3> QED
      BY <3>2, <3>3 DEF RowFits
  <2> QED
    BY <2>1, <2>2
<1> QED
  BY <1>3, <1>4, <1>5, <1>6 DEF SInv

\* A step that takes nothing from the chain, adds nothing to it and takes no
\* lock.
LEMMA ChainStays ==
  ASSUME SInv, UNCHANGED chain,
         seq'.vehicle = seq.vehicle, seq'.sd = seq.sd
  PROVE  /\ ChainFits'
         /\ \A v, row : Names(v, row)' <=> Names(v, row)
<1>1. vehicles' = vehicles /\ sds' = sds /\ burned' = burned
  BY DEF chain
<1>2. ChainFits'
  BY <1>1 DEF SInv, ChainFits, LiveSD, LiveVehicle
<1>3. ASSUME NEW v, NEW row PROVE Names(v, row)' <=> Names(v, row)
  BY <1>1 DEF Names, LiveSD, LiveVehicle
<1> QED
  BY <1>2, <1>3

LEMMA TableWorkKeepsSInv ==
  ASSUME TypeOK, SInv, NEW j \in Jobs, Pending(j), NEW v \in Vins, v = jobs[j].vin,
         \A r \in Requests : ~InBatch(r, v),
         \A i \in Jobs \ {j} : jobs'[i] = jobs[i],
         jobs'[j].at \notin {"none", "ended"} => jobs'[j].vin = v,
         ~InBurn(j), ~InBurn(j)',
         \A w \in Vins \ {v} : vins'[w] = vins[w],
         UNCHANGED <<chain, requests, locked>>,
         seq'.vehicle = seq.vehicle, seq'.sd = seq.sd,
         JobFits(j)', ~Running(j)' => RowFits(v)'
  PROVE  SInv'
<1>1. ChainFits' /\ Elsewhere(v)
  BY ChainStays DEF Elsewhere
<1>2. \A i \in Jobs : /\ InBurn(i)' <=> InBurn(i)
                      /\ InBurn(i) => jobs'[i] = jobs[i]
  BY DEF InBurn
<1>3. BurnsLocked'
  BY <1>2 DEF SInv, BurnsLocked, OneBurnAtATime
<1> QED
  BY <1>1, <1>3, WorkKeepsSInv

\* While nothing is counted, nothing fails.
LEMMA FailsNot ==
  ASSUME TypeOK, failures' = 0
  PROVE  \A kind : ~Fail(kind)
  BY DEF TypeOK, Fail

\* While nothing fails, a save reaches the table.
LEMMA SaveSaves ==
  ASSUME TypeOK, failures' = 0, NEW j \in Jobs, NEW rec, NEW columns,
         Save(j, rec, columns)
  PROVE  /\ jobs[j].vin \in Vins
         /\ vins' = [vins EXCEPT ![jobs[j].vin] =
                       Update(vins[jobs[j].vin], rec, columns)]
         /\ vins'[jobs[j].vin] = Update(vins[jobs[j].vin], rec, columns)
         /\ \A w \in Vins \ {jobs[j].vin} : vins'[w] = vins[w]
         /\ failures' = failures
<1>1. vins \in [Vins -> Row] /\ jobs[j].vin \in Vins /\ failures \in Nat
  BY DEF TypeOK, Job
<1>2. ~Fail("lostWrite")
  BY <1>1 DEF Fail
<1> QED
  BY <1>1, <1>2 DEF Save

\* What the column lists save of a row that is there.
LEMMA Saved ==
  ASSUME NEW row, NEW rec, row.present
  PROVE  /\ \A columns : Update(row, rec, columns).present
         /\ LET new == Update(row, rec, AllColumns)
            IN  new.status = rec.status /\ new.veh = rec.veh /\ new.sd = rec.sd
         /\ LET new == Update(row, rec, StatusColumn)
            IN  new.status = rec.status /\ new.veh = row.veh /\ new.sd = row.sd
         /\ LET new == Update(row, rec, EnrollColumns)
            IN  new.status = row.status /\ new.veh = row.veh /\ new.sd = row.sd
         /\ LET new == Update(row, rec, SDColumns)
            IN  new.status = rec.status /\ new.veh = row.veh /\ new.sd = rec.sd
         /\ LET new == Update(row, rec, VehicleColumns)
            IN  new.status = rec.status /\ new.veh = rec.veh /\ new.sd = row.sd
         /\ LET new == Update(row, rec, VehicleSDColumns)
            IN  new.status = rec.status /\ new.veh = rec.veh /\ new.sd = rec.sd
<1>1. AllColumns = {"status", "veh", "sd", "wallet", "conn", "disc", "dd"}
  BY DEF AllColumns
<1>2. StatusColumn = {"status"} /\ EnrollColumns = {"conn", "disc"}
  BY DEF StatusColumn, EnrollColumns
<1>3. /\ SDColumns = {"status", "sd", "wallet"} /\ VehicleColumns = {"status", "veh"}
      /\ VehicleSDColumns = {"status", "veh", "sd", "wallet"}
  BY DEF SDColumns, VehicleColumns, VehicleSDColumns
<1> QED
  BY <1>1, <1>2, <1>3 DEF Update

\* What the two ways of replacing a job do.
LEMMA Puts ==
  ASSUME TypeOK, NEW j \in Jobs, NEW job, Put(j, job)
  PROVE  jobs'[j] = job /\ \A i \in Jobs \ {j} : jobs'[i] = jobs[i]
  BY DEF TypeOK, Put

LEMMA Moves ==
  ASSUME TypeOK, NEW j \in Jobs, NEW place, NEW rec, Move(j, place, rec)
  PROVE  /\ jobs'[j].at = place /\ jobs'[j].record = rec
         /\ jobs'[j].vin = jobs[j].vin /\ jobs'[j].kind = jobs[j].kind
         /\ jobs'[j].op = jobs[j].op
         /\ \A i \in Jobs \ {j} : jobs'[i] = jobs[i]
<1> DEFINE job == [jobs[j] EXCEPT !.at = place, !.record = rec]
<1>1. jobs[j] \in Job
  BY DEF TypeOK
<1>2. Put(j, job)
  BY DEF Move
<1>3. /\ job.at = place /\ job.record = rec /\ job.vin = jobs[j].vin
      /\ job.kind = jobs[j].kind /\ job.op = jobs[j].op
  BY <1>1 DEF Job
<1> QED
  BY <1>2, <1>3, Puts

\* A job that ends, or that River will run again.
LEMMA Leaves ==
  ASSUME TypeOK, NEW j \in Jobs
  PROVE  /\ Ended.at = "ended" /\ Completed = Ended
         /\ \/ Errored(jobs[j]) = Ended
            \/ /\ jobs[j].kind = "verify" /\ Errored(jobs[j]).kind = "verify"
               /\ Errored(jobs[j]).at = "available"
               /\ Errored(jobs[j]).vin = jobs[j].vin
<1>1. jobs[j] \in Job
  BY DEF TypeOK
<1> QED
  BY <1>1, IdleJobs DEF Completed, Errored, Available

\* A worker that has a VIN in hand has it alone.
LEMMA Alone ==
  ASSUME TypeOK, SInv, NEW j \in Jobs, Running(j)
  PROVE  /\ Pending(j) /\ jobs[j].vin \in Vins
         /\ \A r \in Requests : ~InBatch(r, jobs[j].vin)
         /\ Working(jobs[j])
  BY DEF TypeOK, Job, SInv, OneAtATime, JobFits, Running

-----------------------------------------------------------------------------
(* Work begins.                                                            *)

\* A job that may start has its VIN to itself.
LEMMA Starters ==
  ASSUME SerialClients, TypeOK, SInv, NEW j \in Jobs, jobs[j].at = "available", MayStart(j)
  PROVE  /\ Pending(j) /\ jobs[j].vin \in Vins
         /\ \A r \in Requests : ~InBatch(r, jobs[j].vin)
         /\ RowFits(jobs[j].vin) /\ Waiting(jobs[j])
<1>1. Pending(j) /\ jobs[j].vin \in Vins
  BY DEF TypeOK, Job, Pending
<1>2. \A r \in Requests : ~InBatch(r, jobs[j].vin)
  BY DEF SerialClients, MayStart, InBatch
<1>3. \A i \in Jobs : Running(i) => jobs[i].vin # jobs[j].vin
  BY <1>1 DEF SInv, OneAtATime, Running
<1> QED
  BY <1>1, <1>2, <1>3 DEF SInv, JobFits

\* A copy of the row fits the place that each kind of job starts from.
LEMMA StartedFits ==
  ASSUME TypeOK, NEW j \in Jobs, jobs[j].at = "available", NEW v \in Vins, v = jobs[j].vin,
         RowFits(v), Waiting(jobs[j]), vins[v].present, UNCHANGED <<vins, chain>>,
         NEW place, NEW kind, jobs[j].kind = kind, Runs(kind, vins[v]),
         <<kind, place>> \in {<<"verify", "decode">>, <<"onboard", "connect">>,
                              <<"disconnect", "disconnect">>, <<"delete", "lock">>},
         Put(j, Started(j, place, vins[v]))
  PROVE  jobs'[j].vin = v /\ jobs'[j].at = place /\ JobFits(j)'
<1> DEFINE row == vins[v]
<1>1. jobs[j] \in Job /\ jobs'[j] = Started(j, place, row)
  BY Puts DEF TypeOK
<1>2. /\ jobs'[j].at = place /\ jobs'[j].record = row /\ jobs'[j].vin = v
      /\ jobs'[j].kind = kind /\ jobs'[j].op = jobs[j].op
  BY <1>1 DEF Job, Started
<1>3. vins' = vins /\ vehicles' = vehicles /\ sds' = sds /\ burned' = burned
  BY DEF chain
<1>4. Names(v, row) /\ StatusFits(row)
  BY DEF RowFits
<1>5. (Names(jobs[j].vin, jobs[j].record))'
  BY <1>2, <1>3, <1>4 DEF Names, LiveVehicle, LiveSD
<1>6. row.veh = 0 => row.sd = 0
  BY <1>4, Fits
<1>7. place \in VerifyPlaces => VerifyFits(jobs[j])'
  <2> SUFFICES ASSUME place \in VerifyPlaces PROVE VerifyFits(jobs[j])'
    OBVIOUS
  <2>1. place = "decode" /\ kind = "verify"
    BY DEF VerifyPlaces
  <2>2. ~IsVerified(row.status)
    BY <2>1 DEF Waiting
  <2>3. row.veh = 0
    BY <1>4, <2>2, Fits, Codes DEF IsVerified
  <2> QED
    BY <1>2, <1>3, <2>1, <2>3 DEF VerifyFits
<1>8. place \in OnboardPlaces => OnboardFits(jobs[j])'
  BY <1>2 DEF OnboardFits, OnboardPlaces
<1>9. place \in BurnPlaces /\ kind = "disconnect" => DisconnectFits(jobs[j])'
  BY <1>2 DEF DisconnectFits, Waiting, Behind
<1>10. place \in BurnPlaces /\ kind = "delete" => DeleteFits(jobs[j])'
  BY <1>2, <1>3 DEF DeleteFits, Waiting, Runs, Behind
<1>11. Working(jobs[j])'
  BY <1>2, <1>3, <1>5, <1>6, <1>7, <1>8, <1>9, <1>10 DEF Working
<1> QED
  BY <1>2, <1>11 DEF JobFits

\* StartOrEnd, for the four kinds of job.
LEMMA StartOrEndKeepsSInv ==
  ASSUME SerialClients, TypeOK, SInv, NEW j \in Jobs, NEW v \in Vins, v = jobs[j].vin,
         NEW place, NEW kind, Runs(kind, vins[v]) => vins[v].present,
         <<kind, place>> \in {<<"verify", "decode">>, <<"onboard", "connect">>,
                              <<"disconnect", "disconnect">>, <<"delete", "lock">>},
         StartOrEnd(j, kind, place)
  PROVE  SInv'
<1>1. /\ jobs[j].at = "available" /\ jobs[j].kind = kind /\ MayStart(j)
      /\ UNCHANGED <<vins, requests, chain, seq, locked>>
      /\ \/ Runs(kind, vins[v]) /\ Put(j, Started(j, place, vins[v]))
         \/ Put(j, Completed)
  BY DEF StartOrEnd, Start
<1>2. /\ Pending(j) /\ v \in Vins /\ \A r \in Requests : ~InBatch(r, v)
      /\ RowFits(v) /\ Waiting(jobs[j])
  BY <1>1, Starters
<1>3. \A i \in Jobs \ {j} : jobs'[i] = jobs[i]
  BY <1>1, Puts
<1>4. \A w, row : Names(w, row)' <=> Names(w, row)
  BY <1>1, ChainStays
<1>5. \/ jobs'[j].vin = v /\ jobs'[j].at = place /\ JobFits(j)'
      \/ jobs'[j].at = "ended"
  <2>1. CASE Runs(kind, vins[v]) /\ Put(j, Started(j, place, vins[v]))
    BY <1>1, <1>2, <2>1, StartedFits
  <2>2. CASE Put(j, Completed)
    BY <2>2, Puts, Leaves
  <2> QED
    BY <1>1, <2>1, <2>2
<1>6. jobs'[j].at = "ended" => JobFits(j)' /\ ~Running(j)'
  BY DEF JobFits, Running, Pending
<1>7. jobs'[j].at = place => Running(j)' /\ ~InBurn(j)'
  BY DEF Running, Pending, InBurn
<1>8. ~InBurn(j) /\ (jobs'[j].at = "ended" => ~InBurn(j)')
  BY <1>1 DEF InBurn
<1>9. RowFits(v)'
  BY <1>1, <1>2, <1>4 DEF RowFits
<1> QED
  BY <1>1, <1>2, <1>3, <1>5, <1>6, <1>7, <1>8, <1>9, TableWorkKeepsSInv

-----------------------------------------------------------------------------
(* Verify worker.                                                          *)

\* What a worker that verifies has in its hands.
LEMMA Verifying ==
  ASSUME NEW job, Working(job), job.at \in VerifyPlaces
  PROVE  /\ Names(job.vin, job.record) /\ job.record.present
         /\ job.kind = "verify" /\ job.record.veh = 0 /\ job.record.sd = 0
         /\ job.at = "insert" <=> ~vins[job.vin].present
  BY DEF Working, VerifyFits

\* A save of a verify worker: it goes on, or ends with a status that fits.
LEMMA VerifySaves ==
  ASSUME TypeOK, SInv, failures' = 0, NEW j \in Jobs,
         jobs[j].at \in {"decode", "decoding", "validate"},
         NEW rec, rec.present, rec.veh = jobs[j].record.veh, rec.sd = jobs[j].record.sd,
         Save(j, rec, AllColumns), UNCHANGED <<requests, chain, seq, locked>>,
         \/ \E place \in {"decoding", "validate"} : Move(j, place, rec)
         \/ rec.status \in {12, 22} /\ Put(j, Errored(jobs[j]))
         \/ rec.status = 23 /\ Put(j, Completed)
  PROVE  SInv'
<1>1. PICK v \in Vins : v = jobs[j].vin
  BY DEF TypeOK, Job
<1>2. Running(j)
  BY DEF Running, Pending
<1>3. /\ Pending(j) /\ Working(jobs[j])
      /\ \A r \in Requests : ~InBatch(r, v)
  BY <1>1, <1>2, Alone
<1>4. /\ Names(v, jobs[j].record) /\ vins[v].present
      /\ jobs[j].kind = "verify" /\ rec.veh = 0 /\ rec.sd = 0
  BY <1>1, <1>3, Verifying DEF VerifyPlaces
<1>5. /\ vins'[v].present /\ vins'[v].status = rec.status
      /\ vins'[v].veh = 0 /\ vins'[v].sd = 0
      /\ \A w \in Vins \ {v} : vins'[w] = vins[w]
  BY <1>1, <1>4, SaveSaves, Saved
<1>6. ChainFits' /\ \A w, row : Names(w, row)' <=> Names(w, row)
  BY ChainStays
<1>7. Names(v, rec)' /\ (Names(v, vins[v]))'
  BY <1>4, <1>5, <1>6 DEF Names
<1>8. CASE \E place \in {"decoding", "validate"} : Move(j, place, rec)
  <2>1. PICK place \in {"decoding", "validate"} : Move(j, place, rec)
    BY <1>8
  <2>2. /\ jobs'[j].at = place /\ jobs'[j].record = rec /\ jobs'[j].vin = v
        /\ jobs'[j].kind = "verify" /\ \A i \in Jobs \ {j} : jobs'[i] = jobs[i]
    BY <1>1, <1>4, <2>1, Moves
  <2>3. VerifyFits(jobs[j])'
    BY <1>4, <1>5, <2>2 DEF VerifyFits
  <2>4. (Names(jobs[j].vin, jobs[j].record))'
    BY <1>7, <2>2 DEF Names
  <2>5. Working(jobs[j])'
    BY <1>4, <1>5, <2>2, <2>3, <2>4 DEF Working, VerifyPlaces, OnboardPlaces, BurnPlaces, Behind
  <2>6. JobFits(j)' /\ Running(j)' /\ ~InBurn(j) /\ ~InBurn(j)'
    BY <2>2, <2>5 DEF JobFits, Running, Pending, InBurn
  <2> QED
    BY <1>1, <1>3, <1>5, <2>2, <2>6, TableWorkKeepsSInv
<1>9. CASE \/ rec.status \in {12, 22} /\ Put(j, Errored(jobs[j]))
           \/ rec.status = 23 /\ Put(j, Completed)
  <2>1. /\ \/ jobs'[j].at = "ended"
           \/ /\ jobs'[j].kind = "verify" /\ jobs'[j].at = "available"
              /\ jobs'[j].vin = v /\ rec.status \in {12, 22}
        /\ \A i \in Jobs \ {j} : jobs'[i] = jobs[i]
    BY <1>1, <1>9, Puts, Leaves
  <2>2. StatusFits(vins'[v])
    BY <1>5, <1>9, Fits
  <2>3. RowFits(v)'
    BY <1>7, <2>2 DEF RowFits
  <2>4. rec.status \in {12, 22} => ~IsVerified(rec.status)
    BY Codes DEF IsVerified
  <2>5. jobs'[j].at = "available" => Waiting(jobs[j])'
    BY <1>5, <2>1, <2>4 DEF Waiting
  <2>6. JobFits(j)' /\ ~Running(j)' /\ ~InBurn(j) /\ ~InBurn(j)'
    BY <2>1, <2>5 DEF JobFits, Running, Pending, InBurn
  <2> QED
    BY <1>1, <1>3, <1>5, <2>1, <2>3, <2>6, TableWorkKeepsSInv
<1> QED
  BY <1>8, <1>9

\* The row is made, or read by a worker that found none.
LEMMA InsertKeepsSInv ==
  ASSUME SerialClients, TypeOK, SInv, failures' = 0, NEW j \in Jobs,
         StartVerify(j) \/ InsertVinRecord(j)
  PROVE  SInv'
<1>1. PICK v \in Vins : v = jobs[j].vin
  BY DEF TypeOK, Job
<1> DEFINE new == NewRow(OnboardingStatusDecodingUnknown)
<1>2. new.present /\ new.veh = 0 /\ new.sd = 0
  BY DEF NewRow
<1> HIDE DEF new
<1>3. CASE vins[v].present /\ StartOrEnd(j, "verify", "decode")
  BY <1>1, <1>3, StartOrEndKeepsSInv
<1>4. CASE ~vins[v].present /\ Start(j, "verify") /\ Put(j, Started(j, "insert", new))
  <2>1. /\ jobs[j].at = "available" /\ jobs[j].kind = "verify" /\ MayStart(j)
        /\ UNCHANGED <<vins, requests, chain, seq, locked>>
    BY <1>4 DEF Start
  <2>2. /\ Pending(j) /\ RowFits(v)
        /\ \A r \in Requests : ~InBatch(r, v)
    BY <1>1, <2>1, Starters
  <2>3. jobs[j] \in Job /\ jobs'[j] = Started(j, "insert", new)
        /\ \A i \in Jobs \ {j} : jobs'[i] = jobs[i]
    BY <1>4, Puts DEF TypeOK
  <2>4. /\ jobs'[j].at = "insert" /\ jobs'[j].record = new /\ jobs'[j].vin = v
        /\ jobs'[j].kind = "verify"
    BY <1>1, <2>1, <2>3 DEF Job, Started
  <2>5. vins[v].veh = 0 /\ vins[v].sd = 0 /\ Names(v, vins[v])
    <3>1. ~vins[v].present /\ StatusFits(vins[v]) /\ Names(v, vins[v])
      BY <1>4, <2>2 DEF RowFits
    <3> QED
      BY <3>1, Fits
  <2>6. \A w, row : Names(w, row)' <=> Names(w, row)
    BY <2>1, ChainStays
  <2>7. (Names(jobs[j].vin, jobs[j].record))'
    <3>1. Names(v, new)
      BY <1>2, <2>5 DEF Names
    <3>2. \A row : row = new => Names(v, row)'
      BY <2>6, <3>1
    <3> QED
      BY <2>4, <3>2 DEF Names
  <2>8. VerifyFits(jobs[j])'
    BY <1>2, <1>4, <2>1, <2>4 DEF VerifyFits
  <2>9. Working(jobs[j])'
    BY <1>2, <2>1, <2>4, <2>5, <2>7, <2>8
    DEF Working, VerifyPlaces, OnboardPlaces, BurnPlaces, Behind
  <2>10. JobFits(j)' /\ Running(j)' /\ ~InBurn(j) /\ ~InBurn(j)'
    BY <2>1, <2>4, <2>9 DEF JobFits, Running, Pending, InBurn
  <2> QED
    BY <1>1, <2>1, <2>2, <2>3, <2>4, <2>10, TableWorkKeepsSInv
<1>5. CASE InsertVinRecord(j)
  <2>1. jobs[j].at = "insert" /\ Running(j)
    BY <1>5 DEF InsertVinRecord, Running, Pending
  <2>2. /\ Pending(j) /\ Working(jobs[j])
        /\ \A r \in Requests : ~InBatch(r, v)
    BY <1>1, <2>1, Alone
  <2> DEFINE rec == jobs[j].record
  <2>3. PICK rec0 : rec0 = rec
    OBVIOUS
  <2>4. /\ Names(v, rec0) /\ ~vins[v].present /\ rec0.present
        /\ jobs[j].kind = "verify" /\ rec0.veh = 0 /\ rec0.sd = 0
    BY <1>1, <2>1, <2>2, <2>3, Verifying DEF VerifyPlaces
  <2>5. /\ vins' = [vins EXCEPT ![v] = Insert(vins[v], rec0)]
        /\ Move(j, "decode", rec0) /\ UNCHANGED <<requests, chain, seq, locked>>
    <3>1. ~Fail("lostWrite")
      BY FailsNot
    <3> QED
      BY <1>1, <1>5, <2>3, <2>4, <3>1 DEF InsertVinRecord
  <2>6. vins'[v] = rec0 /\ \A w \in Vins \ {v} : vins'[w] = vins[w]
    BY <2>4, <2>5 DEF Insert, TypeOK
  <2>7. /\ jobs'[j].at = "decode" /\ jobs'[j].record = rec0 /\ jobs'[j].vin = v
        /\ jobs'[j].kind = "verify" /\ \A i \in Jobs \ {j} : jobs'[i] = jobs[i]
    BY <1>1, <2>4, <2>5, Moves
  <2>8. Names(v, rec0)'
    BY <2>4, <2>5, ChainStays
  <2>9. (Names(jobs[j].vin, jobs[j].record))' /\ VerifyFits(jobs[j])'
    BY <2>4, <2>6, <2>7, <2>8 DEF Names, VerifyFits
  <2>10. Working(jobs[j])'
    BY <2>4, <2>6, <2>7, <2>9
    DEF Working, VerifyPlaces, OnboardPlaces, BurnPlaces, Behind
  <2>11. JobFits(j)' /\ Running(j)' /\ ~InBurn(j) /\ ~InBurn(j)'
    BY <2>1, <2>7, <2>10 DEF JobFits, Running, Pending, InBurn
  <2> QED
    BY <1>1, <2>2, <2>5, <2>6, <2>7, <2>11, TableWorkKeepsSInv
<1> QED
  BY <1>1, <1>3, <1>4, <1>5 DEF StartVerify, new

\* A worker's copy with another status says the same of the tokens.
LEMMA OtherStatus ==
  ASSUME TypeOK, NEW j \in Jobs, NEW status,
         NEW rec, rec = [jobs[j].record EXCEPT !.status = status]
  PROVE  /\ rec.status = status /\ rec.present = jobs[j].record.present
         /\ rec.veh = jobs[j].record.veh /\ rec.sd = jobs[j].record.sd
<1>1. jobs[j].record \in Row
  BY DEF TypeOK, Job
<1> QED
  BY <1>1 DEF Row

LEMMA VerifyKeepsSInv ==
  ASSUME SerialClients, TypeOK, SInv, failures' = 0, NEW j \in Jobs, VerifyStep(j)
  PROVE  SInv'
<1>1. CASE StartVerify(j) \/ InsertVinRecord(j)
  BY <1>1, InsertKeepsSInv
<1>2. jobs[j].at \in {"decode", "decoding", "validate"} => jobs[j].record.present
  BY Alone, Verifying DEF VerifyPlaces, Running, Pending
<1>3. CASE StartDecode(j)
  <2> DEFINE decoded == /\ jobs[j].record.status >= OnboardingStatusDecodingSuccess
                        /\ jobs[j].record.dd
             status  == IF decoded THEN OnboardingStatusDecodingSuccess
                                   ELSE OnboardingStatusDecodingPending
             place   == IF decoded THEN "validate" ELSE "decoding"
  <2>1. PICK rec : rec = [jobs[j].record EXCEPT !.status = status]
    OBVIOUS
  <2>2. /\ jobs[j].at = "decode" /\ Save(j, rec, AllColumns) /\ Move(j, place, rec)
        /\ UNCHANGED <<requests, chain, seq, locked>>
    BY <1>3, <2>1 DEF StartDecode
  <2>3. /\ rec.present = jobs[j].record.present
        /\ rec.veh = jobs[j].record.veh /\ rec.sd = jobs[j].record.sd
    BY <2>1, OtherStatus
  <2>4. place \in {"decoding", "validate"}
    OBVIOUS
  <2> HIDE DEF decoded, status, place
  <2> QED
    BY <1>2, <2>2, <2>3, <2>4, VerifySaves
<1>4. CASE DecodeVin(j)
  <2>1. PICK ok : ok = [jobs[j].record EXCEPT !.dd = TRUE,
                          !.status = OnboardingStatusDecodingSuccess]
    OBVIOUS
  <2>2. PICK bad : bad = [jobs[j].record EXCEPT !.status = OnboardingStatusDecodingFailure]
    OBVIOUS
  <2>3. /\ jobs[j].at = "decoding"
        /\ UNCHANGED <<requests, chain, seq, locked>>
        /\ \/ Save(j, ok, AllColumns) /\ Move(j, "validate", ok)
           \/ Save(j, bad, AllColumns) /\ Put(j, Errored(jobs[j]))
    BY <1>4, <2>1, <2>2 DEF DecodeVin
  <2>4. jobs[j].record \in Row
    BY DEF TypeOK, Job
  <2>5. /\ ok.present = jobs[j].record.present
        /\ ok.veh = jobs[j].record.veh /\ ok.sd = jobs[j].record.sd
    BY <2>1, <2>4 DEF Row
  <2>6. /\ bad.present = jobs[j].record.present /\ bad.status = 12
        /\ bad.veh = jobs[j].record.veh /\ bad.sd = jobs[j].record.sd
    BY <2>2, OtherStatus, Codes
  <2>7. CASE Save(j, ok, AllColumns) /\ Move(j, "validate", ok)
    BY <1>2, <2>3, <2>5, <2>7, VerifySaves
  <2>8. CASE Save(j, bad, AllColumns) /\ Put(j, Errored(jobs[j]))
    BY <1>2, <2>3, <2>6, <2>8, VerifySaves
  <2> QED
    BY <2>3, <2>7, <2>8
<1>5. CASE Validate(j)
  <2>1. PICK ok : ok = [jobs[j].record EXCEPT !.status =
                          OnboardingStatusVendorValidationSuccess]
    OBVIOUS
  <2>2. PICK bad : bad = [jobs[j].record EXCEPT !.status =
                            OnboardingStatusVendorValidationFailure]
    OBVIOUS
  <2>3. /\ jobs[j].at = "validate"
        /\ UNCHANGED <<requests, chain, seq, locked>>
        /\ \/ Save(j, ok, AllColumns) /\ Put(j, Completed)
           \/ Save(j, bad, AllColumns) /\ Put(j, Errored(jobs[j]))
    BY <1>5, <2>1, <2>2 DEF Validate
  <2>4. /\ ok.present = jobs[j].record.present /\ ok.status = 23
        /\ ok.veh = jobs[j].record.veh /\ ok.sd = jobs[j].record.sd
        /\ bad.present = jobs[j].record.present /\ bad.status = 22
        /\ bad.veh = jobs[j].record.veh /\ bad.sd = jobs[j].record.sd
    BY <2>1, <2>2, OtherStatus, Codes
  <2>5. CASE Save(j, ok, AllColumns) /\ Put(j, Completed)
    BY <1>2, <2>3, <2>4, <2>5, VerifySaves
  <2>6. CASE Save(j, bad, AllColumns) /\ Put(j, Errored(jobs[j]))
    BY <1>2, <2>3, <2>4, <2>6, VerifySaves
  <2> QED
    BY <2>3, <2>5, <2>6
<1> QED
  BY <1>1, <1>3, <1>4, <1>5 DEF VerifyStep

-----------------------------------------------------------------------------
(* Onboard worker.                                                         *)

LEMMA Onboarders ==
  ASSUME NEW job, Working(job), job.at \in OnboardPlaces
  PROVE  /\ Names(job.vin, job.record) /\ job.record.present
         /\ vins[job.vin].present /\ job.kind = "onboard" /\ OnboardFits(job)
         /\ job.record.veh = 0 => job.record.sd = 0
         /\ job.at \notin {"saveVehicle", "saveSD"} =>
              /\ job.record.veh = vins[job.vin].veh
              /\ job.record.sd = vins[job.vin].sd
  BY DEF Working, OnboardFits, OnboardPlaces, Behind

\* A step from one place of the onboard worker to another, off the chain.
LEMMA OnboardMoves ==
  ASSUME TypeOK, SInv, NEW j \in Jobs, jobs[j].at \in OnboardPlaces,
         NEW v \in Vins, v = jobs[j].vin,
         \A i \in Jobs \ {j} : jobs'[i] = jobs[i],
         jobs'[j].at \in OnboardPlaces, jobs'[j].vin = v,
         NEW rec, jobs'[j].record = rec, rec.present,
         rec.veh = jobs[j].record.veh, rec.sd = jobs[j].record.sd,
         \A w \in Vins \ {v} : vins'[w] = vins[w],
         vins'[v].present,
         jobs'[j].at \notin {"saveVehicle", "saveSD"} =>
           rec.veh = vins'[v].veh /\ rec.sd = vins'[v].sd,
         OnboardFits(jobs[j])',
         UNCHANGED <<chain, requests, locked>>,
         seq'.vehicle = seq.vehicle, seq'.sd = seq.sd
  PROVE  SInv'
<1>1. /\ Running(j) /\ ~InBurn(j)
      /\ Running(j)' /\ ~InBurn(j)'
  BY DEF Running, Pending, InBurn, OnboardPlaces
<1>2. /\ Pending(j) /\ Working(jobs[j])
      /\ \A r \in Requests : ~InBatch(r, v)
  BY <1>1, Alone
<1>3. /\ Names(v, jobs[j].record)
      /\ rec.veh = 0 => rec.sd = 0
  BY <1>2, Onboarders
<1>4. Names(v, rec)'
  <2>1. Names(v, jobs[j].record) => Names(v, rec)
    BY DEF Names
  <2> QED
    BY <1>3, <2>1, ChainStays
<1>5. (Names(jobs[j].vin, jobs[j].record))'
  BY <1>4 DEF Names
<1>6. Working(jobs[j])'
  BY <1>3, <1>5 DEF Working, VerifyPlaces, OnboardPlaces, BurnPlaces, Behind
<1>7. JobFits(j)'
  BY <1>6 DEF JobFits, OnboardPlaces
<1> QED
  BY <1>1, <1>2, <1>7, TableWorkKeepsSInv

\* A save with which a worker ends.
LEMMA WorkEnds ==
  ASSUME TypeOK, SInv, NEW j \in Jobs, Running(j), ~InBurn(j),
         NEW v \in Vins, v = jobs[j].vin,
         \A i \in Jobs \ {j} : jobs'[i] = jobs[i], jobs'[j].at = "ended",
         \A w \in Vins \ {v} : vins'[w] = vins[w],
         vins'[v].veh = jobs[j].record.veh, vins'[v].sd = jobs[j].record.sd,
         StatusFits(vins'[v]),
         UNCHANGED <<chain, requests, locked, seq>>
  PROVE  SInv'
<1>1. ~InBurn(j)' /\ ~Running(j)'
  BY DEF Running, Pending, InBurn
<1>2. /\ Pending(j) /\ Working(jobs[j])
      /\ \A r \in Requests : ~InBatch(r, v)
  BY Alone
<1>3. PICK row : row = vins'[v]
  OBVIOUS
<1>4. RowFits(v)'
  <2>1. Names(v, jobs[j].record)
    BY <1>2 DEF Working
  <2>2. Names(v, row)
    BY <1>3, <2>1 DEF Names
  <2>3. Names(v, row)'
    BY <2>2, ChainStays
  <2>4. (Names(v, vins[v]))'
    BY <1>3, <2>3 DEF Names
  <2> QED
    BY <2>4 DEF RowFits
<1>5. JobFits(j)'
  BY <1>1 DEF JobFits
<1> QED
  BY <1>1, <1>2, <1>4, <1>5, TableWorkKeepsSInv

LEMMA ConnectKeepsSInv ==
  ASSUME TypeOK, SInv, failures' = 0, NEW j \in Jobs, ConnectToVendor(j)
  PROVE  SInv'
<1>1. PICK v \in Vins : v = jobs[j].vin
  BY DEF TypeOK, Job
<1>2. PICK rec : rec = Connected(jobs[j].record)
  OBVIOUS
<1>3. PICK failed : failed = [jobs[j].record EXCEPT !.status = OnboardingStatusConnectFailure]
  OBVIOUS
<1>4. PICK done : done = [rec EXCEPT !.status = OnboardingStatusConnectSuccess]
  OBVIOUS
<1>5. ~Fail("lostWrite")
  BY DEF Fail, TypeOK
<1>6. /\ jobs[j].at = "connect" /\ UNCHANGED <<requests, chain, seq, locked>>
      /\ \/ Move(j, "saveConnect", failed) /\ UNCHANGED vins
         \/ Save(j, rec, EnrollColumns) /\ Move(j, "saveConnect", done)
  BY <1>2, <1>3, <1>4, <1>5 DEF ConnectToVendor
<1>7. Running(j) /\ jobs[j].at \in OnboardPlaces
  BY <1>6 DEF Running, Pending, OnboardPlaces
<1>8. /\ jobs[j].record.present /\ vins[v].present /\ jobs[j].kind = "onboard"
      /\ jobs[j].record.veh = vins[v].veh /\ jobs[j].record.sd = vins[v].sd
  BY <1>1, <1>6, <1>7, Alone, Onboarders
<1>9. jobs[j].record \in Row
  BY DEF TypeOK, Job
<1>10. /\ failed.present /\ failed.status = OnboardingStatusConnectFailure
       /\ failed.veh = jobs[j].record.veh /\ failed.sd = jobs[j].record.sd
  BY <1>3, <1>8, OtherStatus
<1>11. /\ done.present /\ done.status = OnboardingStatusConnectSuccess
       /\ done.veh = jobs[j].record.veh /\ done.sd = jobs[j].record.sd
  BY <1>2, <1>4, <1>8, <1>9 DEF Connected, Row
<1>12. PICK copy : copy \in {failed, done} /\ Move(j, "saveConnect", copy)
  BY <1>6
<1>13. /\ vins'[v].present /\ vins'[v].veh = vins[v].veh /\ vins'[v].sd = vins[v].sd
       /\ \A w \in Vins \ {v} : vins'[w] = vins[w]
  <2>1. CASE Save(j, rec, EnrollColumns)
    BY <1>1, <1>8, <2>1, SaveSaves, Saved
  <2> QED
    BY <1>6, <1>8, <2>1
<1>14. /\ jobs'[j].at = "saveConnect" /\ jobs'[j].record = copy /\ jobs'[j].vin = v
       /\ jobs'[j].kind = "onboard" /\ \A i \in Jobs \ {j} : jobs'[i] = jobs[i]
  BY <1>1, <1>8, <1>12, Moves
<1>15. OnboardFits(jobs[j])'
  BY <1>10, <1>11, <1>12, <1>14 DEF OnboardFits
<1>16. /\ copy.present /\ copy.veh = jobs[j].record.veh
       /\ copy.sd = jobs[j].record.sd
  BY <1>10, <1>11, <1>12
<1>17. jobs'[j].at \in OnboardPlaces
  BY <1>14 DEF OnboardPlaces
<1>18. copy.veh = vins'[v].veh /\ copy.sd = vins'[v].sd
  BY <1>8, <1>13, <1>16
<1> QED
  BY <1>1, <1>6, <1>7, <1>13, <1>14, <1>15, <1>16, <1>17, <1>18, OnboardMoves

LEMMA SaveConnectKeepsSInv ==
  ASSUME TypeOK, SInv, failures' = 0, NEW j \in Jobs, SaveConnect(j)
  PROVE  SInv'
<1>1. PICK v \in Vins : v = jobs[j].vin
  BY DEF TypeOK, Job
<1>2. PICK rec : rec = jobs[j].record
  OBVIOUS
<1>3. /\ jobs[j].at = "saveConnect" /\ Save(j, rec, StatusColumn)
      /\ UNCHANGED <<requests, chain, seq, locked>>
      /\ \/ rec.status = 42 /\ Put(j, Errored(jobs[j]))
         \/ (rec.veh = 0 \/ rec.sd = 0) /\ Move(j, "wallet", rec)
         \/ (rec.veh # 0 /\ rec.sd # 0) /\ Move(j, "finish", rec)
  BY <1>2, Codes DEF SaveConnect
<1>4. Running(j) /\ ~InBurn(j) /\ jobs[j].at \in OnboardPlaces
  BY <1>3 DEF Running, Pending, InBurn, OnboardPlaces
<1>5. /\ rec.present /\ vins[v].present /\ jobs[j].kind = "onboard"
      /\ rec.veh = vins[v].veh /\ rec.sd = vins[v].sd
      /\ rec.veh = 0 => rec.sd = 0
  BY <1>1, <1>2, <1>3, <1>4, Alone, Onboarders
<1>6. /\ vins'[v].present /\ vins'[v].status = rec.status
      /\ vins'[v].veh = rec.veh /\ vins'[v].sd = rec.sd
      /\ \A w \in Vins \ {v} : vins'[w] = vins[w]
  BY <1>1, <1>3, <1>5, SaveSaves, Saved
<1>7. CASE rec.status = 42 /\ Put(j, Errored(jobs[j]))
  <2>1. jobs'[j].at = "ended" /\ \A i \in Jobs \ {j} : jobs'[i] = jobs[i]
    BY <1>5, <1>7, Puts, Leaves
  <2>2. StatusFits(vins'[v])
    BY <1>5, <1>6, <1>7, Fits
  <2> QED
    BY <1>1, <1>2, <1>3, <1>4, <1>6, <2>1, <2>2, WorkEnds
<1>8. CASE (rec.veh = 0 \/ rec.sd = 0) /\ Move(j, "wallet", rec)
  <2>1. /\ jobs'[j].at = "wallet" /\ jobs'[j].record = rec /\ jobs'[j].vin = v
        /\ jobs'[j].kind = "onboard" /\ \A i \in Jobs \ {j} : jobs'[i] = jobs[i]
    BY <1>1, <1>5, <1>8, Moves
  <2>2. OnboardFits(jobs[j])' /\ jobs'[j].at \in OnboardPlaces
    BY <1>5, <1>8, <2>1 DEF OnboardFits, OnboardPlaces
  <2> QED
    BY <1>1, <1>2, <1>3, <1>4, <1>5, <1>6, <2>1, <2>2, OnboardMoves
<1>9. CASE (rec.veh # 0 /\ rec.sd # 0) /\ Move(j, "finish", rec)
  <2>1. /\ jobs'[j].at = "finish" /\ jobs'[j].record = rec /\ jobs'[j].vin = v
        /\ jobs'[j].kind = "onboard" /\ \A i \in Jobs \ {j} : jobs'[i] = jobs[i]
    BY <1>1, <1>5, <1>9, Moves
  <2>2. OnboardFits(jobs[j])' /\ jobs'[j].at \in OnboardPlaces
    BY <1>9, <2>1 DEF OnboardFits, OnboardPlaces
  <2> QED
    BY <1>1, <1>2, <1>3, <1>4, <1>5, <1>6, <2>1, <2>2, OnboardMoves
<1> QED
  BY <1>3, <1>7, <1>8, <1>9

\* A mint that is refused, or that is not even asked for.
LEMMA MintFailedKeepsSInv ==
  ASSUME TypeOK, SInv, NEW j \in Jobs, jobs[j].at \in {"wallet", "mint"}, MintFailed(j),
         UNCHANGED <<vins, requests, chain, seq, locked>>
  PROVE  SInv'
<1>1. PICK v \in Vins : v = jobs[j].vin
  BY DEF TypeOK, Job
<1>2. PICK rec : rec = [jobs[j].record EXCEPT !.status = OnboardingStatusMintFailure]
  OBVIOUS
<1>3. Running(j) /\ jobs[j].at \in OnboardPlaces
  BY DEF Running, Pending, OnboardPlaces
<1>4. /\ jobs[j].record.present /\ vins[v].present /\ jobs[j].kind = "onboard"
      /\ jobs[j].record.veh = vins[v].veh /\ jobs[j].record.sd = 0
  BY <1>1, <1>3, Alone, Onboarders DEF OnboardFits
<1>5. /\ rec.present /\ rec.status = 52
      /\ rec.veh = vins[v].veh /\ rec.veh = jobs[j].record.veh
      /\ rec.sd = jobs[j].record.sd /\ rec.sd = 0
  BY <1>2, <1>4, OtherStatus, Codes
<1>6. PICK place \in {"saveVehicle", "saveSD"} : Move(j, place, rec)
  BY <1>2 DEF MintFailed, SavePlace
<1>7. /\ jobs'[j].at = place /\ jobs'[j].record = rec /\ jobs'[j].vin = v
      /\ jobs'[j].kind = "onboard" /\ \A i \in Jobs \ {j} : jobs'[i] = jobs[i]
  BY <1>1, <1>4, <1>6, Moves
<1>8. StatusFits(rec)
  BY <1>5, Fits
<1>9. (StatusFits(jobs[j].record))'
  BY <1>7, <1>8 DEF StatusFits
<1>10. OnboardFits(jobs[j])' /\ jobs'[j].at \in OnboardPlaces
  BY <1>1, <1>5, <1>7, <1>9, Codes DEF OnboardFits, OnboardPlaces
<1> QED
  BY <1>1, <1>3, <1>4, <1>5, <1>7, <1>10, OnboardMoves

LEMMA TakeIndexKeepsSInv ==
  ASSUME TypeOK, SInv, NEW j \in Jobs, TakeWalletIndex(j)
  PROVE  SInv'
<1>1. PICK v \in Vins : v = jobs[j].vin
  BY DEF TypeOK, Job
<1>2. CASE MintFailed(j) /\ UNCHANGED seq
  BY <1>2, MintFailedKeepsSInv DEF TakeWalletIndex
<1>3. CASE Put(j, [jobs[j] EXCEPT !.at = "mint", !.index = NextWalletIndex])
           /\ seq' = [seq EXCEPT !.wallet = @ + 1]
  <2>1. jobs[j].at = "wallet" /\ UNCHANGED <<vins, requests, chain, locked>>
    BY DEF TakeWalletIndex
  <2>2. Running(j) /\ jobs[j].at \in OnboardPlaces
    BY <2>1 DEF Running, Pending, OnboardPlaces
  <2>3. PICK rec : rec = jobs[j].record
    OBVIOUS
  <2>4. /\ rec.present /\ vins[v].present /\ jobs[j].kind = "onboard"
        /\ rec.veh = vins[v].veh /\ rec.sd = vins[v].sd /\ rec.sd = 0
    BY <1>1, <2>1, <2>2, <2>3, Alone, Onboarders DEF OnboardFits
  <2>5. /\ jobs[j] \in Job /\ \A i \in Jobs \ {j} : jobs'[i] = jobs[i]
        /\ jobs'[j] = [jobs[j] EXCEPT !.at = "mint", !.index = NextWalletIndex]
    BY <1>3, Puts DEF TypeOK
  <2>6. /\ jobs'[j].at = "mint" /\ jobs'[j].record = rec /\ jobs'[j].vin = v
        /\ jobs'[j].kind = "onboard"
    BY <1>1, <2>3, <2>4, <2>5 DEF Job
  <2>7. OnboardFits(jobs[j])' /\ jobs'[j].at \in OnboardPlaces
    BY <2>4, <2>6 DEF OnboardFits, OnboardPlaces
  <2>8. seq'.vehicle = seq.vehicle /\ seq'.sd = seq.sd
    BY <1>3 DEF TypeOK
  <2> QED
    BY <1>1, <2>1, <2>2, <2>3, <2>4, <2>5, <2>6, <2>7, <2>8, OnboardMoves
<1> QED
  BY <1>2, <1>3 DEF TakeWalletIndex

\* The chain mints a vehicle with an SD, or an SD, for a VIN that has none.
LEMMA MintsVehicle ==
  ASSUME TypeOK, SInv, TokensFresh, NEW v \in Vins, NEW copy, Names(v, copy),
         copy.veh = 0, copy.sd = 0, NEW wallet,
         vehicles' = vehicles \cup {[id |-> seq.vehicle, vin |-> v]},
         sds' = sds \cup {[id |-> seq.sd, vehicle |-> seq.vehicle,
                           wallet |-> wallet, vin |-> v]},
         seq' = [seq EXCEPT !.vehicle = @ + 1, !.sd = @ + 1], burned' = burned
  PROVE  /\ ChainFits'
         /\ \A w \in Vins \ {v} : \A row : Names(w, row) => Names(w, row)'
         /\ \A row : row.veh = seq.vehicle /\ row.sd = seq.sd => Names(v, row)'
<1>1. PICK V : V = seq.vehicle
  OBVIOUS
<1>2. PICK S : S = seq.sd
  OBVIOUS
<1>3. V \in Nat \ {0} /\ S \in Nat \ {0} /\ seq'.vehicle = V + 1 /\ seq'.sd = S + 1
  BY <1>1, <1>2 DEF TypeOK
<1>4. PICK newV : newV = [id |-> V, vin |-> v]
  OBVIOUS
<1>5. PICK newS : newS = [id |-> S, vehicle |-> V, wallet |-> wallet, vin |-> v]
  OBVIOUS
<1>6. /\ vehicles' = vehicles \cup {newV} /\ newV.id = V /\ newV.vin = v
      /\ sds' = sds \cup {newS} /\ newS.id = S /\ newS.vin = v /\ newS.vehicle = V
  BY <1>1, <1>2, <1>4, <1>5
<1>7. /\ \A x \in vehicles : x.id < V /\ x.id \in Nat /\ x.id # 0
      /\ \A x \in sds : x.id < S /\ x.id \in Nat /\ x.id # 0 /\ x.vehicle \in Nat
      /\ \A id \in burned.vehicles : id < V /\ id \in Nat
      /\ \A id \in burned.sds : id < S /\ id \in Nat
  BY <1>1, <1>2 DEF TypeOK, TokensFresh, Vehicle, SD, SInv, ChainFits
<1>8. V \notin burned.vehicles /\ S \notin burned.sds
  BY <1>3, <1>7
<1>9. \A id : LiveVehicle(id)' <=> LiveVehicle(id) \/ id = V
  BY <1>6, <1>8 DEF LiveVehicle
<1>10. \A id : LiveSD(id)' <=> LiveSD(id) \/ id = S
  BY <1>6, <1>8 DEF LiveSD
<1>11. ~LiveVehicle(V) /\ ~LiveSD(S)
  BY <1>3, <1>7 DEF LiveVehicle, LiveSD
<1>12. ChainFits'
  <2>1. \A x \in vehicles' : x.id # 0
    BY <1>3, <1>6, <1>7
  <2>2. \A x \in sds' : x.id # 0
    BY <1>3, <1>6, <1>7
  <2>3. /\ \A id \in burned'.vehicles : id < seq'.vehicle
        /\ \A id \in burned'.sds : id < seq'.sd
    BY <1>3, <1>7
  <2>4. ASSUME NEW x \in sds'
        PROVE  /\ [id |-> x.vehicle, vin |-> x.vin] \in vehicles'
               /\ LiveSD(x.id)' => LiveVehicle(x.vehicle)'
    <3>1. CASE x \in sds
      <4>1. /\ [id |-> x.vehicle, vin |-> x.vin] \in vehicles
            /\ LiveSD(x.id) => LiveVehicle(x.vehicle)
        BY <3>1 DEF SInv, ChainFits
      <4>2. x.id # S
        BY <1>3, <1>7, <3>1
      <4> QED
        BY <1>6, <1>9, <1>10, <4>1, <4>2
    <3>2. CASE x = newS
      BY <1>4, <1>6, <1>9, <3>2
    <3> QED
      BY <1>6, <3>1, <3>2
  <2> QED
    BY <2>1, <2>2, <2>3, <2>4 DEF ChainFits, LiveSD, LiveVehicle
<1>13. ASSUME NEW w \in Vins \ {v}, NEW row, Names(w, row) PROVE Names(w, row)'
  <2>1. \A x \in vehicles' : x.vin = w => x \in vehicles /\ x.id # V
    BY <1>3, <1>6, <1>7
  <2>2. \A x \in sds' : x.vin = w => x \in sds /\ x.id # S
    BY <1>3, <1>6, <1>7
  <2>3. \A x \in vehicles' : x.vin = w => (LiveVehicle(x.id)' <=> row.veh = x.id)
    BY <1>9, <1>13, <2>1 DEF Names
  <2>4. \A x \in sds' : x.vin = w => (LiveSD(x.id)' <=> row.sd = x.id)
    BY <1>10, <1>13, <2>2 DEF Names
  <2> QED
    BY <2>3, <2>4 DEF Names, LiveSD, LiveVehicle
<1>14. ASSUME NEW row, row.veh = seq.vehicle, row.sd = seq.sd PROVE Names(v, row)'
  <2>1. \A x \in vehicles' : x.vin = v => (LiveVehicle(x.id)' <=> row.veh = x.id)
    <3>1. \A x \in vehicles : x.vin = v => ~LiveVehicle(x.id) /\ x.id # V
      BY <1>3, <1>7 DEF Names
    <3> QED
      BY <1>1, <1>6, <1>9, <1>14, <3>1
  <2>2. \A x \in sds' : x.vin = v => (LiveSD(x.id)' <=> row.sd = x.id)
    <3>1. \A x \in sds : x.vin = v => ~LiveSD(x.id) /\ x.id # S
      BY <1>3, <1>7 DEF Names
    <3> QED
      BY <1>2, <1>6, <1>10, <1>14, <3>1
  <2> QED
    BY <2>1, <2>2 DEF Names, LiveSD, LiveVehicle
<1> QED
  BY <1>12, <1>13, <1>14

LEMMA MintsSD ==
  ASSUME TypeOK, SInv, TokensFresh, NEW v \in Vins, NEW copy, Names(v, copy),
         copy.sd = 0, NEW wallet, LiveVehicle(copy.veh),
         [id |-> copy.veh, vin |-> v] \in vehicles, vehicles' = vehicles,
         sds' = sds \cup {[id |-> seq.sd, vehicle |-> copy.veh,
                           wallet |-> wallet, vin |-> v]},
         seq' = [seq EXCEPT !.sd = @ + 1], burned' = burned
  PROVE  /\ ChainFits'
         /\ \A w \in Vins \ {v} : \A row : Names(w, row) => Names(w, row)'
         /\ \A row : row.veh = copy.veh /\ row.sd = seq.sd => Names(v, row)'
<1>1. PICK S : S = seq.sd
  OBVIOUS
<1>2. S \in Nat \ {0} /\ seq'.vehicle = seq.vehicle /\ seq'.sd = S + 1
  BY <1>1 DEF TypeOK
<1>3. PICK newS : newS = [id |-> S, vehicle |-> copy.veh, wallet |-> wallet, vin |-> v]
  OBVIOUS
<1>4. /\ sds' = sds \cup {newS} /\ newS.id = S /\ newS.vin = v
      /\ newS.vehicle = copy.veh
  BY <1>1, <1>3
<1>5. /\ \A x \in sds : x.id < S /\ x.id \in Nat /\ x.id # 0
      /\ \A id \in burned.sds : id < S /\ id \in Nat
  BY <1>1 DEF TypeOK, TokensFresh, SD, SInv, ChainFits
<1>6. S \notin burned.sds
  BY <1>2, <1>5
<1>7. \A id : LiveVehicle(id)' <=> LiveVehicle(id)
  BY DEF LiveVehicle
<1>8. \A id : LiveSD(id)' <=> LiveSD(id) \/ id = S
  BY <1>4, <1>6 DEF LiveSD
<1>9. ChainFits'
  <2>1. /\ \A x \in vehicles' : x.id # 0
        /\ \A id \in burned'.vehicles : id < seq'.vehicle
    BY <1>2 DEF SInv, ChainFits
  <2>2. /\ \A x \in sds' : x.id # 0
        /\ \A id \in burned'.sds : id < seq'.sd
    BY <1>2, <1>4, <1>5
  <2>3. ASSUME NEW x \in sds'
        PROVE  /\ [id |-> x.vehicle, vin |-> x.vin] \in vehicles'
               /\ LiveSD(x.id)' => LiveVehicle(x.vehicle)'
    <3>1. CASE x \in sds
      <4>1. /\ [id |-> x.vehicle, vin |-> x.vin] \in vehicles
            /\ LiveSD(x.id) => LiveVehicle(x.vehicle)
        BY <3>1 DEF SInv, ChainFits
      <4>2. x.id # S
        BY <1>2, <1>5, <3>1
      <4> QED
        BY <1>7, <1>8, <4>1, <4>2
    <3>2. CASE x = newS
      BY <1>4, <1>7, <3>2
    <3> QED
      BY <1>4, <3>1, <3>2
  <2> QED
    BY <2>1, <2>2, <2>3 DEF ChainFits, LiveSD, LiveVehicle
<1>10. ASSUME NEW w \in Vins \ {v}, NEW row, Names(w, row) PROVE Names(w, row)'
  <2>1. \A x \in sds' : x.vin = w => x \in sds /\ x.id # S
    BY <1>2, <1>4, <1>5
  <2>2. \A x \in vehicles' : x.vin = w => (LiveVehicle(x.id)' <=> row.veh = x.id)
    BY <1>7, <1>10 DEF Names
  <2>3. \A x \in sds' : x.vin = w => (LiveSD(x.id)' <=> row.sd = x.id)
    BY <1>8, <1>10, <2>1 DEF Names
  <2> QED
    BY <2>2, <2>3 DEF Names, LiveSD, LiveVehicle
<1>11. ASSUME NEW row, row.veh = copy.veh, row.sd = seq.sd PROVE Names(v, row)'
  <2>1. \A x \in vehicles' : x.vin = v => (LiveVehicle(x.id)' <=> row.veh = x.id)
    BY <1>7, <1>11 DEF Names
  <2>2. \A x \in sds' : x.vin = v => (LiveSD(x.id)' <=> row.sd = x.id)
    <3>1. \A x \in sds : x.vin = v => ~LiveSD(x.id) /\ x.id # S
      BY <1>2, <1>5 DEF Names
    <3> QED
      BY <1>1, <1>4, <1>8, <1>11, <3>1
  <2> QED
    BY <2>1, <2>2 DEF Names, LiveSD, LiveVehicle
<1> QED
  BY <1>9, <1>10, <1>11

\* The worker whose mint is answered: its copy is ahead of the row.
LEMMA MintedKeepsSInv ==
  ASSUME TypeOK, SInv, NEW j \in Jobs, NEW v \in Vins, v = jobs[j].vin,
         jobs[j].at = "mint", NEW place \in {"saveVehicle", "saveSD"}, NEW rec,
         Move(j, place, rec), rec.present, rec.status = 53, rec.veh # 0, rec.sd # 0,
         place = "saveSD" => rec.veh = vins[v].veh,
         Names(v, rec)', ChainFits', UNCHANGED <<vins, requests, locked>>,
         \A w \in Vins \ {v} : \A row : Names(w, row) => Names(w, row)'
  PROVE  SInv'
<1>1. Running(j) /\ jobs[j].at \in OnboardPlaces
  BY DEF Running, Pending, OnboardPlaces
<1>2. /\ Pending(j) /\ vins[v].present /\ jobs[j].kind = "onboard"
      /\ \A r \in Requests : ~InBatch(r, v)
  BY <1>1, Alone, Onboarders
<1>3. /\ jobs'[j].at = place /\ jobs'[j].record = rec /\ jobs'[j].vin = v
      /\ jobs'[j].kind = "onboard" /\ \A i \in Jobs \ {j} : jobs'[i] = jobs[i]
  BY <1>2, Moves
<1>4. Elsewhere(v)
  BY DEF Elsewhere
<1>5. StatusFits(rec)
  BY Fits
<1>6. (StatusFits(jobs[j].record))' /\ (Names(jobs[j].vin, jobs[j].record))'
  BY <1>3, <1>5 DEF StatusFits, Names
<1>7. OnboardFits(jobs[j])'
  BY <1>3, <1>6, Codes DEF OnboardFits
<1>8. Working(jobs[j])'
  BY <1>2, <1>3, <1>6, <1>7 DEF Working, VerifyPlaces, BurnPlaces, Behind
<1>9. JobFits(j)' /\ Running(j)'
  BY <1>3, <1>8 DEF JobFits, Running, Pending
<1>10. BurnsLocked'
  <2>1. \A i \in Jobs : InBurn(i)' <=> InBurn(i) /\ i # j
    BY <1>3 DEF InBurn
  <2>2. \A i \in Jobs : i # j => jobs'[i].kind = jobs[i].kind
    BY <1>3
  <2> QED
    BY <2>1, <2>2 DEF SInv, BurnsLocked, OneBurnAtATime
<1> QED
  BY <1>2, <1>3, <1>4, <1>9, <1>10, WorkKeepsSInv

LEMMA MintKeepsSInv ==
  ASSUME TypeOK, SInv, TokensFresh, JobsSound, failures' = 0, NEW j \in Jobs,
         MintVehicleWithSD(j) \/ MintSD(j)
  PROVE  SInv'
<1>1. PICK v \in Vins : v = jobs[j].vin
  BY DEF TypeOK, Job
<1>2. PICK copy : copy = jobs[j].record
  OBVIOUS
<1>3. jobs[j].at = "mint" /\ ~Fail("lostAnswer")
  BY DEF MintVehicleWithSD, MintSD, Fail, TypeOK
<1>4. Running(j) /\ jobs[j].at \in OnboardPlaces
  BY <1>3 DEF Running, Pending, OnboardPlaces
<1>5. /\ copy.present /\ copy.sd = 0 /\ Names(v, copy) /\ copy.veh = vins[v].veh
      /\ copy \in Row
  BY <1>1, <1>2, <1>3, <1>4, Alone, Onboarders DEF OnboardFits, TypeOK, Job
<1>6. CASE MintVehicleWithSD(j)
  <2>1. CASE MintFailed(j) /\ UNCHANGED <<vehicles, sds, seq>>
    <3>1. UNCHANGED <<vins, requests, chain, seq, locked>>
      BY <1>6, <2>1 DEF MintVehicleWithSD, chain
    <3> QED
      BY <1>3, <2>1, <3>1, MintFailedKeepsSInv
  <2>2. CASE /\ vehicles' = vehicles \cup {[id |-> seq.vehicle, vin |-> v]}
             /\ sds' = sds \cup {[id |-> seq.sd, vehicle |-> seq.vehicle,
                                  wallet |-> jobs[j].index, vin |-> v]}
             /\ seq' = [seq EXCEPT !.vehicle = @ + 1, !.sd = @ + 1]
             /\ Move(j, "saveVehicle",
                     [copy EXCEPT !.status = OnboardingStatusMintSuccess,
                                  !.veh = seq.vehicle, !.sd = seq.sd,
                                  !.wallet = jobs[j].index])
    <3>1. PICK rec : rec = [copy EXCEPT !.status = OnboardingStatusMintSuccess,
                                        !.veh = seq.vehicle, !.sd = seq.sd,
                                        !.wallet = jobs[j].index]
      OBVIOUS
    <3>2. /\ rec.present /\ rec.status = 53
          /\ rec.veh = seq.vehicle /\ rec.sd = seq.sd
      BY <1>5, <3>1, Codes DEF Row
    <3>3. seq.vehicle # 0 /\ seq.sd # 0
      BY DEF TypeOK
    <3>4. burned' = burned /\ copy.veh = 0 /\ UNCHANGED <<vins, requests, locked>>
      BY <1>2, <1>6 DEF MintVehicleWithSD
    <3>5. /\ ChainFits'
          /\ \A w \in Vins \ {v} : \A row : Names(w, row) => Names(w, row)'
          /\ \A row : row.veh = seq.vehicle /\ row.sd = seq.sd => Names(v, row)'
      BY <1>5, <2>2, <3>4, MintsVehicle
    <3>6. Names(v, rec)' /\ Move(j, "saveVehicle", rec)
      BY <2>2, <3>1, <3>2, <3>5
    <3> QED
      BY <1>1, <1>3, <3>2, <3>3, <3>4, <3>5, <3>6, MintedKeepsSInv
  <2> QED
    BY <1>1, <1>2, <1>3, <1>6, <2>1, <2>2 DEF MintVehicleWithSD, ChainMintSD
<1>7. CASE MintSD(j)
  <2>1. CASE MintFailed(j) /\ UNCHANGED <<sds, seq>>
    <3>1. UNCHANGED <<vins, requests, chain, seq, locked>>
      BY <1>7, <2>1 DEF MintSD, chain
    <3> QED
      BY <1>3, <2>1, <3>1, MintFailedKeepsSInv
  <2>2. CASE /\ LiveVehicle(copy.veh)
             /\ sds' = sds \cup {[id |-> seq.sd, vehicle |-> copy.veh,
                                  wallet |-> jobs[j].index, vin |-> v]}
             /\ seq' = [seq EXCEPT !.sd = @ + 1]
             /\ Move(j, "saveSD",
                     [copy EXCEPT !.status = OnboardingStatusMintSuccess,
                                  !.sd = seq.sd, !.wallet = jobs[j].index])
    <3>1. PICK rec : rec = [copy EXCEPT !.status = OnboardingStatusMintSuccess,
                                        !.sd = seq.sd, !.wallet = jobs[j].index]
      OBVIOUS
    <3>2. /\ rec.present /\ rec.status = 53
          /\ rec.veh = copy.veh /\ rec.sd = seq.sd
      BY <1>5, <3>1, Codes DEF Row
    <3>3. seq.sd # 0
      BY DEF TypeOK
    <3>4. /\ burned' = burned /\ vehicles' = vehicles /\ copy.veh # 0
          /\ UNCHANGED <<vins, requests, locked>>
      BY <1>2, <1>7 DEF MintSD
    <3>5. [id |-> copy.veh, vin |-> v] \in vehicles
      BY <1>1, <1>2, <3>4 DEF JobsSound, Sound
    <3>6. /\ ChainFits'
          /\ \A w \in Vins \ {v} : \A row : Names(w, row) => Names(w, row)'
          /\ \A row : row.veh = copy.veh /\ row.sd = seq.sd => Names(v, row)'
      BY <1>5, <2>2, <3>4, <3>5, MintsSD
    <3>7. Names(v, rec)' /\ Move(j, "saveSD", rec)
      BY <2>2, <3>1, <3>2, <3>6
    <3> QED
      BY <1>1, <1>3, <1>5, <3>2, <3>3, <3>4, <3>6, <3>7, MintedKeepsSInv
  <2> QED
    BY <1>1, <1>2, <1>3, <1>7, <2>1, <2>2 DEF MintSD, ChainMintSD
<1> QED
  BY <1>6, <1>7

LEMMA SaveMintKeepsSInv ==
  ASSUME TypeOK, SInv, failures' = 0, NEW j \in Jobs,
         SaveMintedVehicle(j) \/ SaveMintedSD(j) \/ FinishOnboard(j)
  PROVE  SInv'
<1>1. PICK v \in Vins : v = jobs[j].vin
  BY DEF TypeOK, Job
<1>2. PICK rec : rec = jobs[j].record
  OBVIOUS
<1>3. Running(j) /\ jobs[j].at \in {"saveVehicle", "saveSD", "finish"}
  BY DEF SaveMintedVehicle, SaveMintedSD, FinishOnboard, Running, Pending
<1>4. ~InBurn(j) /\ jobs[j].at \in OnboardPlaces
  BY <1>3 DEF InBurn, OnboardPlaces
<1>5. /\ rec.present /\ vins[v].present /\ jobs[j].kind = "onboard"
      /\ rec.veh = 0 => rec.sd = 0
      /\ jobs[j].at \in {"saveVehicle", "saveSD"} =>
           rec.status \in {52, 53} /\ StatusFits(rec)
      /\ jobs[j].at = "saveSD" => rec.veh = vins[v].veh
      /\ jobs[j].at = "finish" =>
           rec.sd # 0 /\ rec.veh = vins[v].veh /\ rec.sd = vins[v].sd
  BY <1>1, <1>2, <1>3, <1>4, Alone, Onboarders, Codes DEF OnboardFits
<1>6. CASE SaveMintedVehicle(j)
  <2>1. /\ jobs[j].at = "saveVehicle" /\ Save(j, rec, VehicleSDColumns)
        /\ UNCHANGED <<requests, chain, seq, locked>>
        /\ \/ rec.status = 53 /\ Move(j, "finish", rec)
           \/ rec.status = 52 /\ Put(j, Errored(jobs[j]))
    BY <1>2, <1>6, Codes DEF SaveMintedVehicle
  <2>2. /\ vins'[v].present /\ vins'[v].status = rec.status
        /\ vins'[v].veh = rec.veh /\ vins'[v].sd = rec.sd
        /\ \A w \in Vins \ {v} : vins'[w] = vins[w]
    BY <1>1, <1>5, <2>1, SaveSaves, Saved
  <2>3. CASE rec.status = 53 /\ Move(j, "finish", rec)
    <3>1. /\ jobs'[j].at = "finish" /\ jobs'[j].record = rec /\ jobs'[j].vin = v
          /\ jobs'[j].kind = "onboard" /\ \A i \in Jobs \ {j} : jobs'[i] = jobs[i]
      BY <1>1, <1>5, <2>3, Moves
    <3>2. rec.sd # 0
      BY <1>5, <2>1, <2>3, Fits
    <3>3. OnboardFits(jobs[j])' /\ jobs'[j].at \in OnboardPlaces
      BY <3>1, <3>2 DEF OnboardFits, OnboardPlaces
    <3> QED
      BY <1>1, <1>2, <1>4, <1>5, <2>1, <2>2, <3>1, <3>3, OnboardMoves
  <2>4. CASE rec.status = 52 /\ Put(j, Errored(jobs[j]))
    <3>1. jobs'[j].at = "ended" /\ \A i \in Jobs \ {j} : jobs'[i] = jobs[i]
      BY <1>5, <2>4, Puts, Leaves
    <3>2. StatusFits(vins'[v])
      BY <1>5, <2>1, <2>2, Fits
    <3> QED
      BY <1>1, <1>2, <1>3, <1>4, <2>1, <2>2, <3>1, <3>2, WorkEnds
  <2> QED
    BY <2>1, <2>3, <2>4
<1>7. CASE SaveMintedSD(j)
  <2>1. /\ jobs[j].at = "saveSD" /\ Save(j, rec, SDColumns) /\ Put(j, Completed)
        /\ UNCHANGED <<requests, chain, seq, locked>>
    BY <1>2, <1>7 DEF SaveMintedSD
  <2>2. /\ vins'[v].present /\ vins'[v].status = rec.status
        /\ vins'[v].veh = rec.veh /\ vins'[v].sd = rec.sd
        /\ \A w \in Vins \ {v} : vins'[w] = vins[w]
    BY <1>1, <1>5, <2>1, SaveSaves, Saved
  <2>3. jobs'[j].at = "ended" /\ \A i \in Jobs \ {j} : jobs'[i] = jobs[i]
    BY <2>1, Puts, Leaves
  <2>4. StatusFits(vins'[v])
    BY <1>5, <2>1, <2>2, Fits
  <2> QED
    BY <1>1, <1>2, <1>3, <1>4, <2>1, <2>2, <2>3, <2>4, WorkEnds
<1>8. CASE FinishOnboard(j)
  <2>1. PICK new : new = [rec EXCEPT !.status = OnboardingStatusMintSuccess]
    OBVIOUS
  <2>2. /\ jobs[j].at = "finish" /\ Save(j, new, StatusColumn) /\ Put(j, Completed)
        /\ UNCHANGED <<requests, chain, seq, locked>>
    BY <1>2, <1>8, <2>1 DEF FinishOnboard
  <2>3. new.status = 53
    BY <1>2, <2>1, OtherStatus, Codes
  <2>4. /\ vins'[v].present /\ vins'[v].status = 53
        /\ vins'[v].veh = rec.veh /\ vins'[v].sd = rec.sd
        /\ \A w \in Vins \ {v} : vins'[w] = vins[w]
    BY <1>1, <1>5, <2>2, <2>3, SaveSaves, Saved
  <2>5. jobs'[j].at = "ended" /\ \A i \in Jobs \ {j} : jobs'[i] = jobs[i]
    BY <2>2, Puts, Leaves
  <2>6. StatusFits(vins'[v])
    BY <1>5, <2>2, <2>4, Fits
  <2> QED
    BY <1>1, <1>2, <1>3, <1>4, <2>2, <2>4, <2>5, <2>6, WorkEnds
<1> QED
  BY <1>6, <1>7, <1>8

LEMMA OnboardKeepsSInv ==
  ASSUME SerialClients, IInv, SInv, failures' = 0, NEW j \in Jobs, OnboardStep(j)
  PROVE  SInv'
<1>1. TypeOK /\ TokensFresh /\ JobsSound
  BY DEF IInv
<1>2. CASE StartOnboard(j)
  <2>1. PICK v \in Vins : v = jobs[j].vin
    BY <1>1 DEF TypeOK, Job
  <2>2. Runs("onboard", vins[v]) => vins[v].present
    BY DEF Runs
  <2> QED
    BY <1>1, <1>2, <2>1, <2>2, StartOrEndKeepsSInv DEF StartOnboard
<1> QED
  BY <1>1, <1>2, ConnectKeepsSInv, SaveConnectKeepsSInv, TakeIndexKeepsSInv,
     MintKeepsSInv, SaveMintKeepsSInv DEF OnboardStep

-----------------------------------------------------------------------------
(* Disconnect worker and delete worker.                                    *)

LEMMA Burners ==
  ASSUME TypeOK, SInv, BurnersBurn, NEW j \in Jobs, jobs[j].at \in BurnPlaces
  PROVE  /\ Running(j) /\ Pending(j) /\ jobs[j].kind \in BurnKinds
         /\ \A r \in Requests : ~InBatch(r, jobs[j].vin)
         /\ Names(jobs[j].vin, jobs[j].record) /\ jobs[j].record.present
         /\ vins[jobs[j].vin].present /\ jobs[j].at # "unlockTwice"
         /\ jobs[j].record.veh = 0 => jobs[j].record.sd = 0
         /\ jobs[j].at \notin Behind =>
              /\ jobs[j].record.veh = vins[jobs[j].vin].veh
              /\ jobs[j].record.sd = vins[jobs[j].vin].sd
         /\ jobs[j].kind = "disconnect" => DisconnectFits(jobs[j])
         /\ jobs[j].kind = "delete" => DeleteFits(jobs[j])
<1>1. Running(j)
  BY DEF Running, Pending, BurnPlaces
<1>2. jobs[j].kind \in BurnKinds
  BY DEF BurnersBurn
<1>3. jobs[j].at # "insert"
  BY DEF BurnPlaces
<1> QED
  BY <1>1, <1>2, <1>3, Alone DEF Working

\* A step from one place of a burning worker to another.
LEMMA BurnMoves ==
  ASSUME TypeOK, SInv, BurnersBurn, NEW j \in Jobs, jobs[j].at \in BurnPlaces,
         NEW v \in Vins, v = jobs[j].vin,
         NEW place \in BurnPlaces \ {"unlockTwice"}, NEW rec, Move(j, place, rec),
         rec.present, rec.veh = 0 => rec.sd = 0, Names(v, rec)',
         vins'[v].present,
         place \notin Behind => rec.veh = vins'[v].veh /\ rec.sd = vins'[v].sd,
         jobs[j].kind = "disconnect" => DisconnectFits(jobs[j])',
         jobs[j].kind = "delete" => DeleteFits(jobs[j])',
         requests' = requests, ChainFits', Elsewhere(v), BurnsLocked'
  PROVE  SInv'
<1>1. /\ Pending(j) /\ jobs[j].kind \in BurnKinds
      /\ \A r \in Requests : ~InBatch(r, v)
  BY Burners
<1>2. /\ jobs'[j].at = place /\ jobs'[j].record = rec /\ jobs'[j].vin = v
      /\ jobs'[j].kind = jobs[j].kind /\ \A i \in Jobs \ {j} : jobs'[i] = jobs[i]
  BY Moves
<1>3. (Names(jobs[j].vin, jobs[j].record))'
  BY <1>2 DEF Names
<1>4. /\ place \notin VerifyPlaces \cup OnboardPlaces
      /\ place # "insert" /\ place # "unlockTwice"
  BY DEF BurnPlaces, VerifyPlaces, OnboardPlaces
<1>5. Working(jobs[j])'
  BY <1>2, <1>3, <1>4 DEF Working
<1>6. JobFits(j)' /\ Running(j)'
  BY <1>2, <1>5 DEF JobFits, Running, Pending, BurnPlaces
<1> QED
  BY <1>1, <1>2, <1>6, WorkKeepsSInv

LEMMA DisconnectKeepsSInv ==
  ASSUME TypeOK, SInv, BurnersBurn, failures' = 0, NEW j \in Jobs,
         DisconnectFromVendor(j) \/ SaveDisconnect(j)
  PROVE  SInv'
<1>1. PICK v \in Vins : v = jobs[j].vin
  BY DEF TypeOK, Job
<1>2. PICK copy : copy = jobs[j].record
  OBVIOUS
<1>3. jobs[j].at \in {"disconnect", "saveDisconnect"}
  BY DEF DisconnectFromVendor, SaveDisconnect
<1>4. jobs[j].at \in BurnPlaces /\ jobs[j].at \notin Behind /\ ~InBurn(j)
  BY <1>3 DEF BurnPlaces, Behind, InBurn
<1>5. /\ Running(j) /\ Names(v, copy) /\ copy.present /\ vins[v].present
      /\ copy.veh = vins[v].veh /\ copy.sd = vins[v].sd
      /\ copy.veh = 0 => copy.sd = 0
      /\ jobs[j].kind = "disconnect"
      /\ jobs[j].op = copy.sd /\ copy.sd # 0
      /\ jobs[j].at = "saveDisconnect" => copy.status \in {72, 73}
  BY <1>1, <1>2, <1>3, <1>4, Burners, Codes
  DEF BurnKinds, DeleteFits, DisconnectFits, Behind
<1>6. CASE DisconnectFromVendor(j)
  <2>1. PICK rec : rec = Disconnected(copy)
    OBVIOUS
  <2>2. PICK failed : failed = [copy EXCEPT !.status = OnboardingStatusDisconnectFailure]
    OBVIOUS
  <2>3. PICK done : done = [rec EXCEPT !.status = OnboardingStatusDisconnectSuccess]
    OBVIOUS
  <2>4. ~Fail("lostWrite")
    BY DEF Fail, TypeOK
  <2>5. /\ UNCHANGED <<requests, chain, seq, locked>>
        /\ \/ Move(j, "saveDisconnect", failed) /\ UNCHANGED vins
           \/ Save(j, rec, EnrollColumns) /\ Move(j, "saveDisconnect", done)
    BY <1>2, <1>6, <2>1, <2>2, <2>3, <2>4 DEF DisconnectFromVendor
  <2>6. copy \in Row
    BY <1>2 DEF TypeOK, Job
  <2>7. /\ failed.present /\ failed.status = OnboardingStatusDisconnectFailure
        /\ failed.veh = copy.veh /\ failed.sd = copy.sd
    BY <1>2, <1>5, <2>2, OtherStatus
  <2>8. /\ done.present /\ done.status = OnboardingStatusDisconnectSuccess
        /\ done.veh = copy.veh /\ done.sd = copy.sd
    BY <1>5, <2>1, <2>3, <2>6 DEF Disconnected, Row
  <2>9. PICK new : new \in {failed, done} /\ Move(j, "saveDisconnect", new)
    BY <2>5
  <2>10. /\ vins'[v].present /\ vins'[v].veh = copy.veh /\ vins'[v].sd = copy.sd
         /\ \A w \in Vins \ {v} : vins'[w] = vins[w]
    <3>1. CASE Save(j, rec, EnrollColumns)
      BY <1>1, <1>5, <3>1, SaveSaves, Saved
    <3> QED
      BY <1>5, <2>5, <3>1
  <2>11. /\ jobs'[j].at = "saveDisconnect" /\ jobs'[j].record = new /\ jobs'[j].vin = v
         /\ jobs'[j].kind = "disconnect" /\ jobs'[j].op = copy.sd
         /\ \A i \in Jobs \ {j} : jobs'[i] = jobs[i]
    BY <1>1, <1>5, <2>9, Moves
  <2>12. /\ new.present /\ new.veh = copy.veh /\ new.sd = copy.sd
         /\ new.status \in {OnboardingStatusDisconnectFailure,
                            OnboardingStatusDisconnectSuccess}
    BY <2>7, <2>8, <2>9
  <2>13. DisconnectFits(jobs[j])'
    BY <1>5, <2>11, <2>12 DEF DisconnectFits, Behind
  <2>14. /\ ChainFits' /\ Elsewhere(v) /\ Names(v, new)'
    <3>1. Names(v, new)
      BY <1>5, <2>12 DEF Names
    <3>2. ChainFits' /\ \A w, row : Names(w, row)' <=> Names(w, row)
      BY <2>5, ChainStays
    <3> QED
      BY <2>10, <3>1, <3>2 DEF Elsewhere
  <2>15. BurnsLocked'
    <3>1. \A i \in Jobs : /\ InBurn(i)' <=> InBurn(i)
                          /\ jobs'[i].kind = jobs[i].kind
      BY <1>4, <1>5, <2>11 DEF InBurn
    <3> QED
      BY <2>5, <3>1 DEF SInv, BurnsLocked, OneBurnAtATime
  <2>16. "saveDisconnect" \in BurnPlaces \ {"unlockTwice"}
    BY DEF BurnPlaces
  <2> QED
    BY <1>1, <1>4, <1>5, <2>5, <2>9, <2>10, <2>12, <2>13, <2>14, <2>15, <2>16, BurnMoves
<1>7. CASE SaveDisconnect(j)
  <2>1. /\ jobs[j].at = "saveDisconnect" /\ Save(j, copy, StatusColumn)
        /\ UNCHANGED <<requests, chain, seq, locked>>
        /\ \/ copy.status # 73 /\ Put(j, Errored(jobs[j]))
           \/ Move(j, "lock", copy)
    BY <1>2, <1>5, <1>7, Codes DEF SaveDisconnect
  <2>2. /\ vins'[v].present /\ vins'[v].status = copy.status
        /\ vins'[v].veh = copy.veh /\ vins'[v].sd = copy.sd
        /\ \A w \in Vins \ {v} : vins'[w] = vins[w]
    BY <1>1, <1>5, <2>1, SaveSaves, Saved
  <2>3. CASE copy.status # 73 /\ Put(j, Errored(jobs[j]))
    <3>1. jobs'[j].at = "ended" /\ \A i \in Jobs \ {j} : jobs'[i] = jobs[i]
      BY <1>5, <2>3, Puts, Leaves
    <3>2. StatusFits(vins'[v])
      BY <1>5, <2>1, <2>2, <2>3, Fits
    <3> QED
      BY <1>1, <1>2, <1>4, <1>5, <2>1, <2>2, <3>1, <3>2, WorkEnds
  <2>4. CASE Move(j, "lock", copy)
    <3>1. /\ jobs'[j].at = "lock" /\ jobs'[j].record = copy /\ jobs'[j].vin = v
          /\ jobs'[j].kind = "disconnect" /\ jobs'[j].op = copy.sd
          /\ \A i \in Jobs \ {j} : jobs'[i] = jobs[i]
      BY <1>1, <1>5, <2>4, Moves
    <3>2. DisconnectFits(jobs[j])'
      BY <1>5, <3>1 DEF DisconnectFits, Behind
    <3>3. ChainFits' /\ Elsewhere(v) /\ Names(v, copy)'
      BY <1>5, <2>1, <2>2, ChainStays DEF Elsewhere
    <3>4. BurnsLocked'
      <4>1. \A i \in Jobs : /\ InBurn(i)' <=> InBurn(i)
                            /\ jobs'[i].kind = jobs[i].kind
        BY <1>4, <1>5, <3>1 DEF InBurn
      <4> QED
        BY <2>1, <4>1 DEF SInv, BurnsLocked, OneBurnAtATime
    <3>5. "lock" \in BurnPlaces \ {"unlockTwice"}
      BY DEF BurnPlaces
    <3> QED
      BY <1>1, <1>4, <1>5, <2>1, <2>2, <2>4, <3>2, <3>3, <3>4, <3>5, BurnMoves
  <2> QED
    BY <2>1, <2>3, <2>4
<1> QED
  BY <1>6, <1>7

LEMMA LockKeepsSInv ==
  ASSUME TypeOK, SInv, BurnersBurn, NEW j \in Jobs, Lock(j)
  PROVE  SInv'
<1>1. PICK v \in Vins : v = jobs[j].vin
  BY DEF TypeOK, Job
<1>2. PICK copy : copy = jobs[j].record
  OBVIOUS
<1>3. PICK kind : kind = jobs[j].kind
  OBVIOUS
<1>4. /\ jobs[j].at = "lock" /\ ~locked[kind] /\ Move(j, "burn", copy)
      /\ locked' = [locked EXCEPT ![kind] = TRUE]
      /\ UNCHANGED <<vins, requests, chain, seq>>
  BY <1>2, <1>3 DEF Lock
<1>5. jobs[j].at \in BurnPlaces /\ jobs[j].at \notin Behind /\ ~InBurn(j)
  BY <1>4 DEF BurnPlaces, Behind, InBurn
<1>6. /\ kind \in BurnKinds /\ Names(v, copy) /\ copy.present /\ vins[v].present
      /\ copy.veh = vins[v].veh /\ copy.sd = vins[v].sd
      /\ copy.veh = 0 => copy.sd = 0
      /\ kind = "disconnect" => jobs[j].op = copy.sd /\ copy.sd # 0
      /\ kind = "delete" => /\ jobs[j].op = copy.veh /\ copy.veh # 0
                            /\ copy.sd = 0
  BY <1>1, <1>2, <1>3, <1>5, Burners DEF DeleteFits, DisconnectFits
<1>7. /\ jobs'[j].at = "burn" /\ jobs'[j].record = copy /\ jobs'[j].vin = v
      /\ jobs'[j].kind = kind /\ jobs'[j].op = jobs[j].op
      /\ \A i \in Jobs \ {j} : jobs'[i] = jobs[i]
  BY <1>1, <1>3, <1>4, Moves
<1>8. kind = "disconnect" => DisconnectFits(jobs[j])'
  BY <1>6, <1>7 DEF DisconnectFits, Behind
<1>9. kind = "delete" => DeleteFits(jobs[j])'
  BY <1>4, <1>6, <1>7 DEF DeleteFits, Behind
<1>10. ChainFits' /\ Elsewhere(v) /\ Names(v, copy)'
  BY <1>4, <1>6, ChainStays DEF Elsewhere
<1>11. BurnsLocked'
  <2>1. \A i \in Jobs : /\ InBurn(i)' <=> InBurn(i) \/ i = j
                        /\ jobs'[i].kind = jobs[i].kind
    BY <1>3, <1>5, <1>7 DEF InBurn
  <2>2. \A i \in Jobs : InBurn(i) => jobs[i].kind # kind
    BY <1>4 DEF SInv, BurnsLocked
  <2>3. /\ \A k \in BurnKinds : locked'[k] <=> locked[k] \/ k = kind
    BY <1>4, <1>6 DEF TypeOK
  <2>4. \A i \in Jobs : InBurn(i) => jobs[i].kind \in BurnKinds
    BY DEF BurnersBurn, InBurn, BurnPlaces
  <2>5. \A i \in Jobs : InBurn(i)' => locked'[jobs'[i].kind]
    BY <1>3, <1>6, <2>1, <2>3, <2>4 DEF SInv, BurnsLocked
  <2>6. \A i, k \in Jobs : InBurn(i)' /\ InBurn(k)' /\ jobs'[i].kind = jobs'[k].kind => i = k
    BY <1>3, <2>1, <2>2 DEF SInv, BurnsLocked, OneBurnAtATime
  <2> QED
    BY <2>5, <2>6 DEF BurnsLocked, OneBurnAtATime
<1>12. "burn" \in BurnPlaces \ {"unlockTwice"}
  BY DEF BurnPlaces
<1> QED
  BY <1>1, <1>3, <1>4, <1>5, <1>6, <1>8, <1>9, <1>10, <1>11, <1>12, BurnMoves

\* The chain burns an SD, or a vehicle that no SD lives for, of a VIN.
LEMMA BurnsSD ==
  ASSUME TypeOK, SInv, TokensFresh, NEW v \in Vins, NEW copy, Names(v, copy),
         Sound(v, copy, vehicles, sds), copy.sd # 0,
         vehicles' = vehicles, sds' = sds, seq' = seq,
         burned' = [burned EXCEPT !.sds = @ \cup {copy.sd}]
  PROVE  /\ ChainFits' /\ \A w \in Vins \ {v} : \A row : Names(w, row) => Names(w, row)'
         /\ \A row : row.veh = copy.veh /\ row.sd = 0 => Names(v, row)'
<1>1. PICK S : S = copy.sd
  OBVIOUS
<1>2. burned'.sds = burned.sds \cup {S} /\ burned'.vehicles = burned.vehicles
  BY <1>1 DEF TypeOK
<1>3. PICK y \in sds : y.id = S /\ y.vin = v
  BY <1>1 DEF Sound
<1>4. \A x \in sds : x.id = S => x = y
  BY <1>3 DEF TokensFresh
<1>5. S < seq.sd
  BY <1>3 DEF TokensFresh
<1>6. \A id : /\ LiveSD(id)' <=> LiveSD(id) /\ id # S
              /\ LiveVehicle(id)' <=> LiveVehicle(id)
  BY <1>2 DEF LiveSD, LiveVehicle
<1>7. ChainFits'
  <2>1. /\ \A x \in vehicles' : x.id # 0
        /\ \A x \in sds' : x.id # 0
        /\ \A id \in burned'.vehicles : id < seq'.vehicle
        /\ \A id \in burned'.sds : id < seq'.sd
    BY <1>2, <1>5 DEF SInv, ChainFits
  <2>2. \A x \in sds' : /\ [id |-> x.vehicle, vin |-> x.vin] \in vehicles'
                        /\ LiveSD(x.id)' => LiveVehicle(x.vehicle)'
    BY <1>6 DEF SInv, ChainFits
  <2> QED
    BY <2>1, <2>2 DEF ChainFits, LiveSD, LiveVehicle
<1>8. ASSUME NEW w \in Vins \ {v}, NEW row, Names(w, row) PROVE Names(w, row)'
  <2>1. \A x \in sds : x.vin = w => x.id # S
    BY <1>3, <1>4
  <2>2. \A x \in vehicles' : x.vin = w => (LiveVehicle(x.id)' <=> row.veh = x.id)
    BY <1>6, <1>8 DEF Names
  <2>3. \A x \in sds' : x.vin = w => (LiveSD(x.id)' <=> row.sd = x.id)
    BY <1>6, <1>8, <2>1 DEF Names
  <2> QED
    BY <2>2, <2>3 DEF Names, LiveSD, LiveVehicle
<1>9. ASSUME NEW row, row.veh = copy.veh, row.sd = 0 PROVE Names(v, row)'
  <2>1. \A x \in vehicles' : x.vin = v => (LiveVehicle(x.id)' <=> row.veh = x.id)
    BY <1>6, <1>9 DEF Names
  <2>2. \A x \in sds' : x.vin = v => ~LiveSD(x.id)' /\ row.sd # x.id
    BY <1>1, <1>6, <1>9 DEF Names, SInv, ChainFits
  <2> QED
    BY <2>1, <2>2 DEF Names, LiveSD, LiveVehicle
<1> QED
  BY <1>7, <1>8, <1>9

LEMMA BurnsVehicle ==
  ASSUME TypeOK, SInv, TokensFresh, NEW v \in Vins, NEW copy, Names(v, copy),
         Sound(v, copy, vehicles, sds), copy.veh # 0, copy.sd = 0,
         \A x \in sds : x.vehicle = copy.veh => ~LiveSD(x.id),
         vehicles' = vehicles, sds' = sds, seq' = seq,
         burned' = [burned EXCEPT !.vehicles = @ \cup {copy.veh}]
  PROVE  /\ ChainFits' /\ \A w \in Vins \ {v} : \A row : Names(w, row) => Names(w, row)'
         /\ \A row : row.veh = 0 /\ row.sd = 0 => Names(v, row)'
<1>1. PICK V : V = copy.veh
  OBVIOUS
<1>2. burned'.vehicles = burned.vehicles \cup {V} /\ burned'.sds = burned.sds
  BY <1>1 DEF TypeOK
<1>3. PICK y \in vehicles : y.id = V /\ y.vin = v
  BY <1>1 DEF Sound
<1>4. \A x \in vehicles : x.id = V => x = y
  BY <1>3 DEF TokensFresh
<1>5. V < seq.vehicle
  BY <1>3 DEF TokensFresh
<1>6. \A id : /\ LiveVehicle(id)' <=> LiveVehicle(id) /\ id # V
              /\ LiveSD(id)' <=> LiveSD(id)
  BY <1>2 DEF LiveSD, LiveVehicle
<1>7. ChainFits'
  <2>1. /\ \A x \in vehicles' : x.id # 0
        /\ \A x \in sds' : x.id # 0
        /\ \A id \in burned'.vehicles : id < seq'.vehicle
        /\ \A id \in burned'.sds : id < seq'.sd
    BY <1>2, <1>5 DEF SInv, ChainFits
  <2>2. \A x \in sds' : /\ [id |-> x.vehicle, vin |-> x.vin] \in vehicles'
                        /\ LiveSD(x.id)' => LiveVehicle(x.vehicle)'
    BY <1>1, <1>6 DEF SInv, ChainFits
  <2> QED
    BY <2>1, <2>2 DEF ChainFits, LiveSD, LiveVehicle
<1>8. ASSUME NEW w \in Vins \ {v}, NEW row, Names(w, row) PROVE Names(w, row)'
  <2>1. \A x \in vehicles : x.vin = w => x.id # V
    BY <1>3, <1>4
  <2>2. \A x \in vehicles' : x.vin = w => (LiveVehicle(x.id)' <=> row.veh = x.id)
    BY <1>6, <1>8, <2>1 DEF Names
  <2>3. \A x \in sds' : x.vin = w => (LiveSD(x.id)' <=> row.sd = x.id)
    BY <1>6, <1>8 DEF Names
  <2> QED
    BY <2>2, <2>3 DEF Names, LiveSD, LiveVehicle
<1>9. ASSUME NEW row, row.veh = 0, row.sd = 0 PROVE Names(v, row)'
  <2>1. \A x \in vehicles' : x.vin = v => ~LiveVehicle(x.id)' /\ row.veh # x.id
    BY <1>1, <1>6, <1>9 DEF Names, SInv, ChainFits
  <2>2. \A x \in sds' : x.vin = v => (LiveSD(x.id)' <=> row.sd = x.id)
    BY <1>6, <1>9 DEF Names
  <2> QED
    BY <2>1, <2>2 DEF Names, LiveSD, LiveVehicle
<1> QED
  BY <1>7, <1>8, <1>9

\* What holds once an operation has been sent, whatever became of it.
LEMMA SentKeepsSInv ==
  ASSUME TypeOK, SInv, BurnersBurn, NEW j \in Jobs, NEW v \in Vins, v = jobs[j].vin,
         jobs[j].at = "burn", NEW rec, Move(j, "unlock", rec), rec.present,
         NEW kind, kind = jobs[j].kind, StatusFits(rec), Names(v, rec)',
         kind = "disconnect" => rec.status \in {82, 83} /\ rec.veh = vins[v].veh,
         kind = "delete" => /\ rec.status \in {102, 103} /\ rec.sd = 0
                            /\ vins[v].sd = 0,
         UNCHANGED <<vins, requests, locked>>, ChainFits', Elsewhere(v)
  PROVE  SInv'
<1>1. jobs[j].at \in BurnPlaces /\ InBurn(j)
  BY DEF BurnPlaces, InBurn
<1>2. vins'[v].present
  BY <1>1, Burners
<1>3. /\ jobs'[j].at = "unlock" /\ jobs'[j].record = rec /\ jobs'[j].vin = v
      /\ jobs'[j].kind = kind /\ \A i \in Jobs \ {j} : jobs'[i] = jobs[i]
  BY Moves
<1>4. (StatusFits(jobs[j].record))'
  BY <1>3 DEF StatusFits
<1>5. kind = "disconnect" => DisconnectFits(jobs[j])'
  BY <1>3, <1>4, Codes DEF DisconnectFits, Behind
<1>6. kind = "delete" => DeleteFits(jobs[j])'
  BY <1>3, <1>4, Codes DEF DeleteFits, Behind
<1>7. BurnsLocked'
  <2>1. \A i \in Jobs : (InBurn(i)' <=> InBurn(i)) /\ jobs'[i].kind = jobs[i].kind
    BY <1>1, <1>3 DEF InBurn
  <2> QED
    BY <2>1 DEF SInv, BurnsLocked, OneBurnAtATime
<1>8. rec.veh = 0 => rec.sd = 0
  BY Fits
<1>9. "unlock" \in BurnPlaces \ {"unlockTwice"} /\ "unlock" \in Behind
  BY DEF BurnPlaces, Behind
<1> QED
  BY <1>1, <1>2, <1>5, <1>6, <1>7, <1>8, <1>9, BurnMoves

\* The operation is refused, or done: the copy says which.
LEMMA SendKeepsSInv ==
  ASSUME TypeOK, SInv, BurnersBurn, TokensFresh, JobsSound, failures' = 0,
         NEW j \in Jobs, SendBurnOperation(j)
  PROVE  SInv'
<1>1. PICK v \in Vins : v = jobs[j].vin
  BY DEF TypeOK, Job
<1>2. PICK copy : copy = jobs[j].record
  OBVIOUS
<1>3. PICK kind : kind = jobs[j].kind
  OBVIOUS
<1>4. PICK failed : failed = BurnFailed(jobs[j])
  OBVIOUS
<1>5. PICK done : done = BurnDone(jobs[j])
  OBVIOUS
<1>6. ~Fail("lostAnswer") /\ ~Fail("burnResult")
  BY DEF Fail, TypeOK
<1>7. /\ jobs[j].at = "burn" /\ UNCHANGED <<vins, requests, vehicles, sds, seq, locked>>
      /\ \/ Move(j, "unlock", failed) /\ UNCHANGED burned
         \/ ChainBurn(jobs[j]) /\ Move(j, "unlock", done)
  BY <1>4, <1>5, <1>6 DEF SendBurnOperation
<1>8. jobs[j].at \in BurnPlaces /\ jobs[j].at \notin Behind /\ InBurn(j)
  BY <1>7 DEF BurnPlaces, Behind, InBurn
<1>9. /\ kind \in {"disconnect", "delete"} /\ Names(v, copy) /\ copy.present
      /\ vins[v].present /\ copy.veh = vins[v].veh /\ copy.sd = vins[v].sd
      /\ copy.veh = 0 => copy.sd = 0
      /\ kind = "disconnect" => jobs[j].op = copy.sd /\ copy.sd # 0
      /\ kind = "delete" => /\ jobs[j].op = copy.veh /\ copy.veh # 0
                            /\ copy.sd = 0
  BY <1>1, <1>2, <1>3, <1>8, Burners DEF DeleteFits, DisconnectFits, BurnKinds
<1>10. copy \in Row /\ Sound(v, copy, vehicles, sds)
  BY <1>1, <1>2 DEF TypeOK, Job, JobsSound
<1>11. CASE Move(j, "unlock", failed) /\ UNCHANGED burned
  <2>1. /\ failed.present /\ failed.veh = copy.veh /\ failed.sd = copy.sd
        /\ failed.status = IF kind = "disconnect" THEN 82 ELSE 102
    BY <1>2, <1>3, <1>4, <1>9, <1>10, Codes DEF BurnFailed, Row
  <2>2. StatusFits(failed)
    BY <1>9, <2>1, Fits
  <2>3. ChainFits' /\ (\A w, row : Names(w, row)' <=> Names(w, row))
    BY <1>7, <1>11, ChainStays DEF chain
  <2>4. Names(v, failed)
    BY <1>9, <2>1 DEF Names
  <2>5. Names(v, failed)' /\ Elsewhere(v)
    BY <1>7, <2>3, <2>4 DEF Elsewhere
  <2> QED
    BY <1>1, <1>3, <1>7, <1>9, <1>11, <2>1, <2>2, <2>3, <2>5, SentKeepsSInv
<1>12. CASE ChainBurn(jobs[j]) /\ Move(j, "unlock", done) /\ kind = "disconnect"
  <2>1. /\ done.present /\ done.veh = copy.veh /\ done.sd = 0 /\ done.status = 83
    BY <1>2, <1>3, <1>5, <1>9, <1>10, <1>12, Codes DEF BurnDone, Row
  <2>2. StatusFits(done)
    BY <1>9, <1>12, <2>1, Fits
  <2>3. burned' = [burned EXCEPT !.sds = @ \cup {copy.sd}]
    BY <1>3, <1>9, <1>12 DEF ChainBurn
  <2>4. /\ ChainFits' /\ \A w \in Vins \ {v} : \A row : Names(w, row) => Names(w, row)'
        /\ \A row : row.veh = copy.veh /\ row.sd = 0 => Names(v, row)'
    BY <1>7, <1>9, <1>10, <1>12, <2>3, BurnsSD
  <2>5. Names(v, done)' /\ Elsewhere(v)
    BY <1>7, <2>1, <2>4 DEF Elsewhere
  <2> QED
    BY <1>1, <1>3, <1>7, <1>9, <1>12, <2>1, <2>2, <2>4, <2>5, SentKeepsSInv
<1>13. CASE ChainBurn(jobs[j]) /\ Move(j, "unlock", done) /\ kind = "delete"
  <2>1. /\ done.present /\ done.veh = 0 /\ done.sd = 0 /\ done.status = 103
    BY <1>2, <1>3, <1>5, <1>9, <1>10, <1>13, Codes DEF BurnDone, Row
  <2>2. StatusFits(done)
    BY <1>9, <1>13, <2>1, Fits
  <2>3. /\ burned' = [burned EXCEPT !.vehicles = @ \cup {copy.veh}]
        /\ \A x \in sds : x.vehicle = copy.veh => ~LiveSD(x.id)
    BY <1>3, <1>9, <1>13 DEF ChainBurn, Burnable
  <2>4. /\ ChainFits' /\ \A w \in Vins \ {v} : \A row : Names(w, row) => Names(w, row)'
        /\ \A row : row.veh = 0 /\ row.sd = 0 => Names(v, row)'
    BY <1>7, <1>9, <1>10, <1>13, <2>3, BurnsVehicle
  <2>5. Names(v, done)' /\ Elsewhere(v)
    BY <1>7, <2>1, <2>4 DEF Elsewhere
  <2> QED
    BY <1>1, <1>3, <1>7, <1>9, <1>13, <2>1, <2>2, <2>4, <2>5, SentKeepsSInv
<1> QED
  BY <1>7, <1>9, <1>11, <1>12, <1>13

LEMMA UnlockKeepsSInv ==
  ASSUME TypeOK, SInv, BurnersBurn, NEW j \in Jobs, UnlockBurn(j)
  PROVE  SInv'
<1>1. PICK v \in Vins : v = jobs[j].vin
  BY DEF TypeOK, Job
<1>2. PICK rec : rec = jobs[j].record
  OBVIOUS
<1>3. PICK kind : kind = jobs[j].kind
  OBVIOUS
<1>4. /\ jobs[j].at = "unlock" /\ Move(j, "saveBurn", rec)
      /\ locked' = [locked EXCEPT ![kind] = FALSE]
      /\ UNCHANGED <<vins, requests, chain, seq>>
  BY <1>2, <1>3 DEF UnlockBurn, Unlock
<1>5. jobs[j].at \in BurnPlaces /\ jobs[j].at \in Behind /\ InBurn(j)
  BY <1>4 DEF BurnPlaces, Behind, InBurn
<1>6. /\ kind \in BurnKinds /\ Names(v, rec) /\ rec.present /\ vins[v].present
      /\ rec.veh = 0 => rec.sd = 0
      /\ kind = "disconnect" => DisconnectFits(jobs[j])
      /\ kind = "delete" => DeleteFits(jobs[j])
  BY <1>1, <1>2, <1>3, <1>5, Burners
<1>7. /\ jobs'[j].at = "saveBurn" /\ jobs'[j].record = rec /\ jobs'[j].vin = v
      /\ jobs'[j].kind = kind /\ \A i \in Jobs \ {j} : jobs'[i] = jobs[i]
  BY <1>1, <1>3, <1>4, Moves
<1>8. StatusFits(rec) => (StatusFits(jobs[j].record))'
  BY <1>7 DEF StatusFits
<1>9. kind = "disconnect" => DisconnectFits(jobs[j])'
  BY <1>1, <1>2, <1>4, <1>5, <1>6, <1>7, <1>8 DEF DisconnectFits, Behind
<1>10. kind = "delete" => DeleteFits(jobs[j])'
  BY <1>1, <1>2, <1>4, <1>5, <1>6, <1>7, <1>8 DEF DeleteFits, Behind
<1>11. ChainFits' /\ Elsewhere(v) /\ Names(v, rec)'
  BY <1>4, <1>6, ChainStays DEF Elsewhere
<1>12. BurnsLocked'
  <2>1. \A i \in Jobs : /\ InBurn(i)' <=> InBurn(i) /\ i # j
                        /\ jobs'[i].kind = jobs[i].kind
    BY <1>3, <1>7 DEF InBurn
  <2>2. \A i \in Jobs : InBurn(i) /\ i # j => jobs[i].kind # kind
    BY <1>3, <1>5 DEF SInv, BurnsLocked, OneBurnAtATime
  <2>3. \A i \in Jobs : InBurn(i) => jobs[i].kind \in BurnKinds /\ locked[jobs[i].kind]
    BY DEF BurnersBurn, InBurn, BurnPlaces, SInv, BurnsLocked
  <2>4. \A k \in BurnKinds \ {kind} : locked'[k] = locked[k]
    BY <1>4 DEF TypeOK
  <2> QED
    BY <2>1, <2>2, <2>3, <2>4 DEF SInv, BurnsLocked, OneBurnAtATime
<1>13. "saveBurn" \in BurnPlaces \ {"unlockTwice"} /\ "saveBurn" \in Behind
  BY DEF BurnPlaces, Behind
<1> QED
  BY <1>1, <1>3, <1>4, <1>5, <1>6, <1>9, <1>10, <1>11, <1>12, <1>13, BurnMoves

LEMMA SaveBurnKeepsSInv ==
  ASSUME TypeOK, SInv, BurnersBurn, failures' = 0, NEW j \in Jobs, SaveBurn(j)
  PROVE  SInv'
<1>1. PICK v \in Vins : v = jobs[j].vin
  BY DEF TypeOK, Job
<1>2. PICK rec : rec = jobs[j].record
  OBVIOUS
<1>3. PICK columns : columns = IF jobs[j].kind = "disconnect" THEN SDColumns
                                                              ELSE VehicleColumns
  OBVIOUS
<1>4. /\ jobs[j].at = "saveBurn" /\ Save(j, rec, columns) /\ Put(j, Completed)
      /\ UNCHANGED <<requests, chain, seq, locked>>
  BY <1>2, <1>3 DEF SaveBurn
<1>5. jobs[j].at \in BurnPlaces /\ jobs[j].at \in Behind /\ ~InBurn(j)
  BY <1>4 DEF BurnPlaces, Behind, InBurn
<1>6. /\ Running(j) /\ jobs[j].kind \in {"disconnect", "delete"}
      /\ rec.present /\ vins[v].present /\ StatusFits(rec)
      /\ jobs[j].kind = "disconnect" => rec.veh = vins[v].veh
      /\ jobs[j].kind = "delete" => rec.sd = vins[v].sd
  BY <1>1, <1>2, <1>5, Burners DEF DisconnectFits, DeleteFits, BurnKinds
<1>7. /\ vins'[v].present /\ vins'[v].status = rec.status
      /\ vins'[v].veh = rec.veh /\ vins'[v].sd = rec.sd
      /\ \A w \in Vins \ {v} : vins'[w] = vins[w]
  BY <1>1, <1>3, <1>4, <1>6, SaveSaves, Saved
<1>8. jobs'[j].at = "ended" /\ \A i \in Jobs \ {j} : jobs'[i] = jobs[i]
  BY <1>4, Puts, Leaves
<1>9. StatusFits(vins'[v])
  BY <1>6, <1>7, Fits
<1> QED
  BY <1>1, <1>2, <1>4, <1>5, <1>6, <1>7, <1>8, <1>9, WorkEnds

LEMMA BurnKeepsSInv ==
  ASSUME SerialClients, IInv, SInv, failures' = 0, NEW j \in Jobs, BurnStep(j)
  PROVE  SInv'
<1>1. TypeOK /\ TokensFresh /\ JobsSound /\ BurnersBurn
  BY DEF IInv
<1>2. PICK v \in Vins : v = jobs[j].vin
  BY <1>1 DEF TypeOK, Job
<1>3. /\ Runs("disconnect", vins[v]) => vins[v].present
      /\ Runs("delete", vins[v]) => vins[v].present
  BY DEF Runs
<1>4. CASE StartDisconnect(j) \/ StartDelete(j)
  BY <1>1, <1>2, <1>3, <1>4, StartOrEndKeepsSInv DEF StartDisconnect, StartDelete
<1>5. ~UnlockTwice(j)
  <2>1. "unlockTwice" \in BurnPlaces
    BY DEF BurnPlaces
  <2> QED
    BY <1>1, <2>1, Burners DEF UnlockTwice
<1> QED
  BY <1>1, <1>4, <1>5, DisconnectKeepsSInv, LockKeepsSInv, SendKeepsSInv,
     UnlockKeepsSInv, SaveBurnKeepsSInv DEF BurnStep

\* While nothing fails no mutex is unlocked that is not locked.
LEMMA NeverFatal ==
  ASSUME TypeOK, SInv, BurnersBurn, NEW j \in Jobs
  PROVE  ~FatalUnlock(j)
<1>1. InBurn(j) => locked[jobs[j].kind]
  BY DEF SInv, BurnsLocked
<1> QED
  BY <1>1 DEF FatalUnlock, InBurn

-----------------------------------------------------------------------------
(* Submit handlers.                                                        *)

\* A row or a copy of one fits a job as well as any that has its present,
\* status, veh and sd.
LEMMA SameJob ==
  ASSUME TypeOK, NEW j \in Jobs, JobFits(j), jobs'[j] = jobs[j], UNCHANGED chain,
         vins'[jobs[j].vin] = vins[jobs[j].vin]
  PROVE  JobFits(j)'
<1>1. vehicles' = vehicles /\ sds' = sds /\ burned' = burned
  BY DEF chain
<1>2. Names(jobs[j].vin, jobs[j].record) => Names(jobs[j].vin, jobs[j].record)'
  BY <1>1 DEF Names, LiveSD, LiveVehicle
<1>3. Waiting(jobs[j]) => Waiting(jobs[j])'
  BY DEF Waiting
<1>4. Working(jobs[j]) => Working(jobs[j])'
  BY <1>2 DEF Working, VerifyFits, OnboardFits, DisconnectFits, DeleteFits
<1> QED
  BY <1>3, <1>4 DEF JobFits, Running, Pending

\* The handlers touch neither the chain nor a lock nor a running job.
LEMMA HandlerKeepsSInv ==
  ASSUME TypeOK, SInv, UNCHANGED <<chain, seq, locked>>,
         OneAtATime', CopiesCurrent', \A j \in Jobs : JobFits(j)',
         \A j \in Jobs : /\ Running(j)' <=> Running(j)
                         /\ Running(j) => jobs'[j] = jobs[j],
         \A v \in Vins : RowFits(v) =>
           \/ vins'[v] = vins[v]
           \/ /\ StatusFits(vins'[v])
              /\ vins'[v].veh = vins[v].veh /\ vins'[v].sd = vins[v].sd
  PROVE  SInv'
<1>1. ChainFits' /\ \A w, row : Names(w, row)' <=> Names(w, row)
  BY ChainStays
<1>2. BurnsLocked'
  <2>1. \A j \in Jobs : /\ InBurn(j)' <=> InBurn(j)
                        /\ InBurn(j) => jobs'[j] = jobs[j]
    BY DEF Running, Pending, InBurn
  <2> QED
    BY <2>1 DEF SInv, BurnsLocked, OneBurnAtATime
<1>3. ASSUME NEW v \in Vins, \A j \in Jobs : Running(j)' => jobs'[j].vin # v
      PROVE  RowFits(v)'
  <2>1. RowFits(v)
    BY <1>3 DEF SInv
  <2>2. PICK row : row = vins'[v]
    OBVIOUS
  <2>3. Names(v, row) /\ StatusFits(row)
    BY <2>1, <2>2 DEF RowFits, Names
  <2>4. Names(v, row)'
    BY <1>1, <2>3
  <2>5. (Names(v, vins[v]))' /\ (StatusFits(vins[v]))'
    BY <2>2, <2>3, <2>4 DEF Names, StatusFits
  <2> QED
    BY <2>5 DEF RowFits
<1> QED
  BY <1>1, <1>2, <1>3 DEF SInv

LEMMA BeginKeepsSInv ==
  ASSUME SerialClients, TypeOK, SInv, NEW r \in Requests, BeginRequest(r)
  PROVE  SInv'
<1>1. PICK kind \in Offered, batch \in Batches :
        /\ Quiet(r, batch)
        /\ requests' =
             [requests EXCEPT ![r] =
                [kind |-> kind, batch |-> batch,
                 at |-> IF kind = "onboard" THEN "reread" ELSE "submit",
                 rows |-> [v \in Vins |-> IF \E i \in DOMAIN batch : batch[i] = v
                                            THEN vins[v] ELSE NoRow]]]
  BY DEF BeginRequest
<1>2. UNCHANGED <<vins, jobs, chain, seq, locked>>
  BY DEF BeginRequest
<1>3. /\ requests'[r].batch = batch /\ \A q \in Requests \ {r} : requests'[q] = requests[q]
      /\ \A v \in Vins : (\E i \in DOMAIN batch : batch[i] = v)
                            => requests'[r].rows[v] = vins[v]
  BY <1>1 DEF TypeOK
<1>4. /\ \A v : InBatch(r, v)' <=> \E i \in DOMAIN batch : batch[i] = v
      /\ \A q \in Requests \ {r} : \A v : InBatch(q, v)' <=> InBatch(q, v)
  BY <1>3 DEF InBatch
<1>5. ASSUME NEW v, InBatch(r, v)'
      PROVE  /\ \A j \in Jobs : Pending(j) => jobs[j].vin # v
             /\ \A q \in Requests \ {r} : ~InBatch(q, v)
  BY <1>1, <1>4, <1>5 DEF SerialClients, Quiet, InBatch
<1>6. OneAtATime'
  <2>1. \A i, k \in Jobs : Pending(i)' /\ Pending(k)' /\ jobs'[i].vin = jobs'[k].vin => i = k
    BY <1>2 DEF SInv, OneAtATime, Pending
  <2>2. \A p, q \in Requests, v \in Vins : InBatch(p, v)' /\ InBatch(q, v)' => p = q
    BY <1>4, <1>5 DEF SInv, OneAtATime
  <2>3. ASSUME NEW q \in Requests
        PROVE  \A i, k \in DOMAIN requests'[q].batch :
                 requests'[q].batch[i] = requests'[q].batch[k] => i = k
    <3>1. CASE q = r
      BY <1>1, <1>3, <3>1 DEF SerialClients, Quiet
    <3>2. CASE q # r
      BY <1>3, <3>2 DEF SInv, OneAtATime
    <3> QED
      BY <3>1, <3>2
  <2>4. ASSUME NEW q \in Requests, NEW j \in Jobs, Pending(j)', InBatch(q, jobs[j].vin)'
        PROVE  /\ jobs'[j].at = "available" /\ requests'[q].at = "upsert"
               /\ jobs'[j].vin = Head(requests'[q].batch)
               /\ jobs'[j].kind = requests'[q].kind
    <3>1. Pending(j) /\ jobs'[j] = jobs[j]
      BY <1>2, <2>4 DEF Pending
    <3>2. PICK v : v = jobs[j].vin
      OBVIOUS
    <3>3. InBatch(q, v)'
      BY <1>2, <2>4, <3>2 DEF InBatch
    <3>4. q # r
      BY <1>5, <3>1, <3>2, <3>3
    <3>5. InBatch(q, jobs[j].vin)
      BY <1>4, <3>2, <3>3, <3>4
    <3> QED
      BY <1>3, <3>1, <3>4, <3>5 DEF SInv, OneAtATime
  <2> QED
    BY <2>1, <2>2, <2>3, <2>4 DEF OneAtATime
<1>7. CopiesCurrent'
  <2> SUFFICES ASSUME NEW q \in Requests, NEW v \in Vins, InBatch(q, v)'
               PROVE  Alike(requests'[q].rows[v], vins'[v])
    BY DEF CopiesCurrent, Alike
  <2>1. CASE q = r
    BY <1>2, <1>3, <1>4, <2>1 DEF Alike
  <2>2. CASE q # r
    BY <1>2, <1>3, <1>4, <2>2 DEF SInv, CopiesCurrent
  <2> QED
    BY <2>1, <2>2
<1>8. \A j \in Jobs : JobFits(j)'
  BY <1>2, SameJob DEF SInv
<1>9. \A j \in Jobs : (Running(j)' <=> Running(j)) /\ jobs'[j] = jobs[j]
  BY <1>2 DEF Running, Pending
<1> QED
  BY <1>2, <1>6, <1>7, <1>8, <1>9, HandlerKeepsSInv

\* A request that has yet to queue its job meets no other job of its VINs.
LEMMA NoneQueued ==
  ASSUME SInv, NEW r \in Requests, requests[r].at # "upsert"
  PROVE  \A j \in Jobs : Pending(j) => ~InBatch(r, jobs[j].vin)
  BY DEF SInv, OneAtATime

LEMMA RereadKeepsSInv ==
  ASSUME TypeOK, SInv, NEW r \in Requests, RereadMinted(r)
  PROVE  SInv'
<1> DEFINE req == requests[r]
           again(v) == /\ \E i \in DOMAIN req.batch : req.batch[i] = v
                       /\ GetVehiclesByVinsAndOnboardingStatus(vins[v],
                            OnboardingStatusMintSuccess)
                       /\ vins[v].conn = "failed"
           new == [req EXCEPT !.at = "submit",
                              !.rows = [v \in Vins |-> IF again(v) THEN vins[v] ELSE @[v]]]
<1>1. /\ req.at = "reread" /\ requests' = [requests EXCEPT ![r] = new]
      /\ UNCHANGED <<vins, jobs, chain, seq, locked>>
  BY DEF RereadMinted
<1>2. req \in Request /\ requests \in [Requests -> Request]
  BY DEF TypeOK
<1>3. /\ new.batch = req.batch
      /\ \A v \in Vins : new.rows[v] \in {vins[v], req.rows[v]}
  BY <1>2 DEF Request
<1> HIDE DEF again, new
<1>4. /\ requests'[r].batch = requests[r].batch
      /\ \A v \in Vins : requests'[r].rows[v] \in {vins[v], requests[r].rows[v]}
      /\ \A q \in Requests \ {r} : requests'[q] = requests[q]
  BY <1>1, <1>2, <1>3
<1>5. \A q \in Requests : requests'[q].batch = requests[q].batch
  BY <1>4
<1>6. \A q \in Requests : \A v : InBatch(q, v)' <=> InBatch(q, v)
  BY <1>5 DEF InBatch
<1>7. \A j \in Jobs : /\ Pending(j)' <=> Pending(j)
                      /\ \A q \in Requests : InBatch(q, jobs[j].vin)' => InBatch(q, jobs[j].vin)
  BY <1>1, <1>5 DEF Pending, InBatch
<1>8. \A j \in Jobs : Pending(j) => ~InBatch(r, jobs[j].vin)
  BY <1>1, NoneQueued
<1>9. OneAtATime'
  <2>1. \A i, k \in Jobs : Pending(i)' /\ Pending(k)' /\ jobs'[i].vin = jobs'[k].vin => i = k
    BY <1>1, <1>7 DEF SInv, OneAtATime
  <2>2. \A p, q \in Requests, v \in Vins : InBatch(p, v)' /\ InBatch(q, v)' => p = q
    BY <1>6 DEF SInv, OneAtATime
  <2>3. \A q \in Requests : \A i, k \in DOMAIN requests'[q].batch :
          requests'[q].batch[i] = requests'[q].batch[k] => i = k
    BY <1>5 DEF SInv, OneAtATime
  <2>4. ASSUME NEW q \in Requests, NEW j \in Jobs, Pending(j)', InBatch(q, jobs[j].vin)'
        PROVE  /\ jobs'[j].at = "available" /\ requests'[q].at = "upsert"
               /\ jobs'[j].vin = Head(requests'[q].batch)
               /\ jobs'[j].kind = requests'[q].kind
    <3>1. Pending(j) /\ InBatch(q, jobs[j].vin) /\ q # r
      BY <1>7, <1>8, <2>4
    <3> QED
      BY <1>1, <1>4, <3>1 DEF SInv, OneAtATime
  <2> QED
    BY <2>1, <2>2, <2>3, <2>4 DEF OneAtATime
<1>10. CopiesCurrent'
  <2> SUFFICES ASSUME NEW q \in Requests, NEW v \in Vins, InBatch(q, v)'
               PROVE  Alike(requests'[q].rows[v], vins'[v])
    BY DEF CopiesCurrent, Alike
  <2>1. Alike(requests[q].rows[v], vins[v])
    BY <1>6 DEF SInv, CopiesCurrent
  <2> QED
    BY <1>1, <1>4, <2>1 DEF Alike
<1>11. \A j \in Jobs : JobFits(j)'
  BY <1>1, SameJob DEF SInv
<1>12. \A j \in Jobs : (Running(j)' <=> Running(j)) /\ jobs'[j] = jobs[j]
  BY <1>1 DEF Running, Pending
<1> QED
  BY <1>1, <1>9, <1>10, <1>11, <1>12, HandlerKeepsSInv

\* The gate lets a job through only for a row that it fits.
LEMMA GatedFits ==
  ASSUME TypeOK, SInv, NEW r \in Requests, NEW v \in Vins, InBatch(r, v), RowFits(v),
         NEW kind \in Kinds, kind = requests[r].kind, CanSubmit(kind, Copy(r, v)),
         NEW job, job = Available(kind, v, Operation(kind, Copy(r, v)), 0)
  PROVE  Waiting(job)
<1>1. PICK row : row = vins[v]
  OBVIOUS
<1>2. PICK copy : copy = Copy(r, v)
  OBVIOUS
<1>3. /\ job.kind = kind /\ job.vin = v /\ job.op = Operation(kind, copy)
  BY <1>2 DEF Available
<1>4. Alike(requests[r].rows[v], row) /\ StatusFits(row)
  BY <1>1 DEF SInv, CopiesCurrent, RowFits
<1>5. CASE row.present
  <2>1. copy.status = row.status /\ copy.veh = row.veh /\ copy.sd = row.sd
    BY <1>2, <1>4, <1>5 DEF Copy, Alike
  <2>2. kind = "verify" => ~IsVerified(row.status)
    BY <1>2, <2>1 DEF CanSubmit, canSubmitVerificationJob
  <2>3. kind = "disconnect" => row.status \in {53, 62, 72, 82}
    BY <1>2, <2>1, Codes
    DEF CanSubmit, canSubmitDisconnectJob, IsMinted, IsDisconnectFailed
  <2>4. kind = "disconnect" => row.sd # 0 /\ Operation(kind, copy) = row.sd
    BY <1>4, <2>1, <2>3, Fits DEF Operation
  <2>5. kind = "delete" => Operation(kind, copy) = row.veh
    BY <2>1 DEF Operation
  <2> QED
    BY <1>1, <1>3, <2>2, <2>4, <2>5 DEF Waiting
<1>6. CASE ~row.present
  <2>1. copy = NewRow(UnknownStatus(kind))
    BY <1>2, <1>4, <1>6 DEF Copy, Alike
  <2>2. copy.status = UnknownStatus(kind) /\ copy.veh = 0
    BY <2>1 DEF NewRow
  <2>3. row.status = 0 /\ row.veh = 0
    BY <1>4, <1>6, Fits
  <2>4. kind = "verify" => ~IsVerified(row.status)
    BY <2>3, Codes DEF IsVerified
  <2>5. kind # "disconnect"
    <3> SUFFICES ASSUME kind = "disconnect" PROVE FALSE
      OBVIOUS
    <3>1. copy.status = 60
      BY <2>2, Codes DEF UnknownStatus
    <3>2. canSubmitDisconnectJob(copy.status)
      BY <1>2 DEF CanSubmit
    <3> QED
      BY <3>1, <3>2, Codes DEF canSubmitDisconnectJob, IsMinted, IsDisconnectFailed
  <2>6. kind = "delete" => Operation(kind, copy) = row.veh
    BY <2>2, <2>3 DEF Operation
  <2> QED
    BY <1>1, <1>3, <2>4, <2>5, <2>6 DEF Waiting
<1> QED
  BY <1>5, <1>6

\* The VIN that a request is at.
LEMMA HeadInBatch ==
  ASSUME TypeOK, BatchesLast, NEW r \in Requests, requests[r].at # "none"
  PROVE  /\ requests[r].batch \in Seq(Vins) /\ requests[r].batch # <<>>
         /\ Head(requests[r].batch) = requests[r].batch[1]
         /\ 1 \in DOMAIN requests[r].batch
         /\ Head(requests[r].batch) \in Vins /\ InBatch(r, Head(requests[r].batch))
         /\ requests[r].kind \in Kinds
<1>1. requests[r].batch \in Seq(Vins) /\ requests[r].batch # <<>>
      /\ requests[r].kind \in Kinds
  BY DEF TypeOK, BatchesLast, Request
<1> QED
  BY <1>1 DEF InBatch

LEMMA SubmitKeepsSInv ==
  ASSUME TypeOK, BatchesLast, SInv, NEW r \in Requests, SubmitJob(r)
  PROVE  SInv'
<1>1. PICK v : v = Head(requests[r].batch)
  OBVIOUS
<1>2. PICK kind : kind = requests[r].kind
  OBVIOUS
<1>3. PICK new : new = Available(kind, v, Operation(kind, Copy(r, v)), 0)
  OBVIOUS
<1>4. /\ requests[r].at = "submit" /\ UNCHANGED <<vins, chain, seq, locked>>
      /\ requests' = [requests EXCEPT ![r].at = "upsert"]
  BY DEF SubmitJob
<1>5. v \in Vins /\ InBatch(r, v) /\ kind \in Kinds
  BY <1>1, <1>2, <1>4, HeadInBatch
<1>6. \A j \in Jobs : Pending(j) => ~InBatch(r, jobs[j].vin)
  BY <1>4, NoneQueued
<1>7. /\ requests'[r].batch = requests[r].batch /\ requests'[r].rows = requests[r].rows
      /\ requests'[r].at = "upsert" /\ requests'[r].kind = kind
      /\ \A q \in Requests \ {r} : requests'[q] = requests[q]
  BY <1>2, <1>4 DEF TypeOK, Request
<1>8. \A q \in Requests : /\ requests'[q].batch = requests[q].batch
                          /\ requests'[q].rows = requests[q].rows
  BY <1>7
<1>9. \A q \in Requests : \A w : InBatch(q, w)' <=> InBatch(q, w)
  BY <1>8 DEF InBatch
<1>10. \A q \in Requests, j \in Jobs : InBatch(q, jobs[j].vin)' => InBatch(q, jobs'[j].vin)
  BY <1>8 DEF InBatch
<1>11. CopiesCurrent'
  <2> SUFFICES ASSUME NEW q \in Requests, NEW w \in Vins, InBatch(q, w)'
               PROVE  Alike(requests'[q].rows[w], vins'[w])
    BY DEF CopiesCurrent, Alike
  <2> QED
    BY <1>4, <1>8, <1>9 DEF SInv, CopiesCurrent
<1>12. CASE UNCHANGED jobs
  <2>1. OneAtATime'
    <3>1. \A i, k \in Jobs : Pending(i)' /\ Pending(k)' /\ jobs'[i].vin = jobs'[k].vin => i = k
      BY <1>12 DEF SInv, OneAtATime, Pending
    <3>2. \A p, q \in Requests, w \in Vins : InBatch(p, w)' /\ InBatch(q, w)' => p = q
      BY <1>9 DEF SInv, OneAtATime
    <3>3. \A q \in Requests : \A i, k \in DOMAIN requests'[q].batch :
            requests'[q].batch[i] = requests'[q].batch[k] => i = k
      BY <1>8 DEF SInv, OneAtATime
    <3>4. ASSUME NEW q \in Requests, NEW j \in Jobs, Pending(j)', InBatch(q, jobs[j].vin)'
          PROVE  /\ jobs'[j].at = "available" /\ requests'[q].at = "upsert"
                 /\ jobs'[j].vin = Head(requests'[q].batch)
                 /\ jobs'[j].kind = requests'[q].kind
      <4>1. Pending(j) /\ InBatch(q, jobs[j].vin) /\ q # r
        BY <1>6, <1>10, <1>12, <3>4 DEF Pending
      <4> QED
        BY <1>7, <1>12, <4>1 DEF SInv, OneAtATime
    <3> QED
      BY <3>1, <3>2, <3>3, <3>4 DEF OneAtATime
  <2>2. \A j \in Jobs : JobFits(j)'
    BY <1>4, <1>12, SameJob DEF SInv
  <2>3. \A j \in Jobs : (Running(j)' <=> Running(j)) /\ jobs'[j] = jobs[j]
    BY <1>12 DEF Running, Pending
  <2> QED
    BY <1>4, <1>11, <2>1, <2>2, <2>3, HandlerKeepsSInv
<1>13. CASE CanSubmit(kind, Copy(r, v)) /\ \E j \in Jobs : NextJob(j) /\ Put(j, new)
  <2>1. PICK j \in Jobs : NextJob(j) /\ Put(j, new)
    BY <1>13
  <2>2. /\ jobs[j].at = "none" /\ ~Pending(j) /\ ~Running(j)
        /\ jobs'[j] = new /\ \A i \in Jobs \ {j} : jobs'[i] = jobs[i]
    BY <2>1, Puts DEF NextJob, Pending, Running
  <2>3. new.at = "available" /\ new.kind = kind /\ new.vin = v
    BY <1>3 DEF Available
  <2>4. \A i \in Jobs : /\ Pending(i)' <=> Pending(i) \/ i = j
                        /\ Running(i)' <=> Running(i)
                        /\ Running(i) => i # j
    BY <2>2, <2>3 DEF Pending, Running
  <2>5. OneAtATime'
    <3>1. \A i, k \in Jobs : Pending(i)' /\ Pending(k)' /\ jobs'[i].vin = jobs'[k].vin => i = k
      <4>1. \A i \in Jobs : Pending(i) => jobs[i].vin # v /\ i # j
        BY <1>5, <1>6, <2>2
      <4> QED
        BY <2>2, <2>3, <2>4, <4>1 DEF SInv, OneAtATime
    <3>2. \A p, q \in Requests, w \in Vins : InBatch(p, w)' /\ InBatch(q, w)' => p = q
      BY <1>9 DEF SInv, OneAtATime
    <3>3. \A q \in Requests : \A i, k \in DOMAIN requests'[q].batch :
            requests'[q].batch[i] = requests'[q].batch[k] => i = k
      BY <1>8 DEF SInv, OneAtATime
    <3>4. ASSUME NEW q \in Requests, NEW i \in Jobs, Pending(i)', InBatch(q, jobs[i].vin)'
          PROVE  /\ jobs'[i].at = "available" /\ requests'[q].at = "upsert"
                 /\ jobs'[i].vin = Head(requests'[q].batch)
                 /\ jobs'[i].kind = requests'[q].kind
      <4>1. InBatch(q, jobs'[i].vin)
        BY <1>10, <3>4
      <4>2. CASE i = j
        <5>1. q = r
          BY <1>5, <2>2, <2>3, <4>1, <4>2 DEF SInv, OneAtATime
        <5> QED
          BY <1>1, <1>7, <2>2, <2>3, <4>2, <5>1
      <4>3. CASE i # j
        <5>1. Pending(i) /\ jobs'[i] = jobs[i] /\ InBatch(q, jobs[i].vin) /\ q # r
          BY <1>6, <2>2, <2>4, <3>4, <4>1, <4>3
        <5> QED
          BY <1>7, <5>1 DEF SInv, OneAtATime
      <4> QED
        BY <4>2, <4>3
    <3> QED
      BY <3>1, <3>2, <3>3, <3>4 DEF OneAtATime
  <2>6. RowFits(v)
    BY <1>5, <1>6 DEF SInv, Running
  <2>7. Waiting(new)
    BY <1>2, <1>3, <1>5, <1>13, <2>6, GatedFits
  <2>8. Waiting(jobs[j])'
    BY <1>4, <2>2, <2>7 DEF Waiting
  <2>9. JobFits(j)'
    BY <2>2, <2>3, <2>4, <2>8 DEF JobFits
  <2>10. \A i \in Jobs : JobFits(i)'
    BY <1>4, <2>2, <2>9, SameJob DEF SInv
  <2> QED
    BY <1>4, <1>11, <2>2, <2>4, <2>5, <2>10, HandlerKeepsSInv
<1> QED
  BY <1>1, <1>2, <1>3, <1>12, <1>13 DEF SubmitJob

\* What an upsert makes of a row that no worker has in hand.
LEMMA UpsertFits ==
  ASSUME TypeOK, SInv, NEW r \in Requests, NEW v \in Vins, InBatch(r, v),
         RowFits(v), requests[r].kind \in Kinds,
         NEW new, new = Upsert(vins[v], Copy(r, v))
  PROVE  /\ StatusFits(new) /\ new.veh = vins[v].veh /\ new.sd = vins[v].sd
         /\ \/ new.status = vins[v].status
            \/ /\ ~vins[v].present
               /\ new.status = UnknownStatus(requests[r].kind)
<1>1. PICK row : row = vins[v]
  OBVIOUS
<1>2. PICK copy : copy = Copy(r, v)
  OBVIOUS
<1>3. Alike(requests[r].rows[v], row) /\ StatusFits(row)
  BY <1>1 DEF SInv, CopiesCurrent, RowFits
<1>4. CASE row.present
  <2>1. copy.status = row.status /\ copy.veh = row.veh /\ copy.sd = row.sd
    BY <1>2, <1>3, <1>4 DEF Copy, Alike
  <2>2. new = Update(row, copy, AllColumns)
    BY <1>1, <1>2, <1>4 DEF Upsert
  <2>3. /\ new.present /\ new.status = copy.status
        /\ new.veh = copy.veh /\ new.sd = copy.sd
    BY <1>4, <2>2, Saved
  <2>4. StatusFits(new)
    BY <1>3, <1>4, <2>1, <2>3, Fits
  <2> QED
    BY <1>1, <2>1, <2>3, <2>4
<1>5. CASE ~row.present
  <2>1. new = NewRow(UnknownStatus(requests[r].kind))
    BY <1>1, <1>2, <1>3, <1>5 DEF Copy, Alike, Upsert
  <2>2. /\ new.present /\ new.status = UnknownStatus(requests[r].kind)
        /\ new.veh = 0 /\ new.sd = 0
    BY <2>1 DEF NewRow
  <2>3. UnknownStatus(requests[r].kind) \in {0, 30, 60, 90}
    BY Codes DEF UnknownStatus, Kinds
  <2>4. StatusFits(new)
    BY <2>2, <2>3, Fits
  <2>5. row.veh = 0 /\ row.sd = 0
    BY <1>3, <1>5, Fits
  <2> QED
    BY <1>1, <1>5, <2>2, <2>4, <2>5
<1> QED
  BY <1>4, <1>5

\* Once the upsert is made the request has let go of the VIN.
LEMMA BatchAfterUpsert ==
  ASSUME SInv, NEW r \in Requests, NEW v, NEW batch, batch = requests[r].batch,
         v = batch[1], 1 \in DOMAIN batch, NEW rest, requests'[r].batch = rest,
         \A i \in DOMAIN rest : /\ i + 1 \in DOMAIN batch /\ i + 1 # 1 /\ i \in Nat
                                /\ rest[i] = batch[i + 1]
  PROVE  /\ \A w : InBatch(r, w)' => InBatch(r, w) /\ w # v
         /\ \A i, k \in DOMAIN requests'[r].batch :
              requests'[r].batch[i] = requests'[r].batch[k] => i = k
<1>1. \A i, k \in DOMAIN batch : batch[i] = batch[k] => i = k
  BY DEF SInv, OneAtATime
<1>2. \A i \in DOMAIN rest : rest[i] # v
  BY <1>1
<1>3. \A i, k \in DOMAIN rest : rest[i] = rest[k] => i = k
  BY <1>1
<1>4. ASSUME NEW w, InBatch(r, w)' PROVE InBatch(r, w) /\ w # v
  <2>1. PICK i \in DOMAIN rest : rest[i] = w
    BY <1>4 DEF InBatch
  <2>2. i + 1 \in DOMAIN batch /\ batch[i + 1] = w /\ w # v
    BY <1>2, <2>1
  <2> QED
    BY <2>2 DEF InBatch
<1> QED
  BY <1>3, <1>4

LEMMA UpsertKeepsSInv ==
  ASSUME TypeOK, BatchesLast, SInv, failures' = 0, NEW r \in Requests, UpsertVin(r)
  PROVE  SInv'
<1>1. PICK batch : batch = requests[r].batch
  OBVIOUS
<1>2. PICK v : v = Head(batch)
  OBVIOUS
<1>3. PICK new : new = Upsert(vins[v], Copy(r, v))
  OBVIOUS
<1>4. PICK req : req = IF Len(batch) = 1 THEN NoRequest
                       ELSE [requests[r] EXCEPT !.at = "submit", !.batch = Tail(@)]
  OBVIOUS
<1>5. ~Fail("lostWrite")
  BY DEF Fail, TypeOK
<1>6. /\ requests[r].at = "upsert" /\ UNCHANGED <<jobs, chain, seq, locked>>
      /\ vins' = [vins EXCEPT ![v] = new]
      /\ requests' = [requests EXCEPT ![r] = req]
  BY <1>1, <1>2, <1>3, <1>4, <1>5 DEF UpsertVin
<1>7. /\ batch \in Seq(Vins) /\ batch # <<>> /\ v \in Vins /\ InBatch(r, v)
      /\ requests[r].kind \in Kinds
  BY <1>1, <1>2, <1>6, HeadInBatch
<1>8. \A j \in Jobs : Pending(j) /\ InBatch(r, jobs[j].vin) =>
        jobs[j].at = "available" /\ jobs[j].vin = v /\ jobs[j].kind = requests[r].kind
  BY <1>1, <1>2 DEF SInv, OneAtATime
<1>9. RowFits(v)
  BY <1>7, <1>8 DEF SInv, Running, Pending
<1>10. /\ StatusFits(new) /\ new.veh = vins[v].veh /\ new.sd = vins[v].sd
       /\ \/ new.status = vins[v].status
          \/ /\ ~vins[v].present
             /\ new.status = UnknownStatus(requests[r].kind)
  BY <1>3, <1>7, <1>9, UpsertFits
<1>11. vins'[v] = new /\ \A w \in Vins \ {v} : vins'[w] = vins[w]
  BY <1>6, <1>7 DEF TypeOK
<1>12. /\ req.batch = IF Len(batch) = 1 THEN <<>> ELSE Tail(batch)
       /\ Len(batch) # 1 => req.rows = requests[r].rows
  BY <1>1, <1>4 DEF NoRequest, TypeOK, Request
<1>13. /\ \A w : InBatch(r, w)' => InBatch(r, w) /\ w # v
       /\ \A i, k \in DOMAIN requests'[r].batch :
            requests'[r].batch[i] = requests'[r].batch[k] => i = k
  <2>1. PICK rest : rest = requests'[r].batch
    OBVIOUS
  <2>2. requests'[r] = req
    BY <1>6 DEF TypeOK
  <2>3. rest = IF Len(batch) = 1 THEN <<>> ELSE Tail(batch)
    BY <1>12, <2>1, <2>2, Zenon
  <2>4. /\ v = batch[1] /\ 1 \in DOMAIN batch
        /\ \A i \in DOMAIN rest : /\ i + 1 \in DOMAIN batch /\ i + 1 # 1 /\ i \in Nat
                                  /\ rest[i] = batch[i + 1]
    BY <1>2, <1>7, <2>3
  <2> QED
    BY <1>1, <2>1, <2>4, BatchAfterUpsert
<1>14. requests'[r] = req /\ \A q \in Requests \ {r} : requests'[q] = requests[q]
  BY <1>6 DEF TypeOK
<1>15. \A q \in Requests \ {r} : \A w : InBatch(q, w)' <=> InBatch(q, w)
  BY <1>14 DEF InBatch
<1>16. \A q \in Requests \ {r} : ~InBatch(q, v)
  BY <1>7 DEF SInv, OneAtATime
<1>17. OneAtATime'
  <2>1. \A i, k \in Jobs : Pending(i)' /\ Pending(k)' /\ jobs'[i].vin = jobs'[k].vin => i = k
    BY <1>6 DEF SInv, OneAtATime, Pending
  <2>2. \A p, q \in Requests, w \in Vins : InBatch(p, w)' /\ InBatch(q, w)' => p = q
    <3>1. \A q \in Requests, w \in Vins : InBatch(q, w)' => InBatch(q, w)
      BY <1>13, <1>15
    <3> QED
      BY <3>1 DEF SInv, OneAtATime
  <2>3. \A q \in Requests : \A i, k \in DOMAIN requests'[q].batch :
          requests'[q].batch[i] = requests'[q].batch[k] => i = k
    BY <1>13, <1>14 DEF SInv, OneAtATime
  <2>4. ASSUME NEW q \in Requests, NEW j \in Jobs, Pending(j)', InBatch(q, jobs[j].vin)'
        PROVE  /\ jobs'[j].at = "available" /\ requests'[q].at = "upsert"
               /\ jobs'[j].vin = Head(requests'[q].batch)
               /\ jobs'[j].kind = requests'[q].kind
    <3>1. PICK w : w = jobs[j].vin
      OBVIOUS
    <3>2. InBatch(q, w)' /\ Pending(j)
      BY <1>6, <2>4, <3>1 DEF InBatch, Pending
    <3>3. q # r
      BY <1>8, <1>13, <3>1, <3>2
    <3>4. InBatch(q, jobs[j].vin)
      BY <1>15, <3>1, <3>2, <3>3
    <3> QED
      BY <1>6, <1>14, <3>2, <3>3, <3>4 DEF SInv, OneAtATime
  <2> QED
    BY <2>1, <2>2, <2>3, <2>4 DEF OneAtATime
<1>18. CopiesCurrent'
  <2> SUFFICES ASSUME NEW q \in Requests, NEW w \in Vins, InBatch(q, w)'
               PROVE  Alike(requests'[q].rows[w], vins'[w])
    BY DEF CopiesCurrent, Alike
  <2>1. InBatch(q, w) /\ w # v
    BY <1>13, <1>15, <1>16
  <2>2. Alike(requests[q].rows[w], vins[w])
    BY <2>1 DEF SInv, CopiesCurrent
  <2>3. CASE q = r
    <3>1. Len(batch) # 1
      BY <1>12, <1>14, <2>3 DEF InBatch
    <3> QED
      BY <1>11, <1>12, <1>14, <2>1, <2>2, <2>3, <3>1
  <2>4. CASE q # r
    BY <1>11, <1>14, <2>1, <2>2, <2>4
  <2> QED
    BY <2>3, <2>4
<1>19. ASSUME NEW j \in Jobs PROVE JobFits(j)'
  <2>1. CASE jobs[j].vin # v
    <3>1. CASE Pending(j)
      <4>1. vins'[jobs[j].vin] = vins[jobs[j].vin]
        BY <1>11, <2>1 DEF TypeOK, Job
      <4> QED
        BY <1>6, <4>1, SameJob DEF SInv
    <3>2. CASE ~Pending(j)
      BY <1>6, <3>2 DEF JobFits, Running, Pending
    <3> QED
      BY <3>1, <3>2
  <2>2. CASE ~Pending(j)
    BY <1>6, <2>2 DEF JobFits, Running, Pending
  <2>3. CASE jobs[j].vin = v /\ Pending(j)
    <3>1. jobs[j].at = "available" /\ jobs[j].kind = requests[r].kind
      BY <1>7, <1>8, <2>3
    <3>2. Waiting(jobs[j])
      BY <3>1 DEF SInv, JobFits
    <3>3. jobs[j].kind = "verify" => ~IsVerified(new.status)
      <4> SUFFICES ASSUME jobs[j].kind = "verify" PROVE ~IsVerified(new.status)
        OBVIOUS
      <4>1. CASE new.status = vins[v].status
        BY <2>3, <3>2, <4>1 DEF Waiting
      <4>2. CASE new.status = UnknownStatus("verify")
        BY <4>2, Codes DEF UnknownStatus, IsVerified
      <4> QED
        BY <1>10, <3>1, <4>1, <4>2
    <3>4. Waiting(jobs[j])'
      BY <1>6, <1>10, <1>11, <2>3, <3>2, <3>3 DEF Waiting
    <3> QED
      BY <1>6, <3>1, <3>4 DEF JobFits, Running
  <2> QED
    BY <2>1, <2>2, <2>3
<1>20. \A j \in Jobs : (Running(j)' <=> Running(j)) /\ jobs'[j] = jobs[j]
  BY <1>6 DEF Running, Pending
<1>21. \A w \in Vins : \/ vins'[w] = vins[w]
                       \/ /\ StatusFits(vins'[w])
                          /\ vins'[w].veh = vins[w].veh /\ vins'[w].sd = vins[w].sd
  BY <1>10, <1>11
<1> QED
  BY <1>6, <1>17, <1>18, <1>19, <1>20, <1>21, HandlerKeepsSInv

-----------------------------------------------------------------------------
(* The invariant.                                                          *)

\* A failure is never taken back.
LEMMA FailuresLast ==
  ASSUME TypeOK, [Next]_vars, failures' = 0
  PROVE  failures = 0
<1> SUFFICES ASSUME failures # 0 PROVE FALSE
  OBVIOUS
<1>1. failures \in Nat /\ failures' # failures /\ failures' # failures + 1
  BY DEF TypeOK
<1>2. \A kind : ~Fail(kind)
  BY <1>1 DEF Fail
<1>3. \A j, rec, columns : ~Save(j, rec, columns)
  BY <1>1, <1>2 DEF Save
<1>4. \A j \in Jobs : ~VerifyStep(j)
  BY <1>1, <1>2, <1>3 DEF VerifyStep, StartVerify, StartOrEnd, Start, InsertVinRecord,
     StartDecode, DecodeVin, Validate
<1>5. \A j \in Jobs : ~OnboardStep(j)
  BY <1>1, <1>2, <1>3 DEF OnboardStep, StartOnboard, StartOrEnd, Start, ConnectToVendor,
     SaveConnect, TakeWalletIndex, MintVehicleWithSD, MintSD, SaveMintedVehicle,
     SaveMintedSD, FinishOnboard
<1>6. \A j \in Jobs : ~BurnStep(j)
  BY <1>1, <1>2, <1>3 DEF BurnStep, StartDisconnect, StartDelete, StartOrEnd, Start,
     DisconnectFromVendor, SaveDisconnect, Lock, SendBurnOperation, UnlockBurn,
     UnlockTwice, Unlock, SaveBurn
<1>7. \A j \in Jobs : ~FatalUnlock(j)
  BY <1>1 DEF FatalUnlock
<1>8. \A r \in Requests : ~BeginRequest(r) /\ ~HandlerStep(r)
  BY <1>1, <1>2 DEF BeginRequest, HandlerStep, RereadMinted, SubmitJob, UpsertVin
<1>9. ~Crash /\ ~ReadFails /\ ~UNCHANGED vars
  BY <1>1, <1>2 DEF Crash, ReadFails, WorkerReadFails, HandlerReadFails, vars
<1> QED
  BY <1>4, <1>5, <1>6, <1>7, <1>8, <1>9 DEF Next, WorkerStep

LEMMA StutterKeepsSInv ==
  ASSUME TypeOK, SInv, UNCHANGED vars
  PROVE  SInv'
<1>1. /\ vins' = vins /\ jobs' = jobs /\ requests' = requests
      /\ UNCHANGED <<chain, seq, locked>>
  BY DEF vars, chain
<1>2. OneAtATime'
  BY <1>1 DEF SInv, OneAtATime, Pending, InBatch
<1>3. CopiesCurrent'
  BY <1>1 DEF SInv, CopiesCurrent, InBatch, Alike
<1>4. \A j \in Jobs : JobFits(j)'
  BY <1>1, SameJob DEF SInv
<1>5. \A j \in Jobs : (Running(j)' <=> Running(j)) /\ jobs'[j] = jobs[j]
  BY <1>1 DEF Running, Pending
<1> QED
  BY <1>1, <1>2, <1>3, <1>4, <1>5, HandlerKeepsSInv

LEMMA NextSInv ==
  ASSUME SerialClients, IInv, SInv, [Next]_vars, failures' = 0
  PROVE  SInv'
<1>1. TypeOK /\ BurnersBurn /\ BatchesLast
  BY DEF IInv
<1>2. ASSUME NEW j \in Jobs, WorkerStep(j) PROVE SInv'
  BY <1>1, <1>2, VerifyKeepsSInv, OnboardKeepsSInv, BurnKeepsSInv, NeverFatal
     DEF WorkerStep
<1>3. ASSUME NEW r \in Requests, BeginRequest(r) \/ HandlerStep(r) PROVE SInv'
  BY <1>1, <1>3, BeginKeepsSInv, RereadKeepsSInv, SubmitKeepsSInv, UpsertKeepsSInv
     DEF HandlerStep
<1>4. ~Crash /\ ~ReadFails
  BY <1>1, FailsNot DEF Crash, ReadFails, WorkerReadFails, HandlerReadFails
<1>5. CASE UNCHANGED vars
  BY <1>1, <1>5, StutterKeepsSInv
<1> QED
  BY <1>2, <1>3, <1>4, <1>5 DEF Next

LEMMA InitSInv == Init => SInv
<1> SUFFICES ASSUME Init PROVE SInv
  OBVIOUS
<1> USE DEF Init
<1>1. /\ Minted \in Seq(Vins) /\ Len(Minted) \in Nat
      /\ DOMAIN Minted = 1..Len(Minted)
  BY InputAssumption
<1>2. \A i, k \in DOMAIN Minted : Minted[i] = Minted[k] => i = k
  BY InputAssumption
<1>3. \A i \in DOMAIN Minted : i \in Nat \ {0} /\ i < Len(Minted) + 1
  BY <1>1
<1>4. /\ \A id : LiveVehicle(id) <=> id \in DOMAIN Minted
      /\ \A id : LiveSD(id) <=> id \in DOMAIN Minted
  <2>1. \A i \in DOMAIN Minted :
          /\ [id |-> i, vin |-> Minted[i]] \in vehicles
          /\ [id |-> i, vehicle |-> i, wallet |-> i, vin |-> Minted[i]] \in sds
    OBVIOUS
  <2>2. /\ \A i \in DOMAIN Minted : \E x \in vehicles : x.id = i
        /\ \A i \in DOMAIN Minted : \E x \in sds : x.id = i
    BY <2>1
  <2>3. /\ \A x \in vehicles : x.id \in DOMAIN Minted
        /\ \A x \in sds : x.id \in DOMAIN Minted
    OBVIOUS
  <2> QED
    BY <2>2, <2>3 DEF LiveVehicle, LiveSD
<1>5. ChainFits
  BY <1>1, <1>3, <1>4 DEF ChainFits
<1>6. \A j \in Jobs : ~Pending(j) /\ ~Running(j) /\ ~InBurn(j) /\ jobs[j].at = "none"
  BY IdleJobs DEF Pending, Running, InBurn
<1>7. \A r \in Requests : requests[r].batch = <<>> /\ \A v : ~InBatch(r, v)
  BY DEF NoRequest, InBatch
<1>8. OneAtATime /\ CopiesCurrent /\ BurnsLocked
  BY <1>6, <1>7 DEF OneAtATime, CopiesCurrent, BurnsLocked, OneBurnAtATime
<1>9. \A j \in Jobs : JobFits(j)
  BY <1>6 DEF JobFits
<1>10. ASSUME NEW v \in Vins PROVE RowFits(v)
  <2>1. PICK row : row = StartRow(v)
    OBVIOUS
  <2>2. CASE \E i \in DOMAIN Minted : Minted[i] = v
    <3>1. PICK i : i = MintIndex(v)
      OBVIOUS
    <3>2. i \in DOMAIN Minted /\ Minted[i] = v /\ row = MintedRow(i)
      BY <2>1, <2>2, <3>1 DEF StartRow, MintIndex
    <3>3. row.veh = i /\ row.sd = i /\ row.status = 53 /\ row.present
      BY <3>2, Codes DEF MintedRow, VerifiedRow, NewRow
    <3>4. /\ \A x \in vehicles : x.vin = v => x.id = i
          /\ \A x \in sds : x.vin = v => x.id = i
      BY <1>2, <3>2
    <3>5. Names(v, row)
      BY <1>4, <3>2, <3>3, <3>4 DEF Names
    <3>6. StatusFits(row)
      <4>1. row.veh # 0 /\ row.sd # 0
        BY <1>3, <3>2, <3>3
      <4> QED
        BY <3>3, <4>1, Fits
    <3> QED
      BY <2>1, <3>5, <3>6 DEF RowFits
  <2>3. CASE ~\E i \in DOMAIN Minted : Minted[i] = v
    <3>1. row \in {VerifiedRow, NoRow}
      BY <2>1, <2>3 DEF StartRow
    <3>2. /\ row.veh = 0 /\ row.sd = 0
          /\ row.status = 23 \/ row.status = 0
          /\ ~row.present => row.status = 0
      BY <3>1, Codes DEF VerifiedRow, NewRow, NoRow
    <3>3. Names(v, row)
      BY <2>3, <3>2 DEF Names
    <3>4. StatusFits(row)
      BY <3>2, Fits
    <3> QED
      BY <2>1, <3>3, <3>4 DEF RowFits
  <2> QED
    BY <2>2, <2>3
<1> QED
  BY <1>5, <1>8, <1>9, <1>10 DEF SInv

\* Until something fails, each VIN is in one pair of hands, and at each place
\* of a worker its row, the worker's copy, the status and the live tokens are
\* related as SerialInvariant says.
THEOREM SerialInvariantHolds ==
  ASSUME SerialClients
  PROVE  Spec => []SerialInv
<1>1. Init => SerialInv
  BY InitSInv DEF SerialInv
<1>2. IInv /\ SerialInv /\ [Next]_vars => SerialInv'
  BY FailuresLast, NextSInv DEF SerialInv, IInv
<1> QED
  BY <1>1, <1>2, InvariantHolds, PTL DEF Spec

-----------------------------------------------------------------------------
(* VINs at rest.                                                           *)

LEMMA AtRestFits ==
  ASSUME SInv, NEW v \in Vins, AtRest(v)
  PROVE  RowFits(v)
  BY DEF SInv, AtRest, Running

\* While nothing fails the table tells the truth about the chain: the tokens
\* that live for a VIN at rest are those of its row, whichever handlers
\* (service/vehicle.go:251) and workers wrote it, and whatever the vendor, the
\* decoder and the chain refused.
THEOREM RowsAreTrue ==
  ASSUME SerialClients
  PROVE  Spec => [](failures = 0 => RowsMatchTheChain)
<1>1. SerialInv => (failures = 0 => RowsMatchTheChain)
  BY AtRestFits DEF SerialInv, RowsMatchTheChain, RowFits, Names
<1> QED
  BY <1>1, SerialInvariantHolds, PTL

LEMMA FittingStatuses ==
  ASSUME NEW row, StatusFits(row)
  PROVE  /\ GetMintStatusForVins(row) = "Success" => row.veh # 0 /\ row.sd # 0
         /\ GetDisconnectStatusForVins(row) = "Success" => row.veh # 0 /\ row.sd = 0
         /\ GetDeleteStatusForVins(row) = "Success" => row.veh = 0 /\ row.sd = 0
         /\ row.status \in {OnboardingStatusDisconnectFailure,
                            OnboardingStatusBurnSDFailure} => row.sd # 0
         /\ row.status = OnboardingStatusBurnVehicleFailure
              => row.veh # 0 /\ row.sd = 0
<1>1. GetMintStatusForVins(row) = "Success" => row.status = 53
  BY Codes DEF GetMintStatusForVins, IfKnown, GetMintStatus, StatusText
<1>2. GetDisconnectStatusForVins(row) = "Success" => row.status = 83
  BY Codes DEF GetDisconnectStatusForVins, IfKnown, GetDisconnectStatus, StatusText
<1>3. GetDeleteStatusForVins(row) = "Success" => row.status = 103
  BY Codes DEF GetDeleteStatusForVins, IfKnown, GetBurnStatus, StatusText
<1> QED
  BY <1>1, <1>2, <1>3, Fits, Codes

\* While nothing fails, the answers of the four status handlers, and the
\* status alone, say which tokens the row of a VIN at rest has.
THEOREM StatusesTell ==
  ASSUME SerialClients
  PROVE  Spec => [](failures = 0 => StatusTellsTokens)
<1>1. SerialInv => (failures = 0 => StatusTellsTokens)
  BY AtRestFits, FittingStatuses DEF SerialInv, StatusTellsTokens, RowFits
<1> QED
  BY <1>1, SerialInvariantHolds, PTL

\* What the identity API answers for the vehicle of a row that is at rest.
LEMMA IdentityAgrees ==
  ASSUME IInv, SInv, NEW v \in Vins, RowFits(v), vins[v].veh # 0
  PROVE  /\ LiveVehicle(vins[v].veh)
         /\ vins[v].sd = 0 => IdentitySDs(vins[v].veh) = {}
         /\ vins[v].sd # 0 => IdentitySDs(vins[v].veh) = {vins[v].sd}
<1>1. PICK row : row = vins[v]
  OBVIOUS
<1>2. Names(v, row) /\ Sound(v, row, vehicles, sds)
  BY <1>1 DEF RowFits, IInv, RowsSound
<1>3. [id |-> row.veh, vin |-> v] \in vehicles
  BY <1>1, <1>2 DEF Sound
<1>4. LiveVehicle(row.veh)
  BY <1>2, <1>3 DEF Names
<1>5. \A x \in vehicles : x.id = row.veh => x.vin = v
  BY <1>3 DEF IInv, TokensFresh
<1>6. ASSUME NEW x \in sds, x.vehicle = row.veh, LiveSD(x.id)
      PROVE  row.sd = x.id /\ row.sd # 0
  <2>1. [id |-> x.vehicle, vin |-> x.vin] \in vehicles /\ x.id # 0
    BY DEF SInv, ChainFits
  <2>2. x.vin = v
    BY <1>5, <1>6, <2>1
  <2> QED
    BY <1>2, <1>6, <2>1, <2>2 DEF Names
<1>7. ASSUME row.sd # 0
      PROVE  \E x \in sds : x.vehicle = row.veh /\ LiveSD(x.id) /\ x.id = row.sd
  <2>1. PICK x \in sds : x.id = row.sd /\ x.vin = v
    BY <1>2, <1>7 DEF Sound
  <2>2. LiveSD(x.id)
    BY <1>2, <2>1 DEF Names
  <2>3. [id |-> x.vehicle, vin |-> v] \in vehicles /\ LiveVehicle(x.vehicle)
    BY <2>1, <2>2 DEF SInv, ChainFits
  <2>4. x.vehicle = row.veh
    BY <1>2, <2>3 DEF Names
  <2> QED
    BY <2>1, <2>2, <2>4
<1> QED
  BY <1>1, <1>4, <1>6, <1>7 DEF IdentitySDs

LEMMA FittingRowsAreNotStranded ==
  ASSUME IInv, SInv, NEW v \in Vins, RowFits(v), vins[v].status \notin DeadEnds
  PROVE  \E k \in Kinds : /\ SignatureOffered(k, vins[v])
                          /\ CanSubmit(k, vins[v])
                          /\ Runs(k, vins[v])
<1>1. PICK row : row = vins[v]
  OBVIOUS
<1>2. /\ row.status \in {0, 12, 22, 23, 30, 103, 83, 53, 72, 82, 42, 52}
      /\ row.veh = 0 => row.sd = 0
      /\ row.status \in {23, 30, 103} => row.veh = 0
      /\ row.status = 83 => row.veh # 0 /\ row.sd = 0
      /\ row.status \in {53, 72, 82} => row.sd # 0
      /\ row.status = 52 => row.sd = 0
      /\ row.status # 0 => row.present
  BY <1>1, Fits, Codes DEF RowFits, DeadEnds
<1>3. CASE row.status \in {0, 12, 22}
  <2>1. SignatureOffered("verify", row)
    BY DEF SignatureOffered
  <2>2. canSubmitVerificationJob(row.status)
    BY <1>3, Codes DEF canSubmitVerificationJob, IsVerified, IsFailure, IsPending
  <2>3. CanSubmit("verify", row) /\ Runs("verify", row)
    BY <1>3, <2>2, Codes DEF CanSubmit, Runs
  <2> QED
    BY <1>1, <2>1, <2>3 DEF Kinds
<1>4. CASE row.status \in {23, 30, 42, 52, 103}
  <2>1. (row.veh # 0 /\ row.sd # 0) \/ MintDataOffered(row)
    BY <1>2, <1>4, Codes
    DEF MintDataOffered, GetVehiclesByVinsAndOnboardingStatusRange
  <2>2. SignatureOffered("onboard", row)
    BY <2>1 DEF SignatureOffered
  <2>3. /\ canSubmitMintingJob(row.status, row.conn)
        /\ IsVerified(row.status) /\ ~IsMinted(row.status)
    BY <1>4, Codes DEF canSubmitMintingJob, IsMinted, IsMintPending,
       IsDisconnectPending, IsFailure, IsDisconnected, IsVerified
  <2>4. CanSubmit("onboard", row) /\ Runs("onboard", row)
    BY <1>2, <1>4, <2>3 DEF CanSubmit, Runs
  <2> QED
    BY <1>1, <2>2, <2>4 DEF Kinds
<1>5. CASE row.status \in {53, 72, 82}
  <2>1. DisconnectDataOffered(row)
    BY <1>1, <1>2, <1>5, IdentityAgrees, Codes
    DEF DisconnectDataOffered, GetVehiclesByVinsAndOnboardingStatusRange
  <2>2. SignatureOffered("disconnect", row)
    BY <2>1 DEF SignatureOffered
  <2>3. canSubmitDisconnectJob(row.status) /\ ~IsDisconnected(row.status)
    BY <1>5, Codes DEF canSubmitDisconnectJob, IsMinted, IsDisconnectFailed,
       IsDisconnectPending, IsFailure, IsDisconnected
  <2>4. CanSubmit("disconnect", row) /\ Runs("disconnect", row)
    BY <1>2, <1>5, <2>3, Codes DEF CanSubmit, Runs
  <2> QED
    BY <1>1, <2>2, <2>4 DEF Kinds
<1>6. CASE row.status = 83
  <2>1. DeleteDataOffered(row)
    BY <1>1, <1>2, <1>6, IdentityAgrees, Codes
    DEF DeleteDataOffered, GetVehiclesByVinsAndOnboardingStatusRange
  <2>2. SignatureOffered("delete", row)
    BY <2>1 DEF SignatureOffered
  <2>3. canSubmitDeleteJob(row.status)
    BY <1>6, Codes DEF canSubmitDeleteJob, IsDisconnected, IsBurnPending
  <2>4. CanSubmit("delete", row) /\ Runs("delete", row)
    BY <1>2, <1>6, <2>3, Codes DEF CanSubmit, Runs
  <2> QED
    BY <1>1, <2>2, <2>4 DEF Kinds
<1> QED
  BY <1>2, <1>3, <1>4, <1>5, <1>6

\* While nothing fails, for a VIN at rest in any status but the dead ends some
\* kind of job has its data handed out, is accepted and does something: the
\* ranges of the data handlers, the gates and the early returns of the workers
\* agree.
THEOREM NoneStranded ==
  ASSUME SerialClients
  PROVE  Spec => [](failures = 0 => NeverStranded)
<1>1. IInv /\ SerialInv => (failures = 0 => NeverStranded)
  BY AtRestFits, FittingRowsAreNotStranded DEF SerialInv, NeverStranded
<1> QED
  BY <1>1, InvariantHolds, SerialInvariantHolds, PTL

-----------------------------------------------------------------------------
(* Answers.                                                                *)

\* The statuses a job may end with are final answers for its kind.
LEMMA FinalStatuses ==
  ASSUME NEW row, row.present, NEW kind,
         \/ kind = "verify" /\ row.status \in {12, 22, 23}
         \/ kind = "onboard" /\ row.status \in {42, 52, 53}
         \/ kind = "disconnect" /\ row.status \in {72, 82, 83}
         \/ kind = "delete" /\ row.status \in {102, 103}
  PROVE  StatusFor(kind, row) \in {"Success", "Failure"}
<1>1. CASE kind = "verify" /\ row.status \in {12, 22, 23}
  <2>1. GetVerificationStatusForVins(row) \in {"Success", "Failure"}
    BY <1>1, Codes DEF GetVerificationStatusForVins, IfKnown, GetVerificationStatus,
       StatusText, IsVerified, IsFailure
  <2> QED
    BY <1>1, <2>1 DEF StatusFor
<1>2. CASE kind = "onboard" /\ row.status \in {42, 52, 53}
  <2>1. GetMintStatusForVins(row) \in {"Success", "Failure"}
    BY <1>2, Codes DEF GetMintStatusForVins, IfKnown, GetMintStatus, StatusText, IsFailure
  <2> QED
    BY <1>2, <2>1 DEF StatusFor
<1>3. CASE kind = "disconnect" /\ row.status \in {72, 82, 83}
  <2>1. GetDisconnectStatusForVins(row) \in {"Success", "Failure"}
    BY <1>3, Codes DEF GetDisconnectStatusForVins, IfKnown, GetDisconnectStatus,
       StatusText, IsFailure
  <2> QED
    BY <1>3, <2>1 DEF StatusFor
<1>4. CASE kind = "delete" /\ row.status \in {102, 103}
  <2>1. GetDeleteStatusForVins(row) \in {"Success", "Failure"}
    BY <1>4, Codes DEF GetDeleteStatusForVins, IfKnown, GetBurnStatus, StatusText, IsFailure
  <2> QED
    BY <1>4, <2>1 DEF StatusFor
<1> QED
  BY <1>1, <1>2, <1>3, <1>4

\* Nobody but its own worker moves a job that runs.
LEMMA OwnWorkerOnly ==
  ASSUME TypeOK, SInv, BurnersBurn, failures' = 0, [Next]_vars, NEW j \in Jobs, Running(j),
         jobs'[j] # jobs[j]
  PROVE  VerifyStep(j) \/ OnboardStep(j) \/ BurnStep(j)
<1>1. \A i \in Jobs \ {j} : \A job : ~Put(i, job)
  BY Puts
<1>2. \A i \in Jobs \ {j} : \A place, rec : ~Move(i, place, rec)
  BY <1>1 DEF Move
<1>3. ASSUME NEW i \in Jobs \ {j}
      PROVE  ~VerifyStep(i) /\ ~OnboardStep(i) /\ ~BurnStep(i)
  <2>1. ~VerifyStep(i)
    BY <1>1, <1>2 DEF VerifyStep, StartVerify, StartOrEnd, InsertVinRecord, StartDecode,
       DecodeVin, Validate
  <2>2. ~MintFailed(i)
    BY <1>2 DEF MintFailed
  <2>3. ~OnboardStep(i)
    BY <1>1, <1>2, <2>2 DEF OnboardStep, StartOnboard, StartOrEnd, ConnectToVendor,
       SaveConnect, TakeWalletIndex, MintVehicleWithSD, MintSD, SaveMintedVehicle,
       SaveMintedSD, FinishOnboard
  <2>4. ~BurnStep(i)
    BY <1>1, <1>2 DEF BurnStep, StartDisconnect, StartDelete, StartOrEnd,
       DisconnectFromVendor, SaveDisconnect, Lock, SendBurnOperation, UnlockBurn,
       UnlockTwice, Unlock, SaveBurn
  <2> QED
    BY <2>1, <2>3, <2>4
<1>4. \A i \in Jobs : ~FatalUnlock(i)
  BY NeverFatal
<1>5. ASSUME NEW r \in Requests PROVE ~BeginRequest(r) /\ ~HandlerStep(r)
  <2>1. ~(\E i \in Jobs : NextJob(i) /\ \E job : Put(i, job))
    BY <1>1 DEF NextJob, Running, Pending
  <2> QED
    BY <2>1 DEF BeginRequest, HandlerStep, RereadMinted, SubmitJob, UpsertVin
<1>6. ~Crash /\ ~ReadFails
  BY FailsNot DEF Crash, ReadFails, WorkerReadFails, HandlerReadFails
<1> QED
  BY <1>3, <1>4, <1>5, <1>6 DEF Next, WorkerStep, vars

LEMMA VerifyEnds ==
  ASSUME TypeOK, SInv, failures' = 0, NEW j \in Jobs, Running(j), VerifyStep(j),
         jobs'[j].at = "ended", NEW v, v = jobs[j].vin
  PROVE  StatusFor(jobs[j].kind, vins'[v]) \in {"Success", "Failure"}
<1>1. /\ Working(jobs[j]) /\ v \in Vins
      /\ jobs[j].at # "available"
  BY Alone DEF Running
<1>2. ~StartVerify(j)
  BY <1>1 DEF StartVerify, StartOrEnd, Start
<1>3. \A place, rec : Move(j, place, rec) => place = "ended"
  BY Moves
<1>4. ~InsertVinRecord(j)
  BY <1>1, <1>3, FailsNot, Verifying DEF InsertVinRecord, VerifyPlaces
<1>5. ~StartDecode(j)
  BY <1>3 DEF StartDecode
<1>6. /\ jobs[j].at \in {"decoding", "validate"}
      /\ \E rec : /\ Save(j, rec, AllColumns)
                  /\ \E status : /\ rec = [jobs[j].record EXCEPT !.status = status]
                                 /\ status \in {12, 22, 23}
  <2>1. CASE DecodeVin(j)
    BY <1>3, <2>1, Codes DEF DecodeVin
  <2>2. CASE Validate(j)
    BY <2>2, Codes DEF Validate
  <2> QED
    BY <1>2, <1>4, <1>5, <2>1, <2>2 DEF VerifyStep
<1>7. PICK rec : Save(j, rec, AllColumns) /\ rec.status \in {12, 22, 23}
  BY <1>6, OtherStatus
<1>8. jobs[j].kind = "verify" /\ vins[v].present
  BY <1>1, <1>6, Verifying DEF VerifyPlaces
<1>9. vins'[v].present /\ vins'[v].status = rec.status
  BY <1>7, <1>8, SaveSaves, Saved
<1> QED
  BY <1>7, <1>8, <1>9, FinalStatuses

LEMMA OnboardStepEnds ==
  ASSUME TypeOK, SInv, failures' = 0, NEW j \in Jobs, Running(j), OnboardStep(j),
         jobs'[j].at = "ended", NEW v, v = jobs[j].vin
  PROVE  StatusFor(jobs[j].kind, vins'[v]) \in {"Success", "Failure"}
<1>1. /\ Working(jobs[j]) /\ v \in Vins
      /\ jobs[j].at # "available" /\ jobs[j] \in Job
  BY Alone DEF Running, TypeOK
<1>2. PICK rec : rec = jobs[j].record
  OBVIOUS
<1>3. \A place, copy : Move(j, place, copy) => place = "ended"
  BY Moves
<1>4. ~StartOnboard(j)
  BY <1>1 DEF StartOnboard, StartOrEnd, Start
<1>5. ~MintFailed(j)
  BY <1>3 DEF MintFailed, SavePlace
<1>6. ~ConnectToVendor(j) /\ ~MintVehicleWithSD(j) /\ ~MintSD(j)
  <2>1. ~Fail("lostAnswer")
    BY DEF Fail, TypeOK
  <2> QED
    BY <1>3, <1>5, <2>1 DEF ConnectToVendor, MintVehicleWithSD, MintSD
<1>7. ~TakeWalletIndex(j)
  <2>1. [jobs[j] EXCEPT !.at = "mint", !.index = NextWalletIndex].at = "mint"
    BY <1>1 DEF Job
  <2> QED
    BY <1>5, <2>1, Puts DEF TakeWalletIndex
<1>8. CASE SaveConnect(j)
  <2>1. /\ jobs[j].at = "saveConnect" /\ Save(j, rec, StatusColumn) /\ rec.status = 42
    BY <1>2, <1>3, <1>8, Codes DEF SaveConnect
  <2>2. jobs[j].kind = "onboard" /\ vins[v].present
    BY <1>1, <2>1, Onboarders DEF OnboardPlaces
  <2>3. vins'[v].present /\ vins'[v].status = 42
    BY <2>1, <2>2, SaveSaves, Saved
  <2> QED
    BY <2>2, <2>3, FinalStatuses
<1>9. CASE SaveMintedVehicle(j) \/ SaveMintedSD(j)
  <2>1. PICK columns \in {VehicleSDColumns, SDColumns} :
          jobs[j].at \in {"saveVehicle", "saveSD"} /\ Save(j, rec, columns)
    BY <1>2, <1>9 DEF SaveMintedVehicle, SaveMintedSD
  <2>2. jobs[j].kind = "onboard" /\ vins[v].present /\ rec.status \in {52, 53}
    BY <1>1, <1>2, <2>1, Onboarders, Codes DEF OnboardPlaces, OnboardFits
  <2>3. vins'[v].present /\ vins'[v].status = rec.status
    BY <2>1, <2>2, SaveSaves, Saved
  <2> QED
    BY <2>2, <2>3, FinalStatuses
<1>10. CASE FinishOnboard(j)
  <2>1. PICK new : new = [rec EXCEPT !.status = OnboardingStatusMintSuccess]
    OBVIOUS
  <2>2. jobs[j].at = "finish" /\ Save(j, new, StatusColumn)
    BY <1>2, <1>10, <2>1 DEF FinishOnboard
  <2>3. new.status = 53
    BY <1>2, <2>1, OtherStatus, Codes
  <2>4. jobs[j].kind = "onboard" /\ vins[v].present
    BY <1>1, <2>2, Onboarders DEF OnboardPlaces
  <2>5. vins'[v].present /\ vins'[v].status = 53
    BY <2>2, <2>3, <2>4, SaveSaves, Saved
  <2> QED
    BY <2>4, <2>5, FinalStatuses
<1> QED
  BY <1>4, <1>6, <1>7, <1>8, <1>9, <1>10 DEF OnboardStep

LEMMA BurnStepEnds ==
  ASSUME TypeOK, SInv, BurnersBurn, failures' = 0, NEW j \in Jobs, Running(j), BurnStep(j),
         jobs'[j].at = "ended", NEW v, v = jobs[j].vin
  PROVE  StatusFor(jobs[j].kind, vins'[v]) \in {"Success", "Failure"}
<1>1. v \in Vins /\ jobs[j].at # "available"
  BY Alone DEF Running
<1>2. PICK rec : rec = jobs[j].record
  OBVIOUS
<1>3. \A place, copy : Move(j, place, copy) => place = "ended"
  BY Moves
<1>4. ~StartDisconnect(j) /\ ~StartDelete(j)
  BY <1>1 DEF StartDisconnect, StartDelete, StartOrEnd, Start
<1>5. /\ ~DisconnectFromVendor(j) /\ ~Lock(j) /\ ~SendBurnOperation(j)
      /\ ~UnlockBurn(j) /\ ~UnlockTwice(j)
  BY <1>3 DEF DisconnectFromVendor, Lock, SendBurnOperation, UnlockBurn, UnlockTwice, Unlock
<1>6. CASE SaveDisconnect(j)
  <2>1. jobs[j].at = "saveDisconnect" /\ Save(j, rec, StatusColumn)
    BY <1>2, <1>6 DEF SaveDisconnect
  <2>2. jobs[j].at \in BurnPlaces /\ jobs[j].at \notin Behind
    BY <2>1 DEF BurnPlaces, Behind
  <2>3. /\ jobs[j].kind = "disconnect" /\ vins[v].present
        /\ rec.status \in {72, 73} /\ rec.sd # 0
    BY <1>2, <2>1, <2>2, Burners, Codes DEF DisconnectFits, DeleteFits, BurnKinds, Behind
  <2>4. rec.status = 72
    BY <1>2, <1>3, <1>6, <2>3, Codes DEF SaveDisconnect
  <2>5. vins'[v].present /\ vins'[v].status = 72
    BY <2>1, <2>3, <2>4, SaveSaves, Saved
  <2> QED
    BY <2>3, <2>5, FinalStatuses
<1>7. CASE SaveBurn(j)
  <2>1. PICK columns \in {SDColumns, VehicleColumns} :
          jobs[j].at = "saveBurn" /\ Save(j, rec, columns)
    BY <1>2, <1>7 DEF SaveBurn
  <2>2. jobs[j].at \in BurnPlaces /\ jobs[j].at \in Behind
    BY <2>1 DEF BurnPlaces, Behind
  <2>3. /\ vins[v].present
        /\ \/ jobs[j].kind = "disconnect" /\ rec.status \in {82, 83}
           \/ jobs[j].kind = "delete" /\ rec.status \in {102, 103}
    BY <1>2, <2>2, Burners, Codes DEF DisconnectFits, DeleteFits, BurnKinds
  <2>4. vins'[v].present /\ vins'[v].status = rec.status
    BY <2>1, <2>3, SaveSaves, Saved
  <2> QED
    BY <2>3, <2>4, FinalStatuses
<1> QED
  BY <1>4, <1>5, <1>6, <1>7 DEF BurnStep

\* Without failures in the environment none is ever counted.
LEMMA NoFailingStep ==
  ASSUME Failures = {}, failures = 0, [Next]_vars
  PROVE  failures' = 0
<1>1. \A kind : ~Fail(kind)
  BY DEF Fail
<1>2. \A j, rec, columns : Save(j, rec, columns) => failures' = failures
  BY <1>1 DEF Save
<1>3. \A j \in Jobs : VerifyStep(j) => failures' = failures
  BY <1>1, <1>2 DEF VerifyStep, StartVerify, StartOrEnd, Start, InsertVinRecord,
     StartDecode, DecodeVin, Validate
<1>4. \A j \in Jobs : OnboardStep(j) => failures' = failures
  BY <1>1, <1>2 DEF OnboardStep, StartOnboard, StartOrEnd, Start, ConnectToVendor,
     SaveConnect, TakeWalletIndex, MintVehicleWithSD, MintSD, SaveMintedVehicle,
     SaveMintedSD, FinishOnboard
<1>5. \A j \in Jobs : BurnStep(j) => failures' = failures
  BY <1>1, <1>2 DEF BurnStep, StartDisconnect, StartDelete, StartOrEnd, Start,
     DisconnectFromVendor, SaveDisconnect, Lock, SendBurnOperation, UnlockBurn,
     UnlockTwice, Unlock, SaveBurn
<1>6. \A j \in Jobs : FatalUnlock(j) => failures' = failures
  BY DEF FatalUnlock
<1>7. \A r \in Requests : BeginRequest(r) \/ HandlerStep(r) => failures' = failures
  BY <1>1 DEF BeginRequest, HandlerStep, RereadMinted, SubmitJob, UpsertVin
<1>8. ~Crash /\ ~ReadFails
  BY <1>1 DEF Crash, ReadFails, WorkerReadFails, HandlerReadFails
<1> QED
  BY <1>3, <1>4, <1>5, <1>6, <1>7, <1>8 DEF Next, WorkerStep, vars

LEMMA NoFailures ==
  ASSUME Failures = {}
  PROVE  Spec => [](failures = 0)
<1> DEFINE Calm == failures = 0
<1>1. Init => Calm
  BY DEF Init
<1>2. ASSUME Calm, [Next]_vars PROVE Calm'
  BY <1>2, NoFailingStep
<1>3. Spec => []Calm
  <2> HIDE DEF Calm
  <2> QED
    BY <1>1, <1>2, PTL DEF Spec
<1> QED
  BY <1>3

\* Where nothing fails, whichever of its exits a worker leaves Work by, the
\* last save it made has a status that the client's poll takes for an answer.
THEOREM JobsAreAnswered ==
  ASSUME SerialClients, Failures = {}
  PROVE  Spec => EndedJobsAreAnswered
<1> DEFINE Answered(j) ==
      Running(j) /\ jobs'[j].at = "ended" =>
        StatusFor(jobs[j].kind, vins'[jobs[j].vin]) \in {"Success", "Failure"}
<1>1. ASSUME IInv, SInv, failures' = 0, [Next]_vars, NEW j \in Jobs PROVE Answered(j)
  <2> SUFFICES ASSUME Running(j), jobs'[j].at = "ended"
               PROVE  StatusFor(jobs[j].kind, vins'[jobs[j].vin]) \in {"Success", "Failure"}
    OBVIOUS
  <2>1. TypeOK /\ BurnersBurn
    BY <1>1 DEF IInv
  <2>2. jobs'[j] # jobs[j]
    BY DEF Running, Pending
  <2>3. VerifyStep(j) \/ OnboardStep(j) \/ BurnStep(j)
    BY <1>1, <2>1, <2>2, OwnWorkerOnly
  <2> QED
    BY <1>1, <2>1, <2>3, VerifyEnds, OnboardStepEnds, BurnStepEnds
<1> DEFINE Calm == failures = 0
<1>2. IInv /\ SerialInv /\ Calm /\ Calm' /\ [Next]_vars
        => [\A j \in Jobs : Answered(j)]_vars
  <2> HIDE DEF Answered
  <2> QED
    BY <1>1 DEF SerialInv
<1>3. Spec => []Calm
  BY NoFailures
<1>4. Spec => [][\A j \in Jobs : Answered(j)]_vars
  <2> HIDE DEF Answered, Calm
  <2> QED
    BY <1>2, <1>3, InvariantHolds, SerialInvariantHolds, PTL DEF Spec
<1> QED
  BY <1>4 DEF EndedJobsAreAnswered
=============================================================================
