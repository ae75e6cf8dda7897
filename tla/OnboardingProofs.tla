--------------------------- MODULE OnboardingProofs ---------------------------
(***************************************************************************)
(* Proofs about Onboarding, for every set of VINs and requests and every   *)
(* bound: IInv of OnboardingInvariant is inductive, and the type invariant *)
(* and the safety properties that hold under every interleaving and every  *)
(* failure follow from it.                                                 *)
(***************************************************************************)
EXTENDS OnboardingInvariant, SequenceTheorems, TLAPS

-----------------------------------------------------------------------------
(* Rows.                                                                   *)

\* Every code the handlers and workers write is one the table may hold.
LEMMA StoredCodes ==
  /\ {OnboardingStatusSubmitUnknown, OnboardingStatusDecodingUnknown,
      OnboardingStatusDecodingPending, OnboardingStatusDecodingFailure,
      OnboardingStatusDecodingSuccess, OnboardingStatusVendorValidationFailure,
      OnboardingStatusVendorValidationSuccess, OnboardingStatusMintSubmitUnknown,
      OnboardingStatusConnectFailure, OnboardingStatusConnectSuccess,
      OnboardingStatusMintFailure, OnboardingStatusMintSuccess,
      OnboardingStatusDisconnectSubmitUnknown, OnboardingStatusDisconnectFailure,
      OnboardingStatusDisconnectSuccess, OnboardingStatusBurnSDFailure,
      OnboardingStatusBurnSDSuccess, OnboardingStatusDeleteSubmitUnknown,
      OnboardingStatusBurnVehicleFailure, OnboardingStatusBurnVehicleSuccess}
       = StoredStatus
  /\ StoredStatus \subseteq Nat
  BY DEF StoredStatus, OnboardingStatusSubmitUnknown,
    OnboardingStatusDecodingUnknown, OnboardingStatusDecodingPending,
    OnboardingStatusDecodingFailure, OnboardingStatusDecodingSuccess,
    OnboardingStatusVendorValidationFailure,
    OnboardingStatusVendorValidationSuccess, OnboardingStatusMintSubmitUnknown,
    OnboardingStatusConnectFailure, OnboardingStatusConnectSuccess,
    OnboardingStatusMintFailure, OnboardingStatusMintSuccess,
    OnboardingStatusDisconnectSubmitUnknown, OnboardingStatusDisconnectFailure,
    OnboardingStatusDisconnectSuccess, OnboardingStatusBurnSDFailure,
    OnboardingStatusBurnSDSuccess, OnboardingStatusDeleteSubmitUnknown,
    OnboardingStatusBurnVehicleFailure, OnboardingStatusBurnVehicleSuccess

\* A row a handler or worker makes up has no tokens, so it is sound.
LEMMA NewRows ==
  /\ \A s \in StoredStatus : NewRow(s) \in Row
  /\ NoRow \in Row
  /\ \A s, v, V, S : Sound(v, NewRow(s), V, S)
  /\ \A v, V, S : Sound(v, NoRow, V, S)
  BY StoredCodes DEF NewRow, NoRow, Row, Sound, OperationStatus

\* Recording another status changes no token.
LEMMA WithStatus ==
  ASSUME NEW rec \in Row, NEW s \in StoredStatus
  PROVE  /\ [rec EXCEPT !.status = s] \in Row
         /\ \A v, V, S : Sound(v, rec, V, S) =>
              Sound(v, [rec EXCEPT !.status = s], V, S)
  BY DEF Row, Sound

\* The enrollment columns are always changed together.
LEMMA EnrollmentSound ==
  ASSUME NEW rec \in Row
  PROVE  /\ Connected(rec) \in Row /\ Disconnected(rec) \in Row
         /\ \A v, V, S : Sound(v, rec, V, S) =>
              Sound(v, Connected(rec), V, S) /\ Sound(v, Disconnected(rec), V, S)
<1>1. /\ Connected(rec) \in Row /\ Disconnected(rec) \in Row
  BY DEF Row, Connected, Disconnected, OperationStatus
<1>2. ASSUME NEW v, NEW V, NEW S, Sound(v, rec, V, S)
      PROVE  Sound(v, Connected(rec), V, S) /\ Sound(v, Disconnected(rec), V, S)
  BY <1>2 DEF Row, Sound, Connected, Disconnected
<1> QED
  BY <1>1, <1>2

\* The column lists by which a sound copy can be mixed into a sound row.
ColumnLists ==
  {AllColumns, StatusColumn, EnrollColumns, SDColumns, VehicleColumns,
   VehicleSDColumns}

\* Saving a sound copy of a row over a sound row leaves a sound row, whichever
\* of the workers' column lists is saved and however stale the copy is.
LEMMA UpdateSound ==
  ASSUME NEW row \in Row, NEW rec \in Row, NEW columns \in ColumnLists
  PROVE  /\ Update(row, rec, columns) \in Row
         /\ \A v, V, S : Sound(v, row, V, S) /\ Sound(v, rec, V, S) =>
              Sound(v, Update(row, rec, columns), V, S)
<1> USE DEF Row
<1>1. Update(row, rec, columns) \in Row
  BY DEF Update
<1>2. /\ "sd" \in columns <=> "wallet" \in columns
      /\ "conn" \in columns <=> "disc" \in columns
  BY DEF ColumnLists, AllColumns, StatusColumn, EnrollColumns, SDColumns,
    VehicleColumns, VehicleSDColumns
<1>3. ASSUME NEW v, NEW V, NEW S, Sound(v, row, V, S), Sound(v, rec, V, S)
      PROVE  Sound(v, Update(row, rec, columns), V, S)
  BY <1>2, <1>3 DEF Update, Sound
<1> QED
  BY <1>1, <1>3

\* So does an upsert.
LEMMA UpsertSound ==
  ASSUME NEW row \in Row, NEW rec \in Row
  PROVE  /\ Upsert(row, rec) \in Row
         /\ \A v, V, S : Sound(v, row, V, S) /\ Sound(v, rec, V, S) =>
              Sound(v, Upsert(row, rec), V, S)
<1>1. AllColumns \in ColumnLists
  BY DEF ColumnLists
<1> QED
  BY <1>1, UpdateSound DEF Upsert

\* Tokens that were minted stay minted: a sound copy stays sound.
LEMMA SoundGrows ==
  ASSUME NEW v, NEW row, NEW V, NEW V2, NEW S, NEW S2,
         V \subseteq V2, S \subseteq S2, Sound(v, row, V, S)
  PROVE  Sound(v, row, V2, S2)
  BY DEF Sound

-----------------------------------------------------------------------------
(* Jobs, and the steps that take no lock, burn nothing and mint nothing.   *)

Burning == {"burn", "unlockTwice", "unlock"}

\* Jobs without a worker carry no copy of a row.
LEMMA IdleJobs ==
  /\ \A k \in Kinds, v \in Vins, op \in Nat, n \in Nat :
       /\ Available(k, v, op, n) \in Job
       /\ Available(k, v, op, n).at = "available"
       /\ Available(k, v, op, n).record = NoRow
  /\ NoJob \in Job /\ NoJob.at = "none" /\ NoJob.record = NoRow
  /\ Ended \in Job /\ Ended.at = "ended" /\ Ended.record = NoRow
<1>1. AnyVin \in Vins
  BY InputAssumption DEF AnyVin
<1>2. \A k \in Kinds, v \in Vins, op \in Nat, n \in Nat :
        /\ Available(k, v, op, n) \in Job
        /\ Available(k, v, op, n).at = "available"
        /\ Available(k, v, op, n).record = NoRow
  BY NewRows DEF Available, Job, Places
<1>3. Available("verify", AnyVin, 0, 0) \in Job
  BY <1>1, <1>2 DEF Kinds
<1>4. /\ NoJob \in Job /\ NoJob.at = "none" /\ NoJob.record = NoRow
      /\ Ended \in Job /\ Ended.at = "ended" /\ Ended.record = NoRow
  BY <1>1, NewRows DEF NoJob, Ended, Available, Job, Places, Kinds
<1> QED
  BY <1>2, <1>4

LEMMA ErroredJobs ==
  ASSUME NEW job \in Job
  PROVE  /\ Errored(job) \in Job
         /\ Errored(job).at \in {"available", "ended"}
         /\ Errored(job).record = NoRow
<1>1. job.kind \in Kinds /\ job.vin \in Vins /\ job.op \in Nat /\ job.attempt \in Nat
  BY DEF Job
<1> QED
  BY <1>1, IdleJobs DEF Errored

\* What a calm step does to the jobs, and to the rows.
JobCalm(j) ==
  /\ jobs' \in [Jobs -> Job]
  /\ \A i \in Jobs \ {j} : jobs'[i] = jobs[i]
  /\ jobs[j].at \notin Burning
  /\ jobs'[j].at \notin Burning \cup {"mint"}
  /\ jobs'[j].at \in BurnPlaces => jobs'[j].kind \in BurnKinds
  /\ Sound(jobs'[j].vin, jobs'[j].record, vehicles, sds)

RowsCalm ==
  /\ vins' \in [Vins -> Row]
  /\ \A v \in Vins : Sound(v, vins'[v], vehicles, sds)
  /\ failures' \in Nat

LEMMA PutCalm ==
  ASSUME TypeOK, NEW j \in Jobs, jobs[j].at \notin Burning, NEW job \in Job,
         job.at \notin Burning \cup {"mint"},
         job.at \in BurnPlaces => job.kind \in BurnKinds,
         Sound(job.vin, job.record, vehicles, sds), Put(j, job)
  PROVE  JobCalm(j)
<1>1. jobs \in [Jobs -> Job]
  BY DEF TypeOK
<1>2. jobs' = [jobs EXCEPT ![j] = job]
  BY DEF Put
<1>3. jobs' \in [Jobs -> Job] /\ jobs'[j] = job
  BY <1>1, <1>2
<1>4. \A i \in Jobs \ {j} : jobs'[i] = jobs[i]
  BY <1>1, <1>2
<1> QED
  BY <1>3, <1>4 DEF JobCalm

\* A job that ends or is to be run again.
LEMMA EndCalm ==
  ASSUME TypeOK, NEW j \in Jobs, jobs[j].at \notin Burning,
         \/ Put(j, Ended)
         \/ Put(j, Completed)
         \/ Put(j, Errored(jobs[j]))
  PROVE  JobCalm(j)
<1>1. jobs[j] \in Job
  BY DEF TypeOK
<1>2. Completed = Ended
  BY DEF Completed
<1>3. \A v : Sound(v, NoRow, vehicles, sds)
  BY NewRows
<1>4. CASE Put(j, Ended)
  BY <1>3, <1>4, IdleJobs, PutCalm DEF Burning, BurnPlaces
<1>5. CASE Put(j, Errored(jobs[j]))
  BY <1>1, <1>3, <1>5, ErroredJobs, PutCalm DEF Burning, BurnPlaces
<1> QED
  BY <1>2, <1>4, <1>5

LEMMA MoveCalm ==
  ASSUME TypeOK, NEW j \in Jobs, jobs[j].at \notin Burning,
         NEW place \in Places, place \notin Burning \cup {"mint"},
         place \in BurnPlaces => jobs[j].kind \in BurnKinds,
         NEW rec \in Row, Sound(jobs[j].vin, rec, vehicles, sds),
         Move(j, place, rec)
  PROVE  JobCalm(j)
<1> DEFINE job == [jobs[j] EXCEPT !.at = place, !.record = rec]
<1>1. jobs[j] \in Job
  BY DEF TypeOK
<1>2. job \in Job /\ job.at = place /\ job.record = rec /\ job.vin = jobs[j].vin
      /\ job.kind = jobs[j].kind
  BY <1>1 DEF Job
<1>3. Put(j, job)
  BY DEF Move
<1> QED
  BY <1>2, <1>3, PutCalm

LEMMA SaveCalm ==
  ASSUME TypeOK, RowsSound, NEW j \in Jobs, NEW rec \in Row,
         Sound(jobs[j].vin, rec, vehicles, sds), NEW columns \in ColumnLists,
         Save(j, rec, columns)
  PROVE  RowsCalm
<1> DEFINE v == jobs[j].vin
<1>1. v \in Vins /\ vins \in [Vins -> Row] /\ failures \in Nat
  BY DEF TypeOK, Job
<1>2. \A w \in Vins : Sound(w, vins[w], vehicles, sds)
  BY DEF RowsSound
<1>3. CASE /\ vins' = [vins EXCEPT ![v] = Update(@, rec, columns)]
           /\ UNCHANGED failures
  <2>1. /\ Update(vins[v], rec, columns) \in Row
        /\ Sound(v, Update(vins[v], rec, columns), vehicles, sds)
    BY <1>1, <1>2, UpdateSound
  <2>2. vins' = [vins EXCEPT ![v] = Update(vins[v], rec, columns)]
    BY <1>3
  <2> QED
    BY <1>1, <1>2, <1>3, <2>1, <2>2 DEF RowsCalm
<1>4. CASE Fail("lostWrite") /\ UNCHANGED vins
  BY <1>1, <1>2, <1>4 DEF RowsCalm, Fail
<1> QED
  BY <1>3, <1>4 DEF Save

LEMMA NoSave ==
  ASSUME TypeOK, RowsSound, UNCHANGED vins,
         (UNCHANGED failures) \/ Fail("lostWrite") \/ Fail("lostRead")
  PROVE  RowsCalm
  BY DEF TypeOK, RowsSound, RowsCalm, Fail

\* Calm steps keep the inductive invariant.
LEMMA CalmKeepsIInv ==
  ASSUME IInv, NEW j \in Jobs, JobCalm(j), RowsCalm,
         UNCHANGED <<requests, chain, seq, locked>>
  PROVE  IInv'
<1> USE DEF IInv
<1>1. TypeOK'
  BY DEF TypeOK, JobCalm, RowsCalm, chain
<1>2. RowsSound'
  BY DEF RowsSound, RowsCalm, chain
<1>3. JobsSound'
  BY DEF JobsSound, JobCalm, chain
<1>4. CopiesSound' /\ BatchesLast' /\ TokensFresh'
  BY DEF CopiesSound, BatchesLast, TokensFresh, chain
<1>5. IndexesFresh' /\ BurnersBurn'
  BY DEF IndexesFresh, BurnersBurn, JobCalm, chain
<1>6. \A i \in Jobs : /\ InBurn(i)' <=> InBurn(i)
                      /\ InBurn(i) => jobs'[i] = jobs[i]
  BY DEF InBurn, JobCalm, Burning
<1>7. LocksAreReleased'
  BY <1>6 DEF LocksAreReleased
<1>8. \A i \in Jobs : jobs'[i].at = "unlockTwice" => jobs[i].at = "unlockTwice"
  BY DEF JobCalm, Burning
<1>9. BurnsExclude'
  BY <1>6, <1>8 DEF BurnsExclude, OneBurnAtATime
<1> QED
  BY <1>1, <1>2, <1>3, <1>4, <1>5, <1>7, <1>9

-----------------------------------------------------------------------------
(* The initial states.                                                     *)

LEMMA InitIInv == Init => IInv
<1> SUFFICES ASSUME Init PROVE IInv
  OBVIOUS
<1> USE DEF Init
<1>1. /\ Minted \in Seq(Vins) /\ Len(Minted) \in Nat
      /\ DOMAIN Minted = 1..Len(Minted)
      /\ \A i \in DOMAIN Minted : Minted[i] \in Vins
  BY InputAssumption
<1>2. \A i, k \in DOMAIN Minted : Minted[i] = Minted[k] => i = k
  BY InputAssumption
<1>3. \A v \in Vins : (\E i \in DOMAIN Minted : Minted[i] = v) =>
        MintIndex(v) \in DOMAIN Minted /\ Minted[MintIndex(v)] = v
  BY DEF MintIndex
<1>4. /\ VerifiedRow \in Row /\ VerifiedRow.disc = "null"
      /\ \A v, V, S : Sound(v, VerifiedRow, V, S)
  BY StoredCodes DEF VerifiedRow, NewRow, Row, Sound, OperationStatus
<1>5. \A i \in DOMAIN Minted :
        /\ MintedRow(i) \in Row
        /\ MintedRow(i).veh = i /\ MintedRow(i).sd = i /\ MintedRow(i).wallet = i
        /\ MintedRow(i).disc = "null"
  <2> SUFFICES ASSUME NEW i \in DOMAIN Minted
               PROVE  /\ MintedRow(i) \in Row
                      /\ MintedRow(i).veh = i /\ MintedRow(i).sd = i
                      /\ MintedRow(i).wallet = i /\ MintedRow(i).disc = "null"
    OBVIOUS
  <2>1. i \in Nat /\ OnboardingStatusMintSuccess \in StoredStatus
    BY <1>1, StoredCodes
  <2> QED
    BY <1>4, <2>1 DEF MintedRow, Row, OperationStatus
<1>6. \A v \in Vins : StartRow(v) \in Row /\ Sound(v, StartRow(v), vehicles, sds)
  <2> SUFFICES ASSUME NEW v \in Vins
               PROVE  StartRow(v) \in Row /\ Sound(v, StartRow(v), vehicles, sds)
    OBVIOUS
  <2>1. CASE \E i \in DOMAIN Minted : Minted[i] = v
    <3> DEFINE i == MintIndex(v)
    <3>1. i \in DOMAIN Minted /\ Minted[i] = v /\ StartRow(v) = MintedRow(i)
      BY <1>3, <2>1 DEF StartRow
    <3> HIDE DEF i
    <3>2. [id |-> i, vin |-> v] \in vehicles
      BY <3>1
    <3>3. [id |-> i, vehicle |-> i, wallet |-> i, vin |-> v] \in sds
      BY <3>1
    <3>4. i # 0
      BY <1>1, <3>1
    <3> QED
      BY <1>5, <3>1, <3>2, <3>3, <3>4 DEF Sound
  <2>2. CASE ~(\E i \in DOMAIN Minted : Minted[i] = v)
    BY <1>4, <2>2, NewRows DEF StartRow
  <2> QED
    BY <2>1, <2>2
<1>7. TypeOK
  <2>1. vins \in [Vins -> Row]
    BY <1>6
  <2>2. jobs \in [Jobs -> Job]
    BY IdleJobs
  <2>3. requests \in [Requests -> Request]
    BY NewRows DEF NoRequest, Request, Kinds
  <2>4. vehicles \in SUBSET Vehicle /\ sds \in SUBSET SD
    BY <1>1 DEF Vehicle, SD
  <2>5. seq \in [vehicle : Nat \ {0}, sd : Nat \ {0}, wallet : Nat \ {0}]
    BY <1>1
  <2>6. /\ burned \in [vehicles : SUBSET Nat, sds : SUBSET Nat]
        /\ locked \in [BurnKinds -> BOOLEAN] /\ failures \in Nat
    OBVIOUS
  <2> QED
    BY <2>1, <2>2, <2>3, <2>4, <2>5, <2>6 DEF TypeOK
<1>8. RowsSound
  BY <1>6 DEF RowsSound
<1>9. JobsSound
  BY IdleJobs, NewRows DEF JobsSound
<1>10. CopiesSound /\ BatchesLast
  BY NewRows DEF CopiesSound, BatchesLast, NoRequest
<1>11. TokensFresh
  BY <1>1, <1>2 DEF TokensFresh
<1>12. IndexesFresh /\ BurnersBurn /\ LocksAreReleased /\ BurnsExclude
  BY IdleJobs DEF IndexesFresh, BurnersBurn, BurnPlaces, LocksAreReleased, BurnsExclude, OneBurnAtATime, InBurn
<1> QED
  BY <1>7, <1>8, <1>9, <1>10, <1>11, <1>12 DEF IInv

-----------------------------------------------------------------------------
(* The verify worker.                                                      *)

\* A worker begins with a sound copy of the row, or ends.
LEMMA StartedCalm ==
  ASSUME TypeOK, NEW j \in Jobs, jobs[j].at \notin Burning,
         NEW place \in Places, place \notin Burning \cup {"mint"},
         place \in BurnPlaces => jobs[j].kind \in BurnKinds,
         NEW rec \in Row, Sound(jobs[j].vin, rec, vehicles, sds),
         Put(j, Started(j, place, rec))
  PROVE  JobCalm(j)
<1> DEFINE job == Started(j, place, rec)
<1>1. jobs[j] \in Job
  BY DEF TypeOK
<1>2. job \in Job /\ job.at = place /\ job.record = rec /\ job.vin = jobs[j].vin
      /\ job.kind = jobs[j].kind
  <2>1. jobs[j].attempt + 1 \in Nat
    BY <1>1 DEF Job
  <2>2. job = [jobs[j] EXCEPT !.at = place, !.record = rec,
                              !.attempt = jobs[j].attempt + 1]
    BY <1>1 DEF Started, Job
  <2> HIDE DEF job
  <2> QED
    BY <1>1, <2>1, <2>2 DEF Job
<1> QED
  BY <1>2, PutCalm

LEMMA StartKeepsIInv ==
  ASSUME IInv, NEW j \in Jobs, NEW kind,
         NEW place \in Places, place \notin Burning \cup {"mint"},
         place \in BurnPlaces => jobs[j].kind \in BurnKinds,
         StartOrEnd(j, kind, place)
  PROVE  IInv'
<1> DEFINE row == vins[jobs[j].vin]
<1> USE DEF IInv
<1>1. /\ jobs[j].at = "available"
      /\ UNCHANGED <<vins, requests, chain, seq, locked, failures>>
  BY DEF StartOrEnd, Start
<1>2. row \in Row /\ Sound(jobs[j].vin, row, vehicles, sds)
  BY DEF TypeOK, Job, RowsSound
<1>3. Put(j, Started(j, place, row)) \/ Put(j, Completed)
  BY DEF StartOrEnd
<1>4. JobCalm(j)
  BY <1>1, <1>2, <1>3, StartedCalm, EndCalm DEF Burning
<1>5. RowsCalm
  BY <1>1, NoSave
<1> QED
  BY <1>1, <1>4, <1>5, CalmKeepsIInv

\* A worker that cannot read the row.
LEMMA WorkerReadFailsKeepsIInv ==
  ASSUME IInv, NEW j \in Jobs, WorkerReadFails(j)
  PROVE  IInv'
<1> DEFINE job == Started(j, "available", NoRow)
<1> USE DEF IInv
<1>1. /\ jobs[j] \in Job /\ jobs[j].at = "available"
      /\ Put(j, Errored(job)) /\ Fail("lostRead")
      /\ UNCHANGED <<vins, requests, chain, seq, locked>>
  BY DEF WorkerReadFails, TypeOK
<1>2. job \in Job
  <2>1. jobs[j].attempt + 1 \in Nat
    BY <1>1 DEF Job
  <2>2. job = [jobs[j] EXCEPT !.at = "available", !.record = NoRow,
                              !.attempt = jobs[j].attempt + 1]
    BY <1>1 DEF Started, Job
  <2> HIDE DEF job
  <2> QED
    BY <1>1, <2>1, <2>2, NewRows DEF Job, Places
<1> HIDE DEF job
<1>3. JobCalm(j)
  BY <1>1, <1>2, ErroredJobs, NewRows, PutCalm DEF Burning, BurnPlaces
<1>4. RowsCalm
  BY <1>1, NoSave
<1> QED
  BY <1>1, <1>3, <1>4, CalmKeepsIInv

LEMMA VerifyKeepsIInv ==
  ASSUME IInv, NEW j \in Jobs, VerifyStep(j)
  PROVE  IInv'
<1> DEFINE v == jobs[j].vin
           rec == jobs[j].record
<1> USE DEF IInv
<1>1. /\ jobs[j] \in Job /\ v \in Vins /\ rec \in Row
      /\ Sound(v, rec, vehicles, sds)
  BY DEF TypeOK, Job, JobsSound
<1>2. AllColumns \in ColumnLists
  BY DEF ColumnLists
<1>3. ASSUME NEW s \in StoredStatus
      PROVE  /\ [rec EXCEPT !.status = s] \in Row
             /\ Sound(v, [rec EXCEPT !.status = s], vehicles, sds)
  BY <1>1, WithStatus
<1>4. CASE StartVerify(j)
  <2>1. CASE StartOrEnd(j, "verify", "decode")
    BY <2>1, StartKeepsIInv DEF Places, Burning, BurnPlaces
  <2>2. CASE /\ Start(j, "verify")
             /\ Put(j, Started(j, "insert", NewRow(OnboardingStatusDecodingUnknown)))
    <3>1. JobCalm(j)
      BY <2>2, NewRows, StoredCodes, StartedCalm DEF Start, Places, Burning, BurnPlaces
    <3>2. RowsCalm
      BY <2>2, NoSave DEF Start
    <3> QED
      BY <2>2, <3>1, <3>2, CalmKeepsIInv DEF Start
  <2> QED
    BY <1>4, <2>1, <2>2 DEF StartVerify
<1>5. CASE InsertVinRecord(j)
  <2>1. jobs[j].at \notin Burning /\ UNCHANGED <<requests, chain, seq, locked>>
    BY <1>5 DEF InsertVinRecord, Burning
  <2>2. CASE /\ vins' = [vins EXCEPT ![v] = rec] /\ Move(j, "decode", rec)
             /\ UNCHANGED failures
    <3>1. JobCalm(j)
      BY <1>1, <2>1, <2>2, MoveCalm DEF Places, Burning, BurnPlaces
    <3>2. RowsCalm
      BY <1>1, <2>1, <2>2 DEF RowsCalm, RowsSound, TypeOK
    <3> QED
      BY <2>1, <3>1, <3>2, CalmKeepsIInv
  <2>3. CASE /\ UNCHANGED vins /\ Put(j, Errored(jobs[j]))
             /\ (UNCHANGED failures) \/ Fail("lostWrite")
    BY <2>1, <2>3, EndCalm, NoSave, CalmKeepsIInv
  <2> QED
    BY <1>5, <2>2, <2>3 DEF InsertVinRecord, Insert
<1>6. CASE StartDecode(j)
  <2> DEFINE decoded == rec.status >= OnboardingStatusDecodingSuccess /\ rec.dd
             next == [rec EXCEPT !.status = IF decoded
                                              THEN OnboardingStatusDecodingSuccess
                                              ELSE OnboardingStatusDecodingPending]
             place == IF decoded THEN "validate" ELSE "decoding"
  <2>1. /\ jobs[j].at \notin Burning /\ Save(j, next, AllColumns)
        /\ Move(j, place, next) /\ UNCHANGED <<requests, chain, seq, locked>>
    BY <1>6 DEF StartDecode, Burning
  <2>2. next \in Row /\ Sound(v, next, vehicles, sds)
    BY <1>3, StoredCodes
  <2>3. place \in Places /\ place \notin Burning \cup {"mint"} \cup BurnPlaces
    BY DEF Places, Burning, BurnPlaces
  <2> HIDE DEF next, place
  <2>4. JobCalm(j) /\ RowsCalm
    BY <1>2, <2>1, <2>2, <2>3, MoveCalm, SaveCalm
  <2> QED
    BY <2>1, <2>4, CalmKeepsIInv
<1>7. CASE DecodeVin(j)
  <2> DEFINE ok == [rec EXCEPT !.dd = TRUE, !.status = OnboardingStatusDecodingSuccess]
             bad == [rec EXCEPT !.status = OnboardingStatusDecodingFailure]
  <2>1. /\ jobs[j].at \notin Burning /\ UNCHANGED <<requests, chain, seq, locked>>
        /\ \/ Save(j, ok, AllColumns) /\ Move(j, "validate", ok)
           \/ Save(j, bad, AllColumns) /\ Put(j, Errored(jobs[j]))
    BY <1>7 DEF DecodeVin, Burning
  <2>2. ok \in Row /\ Sound(v, ok, vehicles, sds)
    BY <1>1, StoredCodes DEF Row, Sound
  <2>3. bad \in Row /\ Sound(v, bad, vehicles, sds)
    BY <1>3, StoredCodes
  <2> HIDE DEF ok, bad
  <2>4. CASE Save(j, ok, AllColumns) /\ Move(j, "validate", ok)
    BY <1>2, <2>1, <2>2, <2>4, MoveCalm, SaveCalm, CalmKeepsIInv DEF Places, Burning, BurnPlaces
  <2>5. CASE Save(j, bad, AllColumns) /\ Put(j, Errored(jobs[j]))
    BY <1>2, <2>1, <2>3, <2>5, EndCalm, SaveCalm, CalmKeepsIInv
  <2> QED
    BY <2>1, <2>4, <2>5
<1>8. CASE Validate(j)
  <2> DEFINE result(status) == [rec EXCEPT !.status = status]
  <2>1. PICK s \in {OnboardingStatusVendorValidationSuccess,
                    OnboardingStatusVendorValidationFailure} :
          /\ Save(j, result(s), AllColumns)
          /\ Put(j, Completed) \/ Put(j, Errored(jobs[j]))
    BY <1>8 DEF Validate
  <2>2. jobs[j].at \notin Burning /\ UNCHANGED <<requests, chain, seq, locked>>
    BY <1>8 DEF Validate, Burning
  <2>3. result(s) \in Row /\ Sound(v, result(s), vehicles, sds)
    BY <1>3, StoredCodes
  <2> HIDE DEF result
  <2> QED
    BY <1>2, <2>1, <2>2, <2>3, EndCalm, SaveCalm, CalmKeepsIInv
<1> QED
  BY <1>4, <1>5, <1>6, <1>7, <1>8 DEF VerifyStep

-----------------------------------------------------------------------------
(* The onboard worker.                                                     *)

\* The index a job takes is above all that were taken before.
LEMMA TakeWalletIndexKeepsIInv ==
  ASSUME IInv, NEW j \in Jobs, jobs[j].at = "wallet",
         Put(j, [jobs[j] EXCEPT !.at = "mint", !.index = NextWalletIndex]),
         seq' = [seq EXCEPT !.wallet = @ + 1],
         UNCHANGED <<vins, requests, chain, locked, failures>>
  PROVE  IInv'
<1> USE DEF IInv
<1>1. /\ jobs \in [Jobs -> Job] /\ jobs[j] \in Job
      /\ seq \in [vehicle : Nat \ {0}, sd : Nat \ {0}, wallet : Nat \ {0}]
  BY DEF TypeOK
<1>2. /\ seq'.wallet = seq.wallet + 1 /\ seq'.vehicle = seq.vehicle
      /\ seq'.sd = seq.sd
      /\ seq' \in [vehicle : Nat \ {0}, sd : Nat \ {0}, wallet : Nat \ {0}]
  BY <1>1
<1> DEFINE job == [jobs[j] EXCEPT !.at = "mint", !.index = NextWalletIndex]
<1>3. /\ job \in Job /\ job.at = "mint" /\ job.index = seq.wallet
      /\ job.vin = jobs[j].vin /\ job.record = jobs[j].record
      /\ job.kind = jobs[j].kind
  BY <1>1 DEF NextWalletIndex, Job, Places
<1>4. jobs' = [jobs EXCEPT ![j] = job]
  BY DEF Put
<1> HIDE DEF job
<1>5. /\ jobs' \in [Jobs -> Job] /\ jobs'[j] = job
      /\ \A i \in Jobs \ {j} : jobs'[i] = jobs[i]
  BY <1>1, <1>3, <1>4
<1>6. TypeOK'
  BY <1>2, <1>5 DEF TypeOK, chain
<1>7. RowsSound' /\ CopiesSound' /\ BatchesLast'
  BY DEF RowsSound, CopiesSound, BatchesLast, chain
<1>8. JobsSound'
  BY <1>3, <1>5 DEF JobsSound, chain
<1>9. TokensFresh'
  <2>1. \A x \in sds : x.wallet \in Nat
    BY DEF TypeOK, SD
  <2> QED
    BY <1>1, <1>2, <2>1 DEF TokensFresh, chain
<1>10. IndexesFresh'
  <2>1. \A x \in sds : x.wallet \in Nat /\ x.wallet < seq.wallet
    BY DEF TypeOK, SD, TokensFresh
  <2>2. \A i \in Jobs : jobs[i].at = "mint" =>
          jobs[i].index \in Nat /\ jobs[i].index < seq.wallet
    BY <1>1 DEF IndexesFresh, Job
  <2>3. \A i \in Jobs : jobs'[i].at = "mint" =>
          jobs'[i].index < seq'.wallet /\ \A x \in sds' : x.wallet # jobs'[i].index
    BY <1>1, <1>2, <1>3, <1>5, <2>1, <2>2 DEF IndexesFresh, chain
  <2>4. \A i, k \in Jobs :
          jobs'[i].at = "mint" /\ jobs'[k].at = "mint" /\ i # k =>
            jobs'[i].index # jobs'[k].index
    BY <1>1, <1>3, <1>5, <2>2 DEF IndexesFresh
  <2> QED
    BY <2>3, <2>4 DEF IndexesFresh
<1>11. \A i \in Jobs : /\ InBurn(i)' <=> InBurn(i)
                       /\ InBurn(i) => jobs'[i] = jobs[i]
                       /\ jobs'[i].at = "unlockTwice" => jobs[i].at = "unlockTwice"
  BY <1>3, <1>5 DEF InBurn
<1>12. BurnersBurn' /\ LocksAreReleased' /\ BurnsExclude'
  BY <1>3, <1>5, <1>11 DEF BurnersBurn, BurnPlaces, LocksAreReleased, BurnsExclude, OneBurnAtATime
<1> QED
  BY <1>6, <1>7, <1>8, <1>9, <1>10, <1>12

\* A mint gives a new SD, and maybe a new vehicle, the next ids and the index
\* that this job alone has taken.
LEMMA ChainMintKeepsIInv ==
  ASSUME IInv, NEW j \in Jobs, jobs[j].at = "mint",
         NEW vehicle \in Nat, ChainMintSD(j, vehicle),
         \/ /\ vehicles' = vehicles
            /\ seq' = [seq EXCEPT !.sd = @ + 1]
         \/ /\ vehicles' = vehicles \cup {[id |-> seq.vehicle, vin |-> jobs[j].vin]}
            /\ seq' = [seq EXCEPT !.vehicle = @ + 1, !.sd = @ + 1],
         NEW rec \in Row, Sound(jobs[j].vin, rec, vehicles', sds'),
         NEW place \in {"saveVehicle", "saveSD"}, Move(j, place, rec),
         failures' \in Nat, UNCHANGED <<vins, requests, burned, locked>>
  PROVE  IInv'
<1> USE DEF IInv
<1> DEFINE new == [id |-> seq.sd, vehicle |-> vehicle,
                   wallet |-> jobs[j].index, vin |-> jobs[j].vin]
           job == [jobs[j] EXCEPT !.at = place, !.record = rec]
<1>1. /\ jobs \in [Jobs -> Job] /\ jobs[j] \in Job
      /\ seq \in [vehicle : Nat \ {0}, sd : Nat \ {0}, wallet : Nat \ {0}]
      /\ vehicles \subseteq Vehicle /\ sds \subseteq SD
  BY DEF TypeOK
<1>2. /\ jobs[j].vin \in Vins /\ jobs[j].index \in Nat
      /\ jobs[j].index < seq.wallet /\ \A x \in sds : x.wallet # jobs[j].index
  BY <1>1 DEF Job, IndexesFresh
<1>3. sds' = sds \cup {new}
  BY DEF ChainMintSD
<1>4. /\ job \in Job /\ job.at = place /\ job.record = rec /\ job.vin = jobs[j].vin
  BY <1>1 DEF Job, Places
<1>5. jobs' = [jobs EXCEPT ![j] = job]
  BY DEF Move, Put
<1>6. /\ seq' \in [vehicle : Nat \ {0}, sd : Nat \ {0}, wallet : Nat \ {0}]
      /\ seq'.sd = seq.sd + 1 /\ seq'.wallet = seq.wallet
      /\ \/ vehicles' = vehicles /\ seq'.vehicle = seq.vehicle
         \/ /\ vehicles' = vehicles \cup {[id |-> seq.vehicle, vin |-> jobs[j].vin]}
            /\ seq'.vehicle = seq.vehicle + 1
  <2>1. seq.sd + 1 \in Nat \ {0} /\ seq.vehicle + 1 \in Nat \ {0}
    BY <1>1
  <2>2. CASE /\ vehicles' = vehicles
             /\ seq' = [seq EXCEPT !.sd = @ + 1]
    BY <1>1, <2>1, <2>2
  <2>3. CASE /\ vehicles' = vehicles \cup {[id |-> seq.vehicle, vin |-> jobs[j].vin]}
             /\ seq' = [seq EXCEPT !.vehicle = @ + 1, !.sd = @ + 1]
    BY <1>1, <2>1, <2>3
  <2> QED
    BY <2>2, <2>3
<1>7. /\ new \in SD /\ new.id = seq.sd /\ new.wallet = jobs[j].index
  BY <1>1, <1>2 DEF SD
<1> HIDE DEF new, job
<1>8. /\ jobs' \in [Jobs -> Job] /\ jobs'[j] = job
      /\ \A i \in Jobs \ {j} : jobs'[i] = jobs[i]
  BY <1>1, <1>4, <1>5
<1>9. vehicles \subseteq vehicles' /\ sds \subseteq sds'
  BY <1>3, <1>6
<1>10. TypeOK'
  <2>1. vehicles' \in SUBSET Vehicle /\ sds' \in SUBSET SD
    BY <1>1, <1>2, <1>3, <1>6, <1>7 DEF Vehicle
  <2> QED
    BY <1>6, <1>8, <2>1 DEF TypeOK
<1>11. RowsSound' /\ CopiesSound' /\ BatchesLast'
  BY <1>9, SoundGrows DEF RowsSound, CopiesSound, BatchesLast
<1>12. JobsSound'
  BY <1>4, <1>8, <1>9, SoundGrows DEF JobsSound
<1>13. TokensFresh'
  <2>1. /\ \A x \in vehicles' : x.id < seq'.vehicle
        /\ \A x, y \in vehicles' : x.id = y.id => x = y
    BY <1>1, <1>6 DEF TokensFresh, Vehicle
  <2>2. \A x \in sds' : x.id < seq'.sd /\ x.wallet < seq'.wallet
    BY <1>1, <1>2, <1>3, <1>6, <1>7 DEF TokensFresh, SD
  <2>3. \A x, y \in sds' : x.id = y.id \/ x.wallet = y.wallet => x = y
    BY <1>1, <1>2, <1>3, <1>7 DEF TokensFresh, SD
  <2> QED
    BY <2>1, <2>2, <2>3 DEF TokensFresh
<1>14. IndexesFresh'
  BY <1>3, <1>4, <1>6, <1>7, <1>8 DEF IndexesFresh
<1>15. \A i \in Jobs : /\ InBurn(i)' <=> InBurn(i)
                       /\ InBurn(i) => jobs'[i] = jobs[i]
                       /\ jobs'[i].at = "unlockTwice" => jobs[i].at = "unlockTwice"
  BY <1>4, <1>8 DEF InBurn
<1>16. BurnersBurn' /\ LocksAreReleased' /\ BurnsExclude'
  BY <1>4, <1>8, <1>15 DEF BurnersBurn, BurnPlaces, LocksAreReleased, BurnsExclude, OneBurnAtATime
<1> QED
  BY <1>10, <1>11, <1>12, <1>13, <1>14, <1>16

LEMMA OnboardKeepsIInv ==
  ASSUME IInv, NEW j \in Jobs, OnboardStep(j)
  PROVE  IInv'
<1> DEFINE v == jobs[j].vin
           rec == jobs[j].record
           frame == UNCHANGED <<requests, chain, seq, locked>>
<1> USE DEF IInv
<1>1. /\ jobs[j] \in Job /\ v \in Vins /\ rec \in Row
      /\ Sound(v, rec, vehicles, sds)
  BY DEF TypeOK, Job, JobsSound
<1>2. ASSUME NEW r \in Row, Sound(v, r, vehicles, sds), NEW s \in StoredStatus
      PROVE  /\ [r EXCEPT !.status = s] \in Row
             /\ Sound(v, [r EXCEPT !.status = s], vehicles, sds)
  BY <1>2, WithStatus
<1>3. CASE StartOnboard(j)
  BY <1>3, StartKeepsIInv DEF StartOnboard, Places, Burning, BurnPlaces
<1>4. CASE ConnectToVendor(j)
  <2> DEFINE new == Connected(rec)
             failed(r) == [r EXCEPT !.status = OnboardingStatusConnectFailure]
             done(r) == [r EXCEPT !.status = OnboardingStatusConnectSuccess]
  <2>1. jobs[j].at \notin Burning /\ frame
    BY <1>4 DEF ConnectToVendor, Burning
  <2>2. new \in Row /\ Sound(v, new, vehicles, sds)
    BY <1>1, EnrollmentSound
  <2>3. ASSUME NEW r \in {rec, new}
        PROVE  /\ failed(r) \in Row /\ Sound(v, failed(r), vehicles, sds)
               /\ done(r) \in Row /\ Sound(v, done(r), vehicles, sds)
    BY <1>1, <1>2, <2>2, StoredCodes
  <2>4. /\ Move(j, "saveConnect", failed(rec)) \/ Move(j, "saveConnect", failed(new))
             \/ Move(j, "saveConnect", done(new))
        /\ \/ Save(j, new, EnrollColumns)
           \/ UNCHANGED vins /\ ((UNCHANGED failures) \/ Fail("lostWrite"))
    BY <1>4 DEF ConnectToVendor
  <2> HIDE DEF new, failed, done
  <2>5. JobCalm(j)
    BY <2>1, <2>3, <2>4, MoveCalm DEF Places, Burning, BurnPlaces
  <2>6. RowsCalm
    BY <2>2, <2>4, SaveCalm, NoSave DEF ColumnLists
  <2> QED
    BY <2>1, <2>5, <2>6, CalmKeepsIInv
<1>5. CASE SaveConnect(j)
  <2>1. jobs[j].at \notin Burning /\ frame /\ Save(j, rec, StatusColumn)
    BY <1>5 DEF SaveConnect, Burning
  <2>2. \/ Put(j, Errored(jobs[j])) \/ Move(j, "wallet", rec) \/ Move(j, "finish", rec)
    BY <1>5 DEF SaveConnect
  <2>3. JobCalm(j)
    BY <1>1, <2>1, <2>2, MoveCalm, EndCalm DEF Places, Burning, BurnPlaces
  <2>4. RowsCalm
    BY <1>1, <2>1, SaveCalm DEF ColumnLists
  <2> QED
    BY <2>1, <2>3, <2>4, CalmKeepsIInv
<1>6. ASSUME MintFailed(j), jobs[j].at \notin Burning
      PROVE  JobCalm(j)
  <2> DEFINE failed == [rec EXCEPT !.status = OnboardingStatusMintFailure]
  <2>1. failed \in Row /\ Sound(v, failed, vehicles, sds)
    BY <1>1, <1>2, StoredCodes
  <2>2. SavePlace(rec) \in Places /\ SavePlace(rec) \notin Burning \cup {"mint"} \cup BurnPlaces
    BY DEF SavePlace, Places, Burning, BurnPlaces
  <2>3. Move(j, SavePlace(rec), failed)
    BY <1>6 DEF MintFailed
  <2> HIDE DEF failed
  <2> QED
    BY <1>6, <2>1, <2>2, <2>3, MoveCalm
<1>7. CASE TakeWalletIndex(j)
  <2>1. CASE MintFailed(j) /\ UNCHANGED seq
    BY <1>6, <1>7, <2>1, NoSave, CalmKeepsIInv DEF TakeWalletIndex, Burning
  <2>2. CASE /\ Put(j, [jobs[j] EXCEPT !.at = "mint", !.index = NextWalletIndex])
             /\ seq' = [seq EXCEPT !.wallet = @ + 1]
    BY <1>7, <2>2, TakeWalletIndexKeepsIInv DEF TakeWalletIndex
  <2> QED
    BY <1>7, <2>1, <2>2 DEF TakeWalletIndex
<1>8. seq.vehicle \in Nat /\ seq.vehicle # 0 /\ seq.sd \in Nat /\ seq.sd # 0
      /\ jobs[j].index \in Nat /\ rec.veh \in Nat
  BY <1>1 DEF TypeOK, Job, Row
<1>9. ASSUME Sound(v, rec, vehicles', sds'), MintFailed(j)
      PROVE  \E place \in {"saveVehicle", "saveSD"}, r \in Row :
               Sound(v, r, vehicles', sds') /\ Move(j, place, r)
  <2> DEFINE failed == [rec EXCEPT !.status = OnboardingStatusMintFailure]
  <2>1. failed \in Row /\ Sound(v, failed, vehicles', sds')
    BY <1>1, <1>9, StoredCodes, WithStatus
  <2>2. SavePlace(rec) \in {"saveVehicle", "saveSD"} /\ Move(j, SavePlace(rec), failed)
    BY <1>9 DEF MintFailed, SavePlace
  <2> HIDE DEF failed
  <2> QED
    BY <2>1, <2>2
<1>10. CASE MintVehicleWithSD(j)
  <2> DEFINE done == [rec EXCEPT !.status = OnboardingStatusMintSuccess,
                                 !.veh = seq.vehicle, !.sd = seq.sd,
                                 !.wallet = jobs[j].index]
  <2>1. CASE MintFailed(j) /\ UNCHANGED <<vehicles, sds, seq, failures>>
    BY <1>6, <1>10, <2>1, NoSave, CalmKeepsIInv DEF MintVehicleWithSD, Burning, chain
  <2>2. CASE ~(MintFailed(j) /\ UNCHANGED <<vehicles, sds, seq, failures>>)
    <3>1. /\ jobs[j].at = "mint" /\ ChainMintSD(j, seq.vehicle)
          /\ vehicles' = vehicles \cup {[id |-> seq.vehicle, vin |-> v]}
          /\ seq' = [seq EXCEPT !.vehicle = @ + 1, !.sd = @ + 1]
          /\ UNCHANGED <<vins, requests, burned, locked>>
          /\ \/ Move(j, "saveVehicle", done) /\ UNCHANGED failures
             \/ Fail("lostAnswer") /\ MintFailed(j)
      BY <1>10, <2>2 DEF MintVehicleWithSD
    <3>2. failures' \in Nat
      BY <3>1 DEF Fail, TypeOK
    <3>3. sds' = sds \cup {[id |-> seq.sd, vehicle |-> seq.vehicle,
                            wallet |-> jobs[j].index, vin |-> v]}
      BY <3>1 DEF ChainMintSD
    <3>4. Sound(v, rec, vehicles', sds')
      BY <1>1, <3>1, <3>3, SoundGrows
    <3>5. done \in Row /\ Sound(v, done, vehicles', sds')
      <4>1. done \in Row
        <5>1. OnboardingStatusMintSuccess \in StoredStatus
          BY StoredCodes
        <5> QED
          BY <1>1, <1>8, <5>1 DEF Row
      <4>2. /\ done.veh = seq.vehicle /\ done.sd = seq.sd
            /\ done.wallet = jobs[j].index
            /\ done.conn = rec.conn /\ done.disc = rec.disc
        BY <1>1 DEF Row
      <4> HIDE DEF done
      <4>3. \E x \in sds' : x.id = done.sd /\ x.vin = v /\ x.wallet = done.wallet
        <5> DEFINE sd == [id |-> seq.sd, vehicle |-> seq.vehicle,
                          wallet |-> jobs[j].index, vin |-> v]
        <5>1. sd.id = done.sd /\ sd.vin = v /\ sd.wallet = done.wallet
          BY <4>2
        <5>2. sd \in sds'
          BY <3>3
        <5> HIDE DEF sd
        <5> QED
          BY <5>1, <5>2
      <4>4. [id |-> done.veh, vin |-> v] \in vehicles'
        BY <3>1, <4>2
      <4> QED
        BY <1>1, <1>8, <4>1, <4>2, <4>3, <4>4 DEF Sound
    <3> HIDE DEF done
    <3>6. \E place \in {"saveVehicle", "saveSD"}, r \in Row :
            Sound(v, r, vehicles', sds') /\ Move(j, place, r)
      BY <1>9, <3>1, <3>4, <3>5
    <3> QED
      BY <1>8, <3>1, <3>2, <3>6, ChainMintKeepsIInv
  <2> QED
    BY <2>1, <2>2
<1>11. CASE MintSD(j)
  <2> DEFINE done == [rec EXCEPT !.status = OnboardingStatusMintSuccess,
                                 !.sd = seq.sd, !.wallet = jobs[j].index]
  <2>1. CASE MintFailed(j) /\ UNCHANGED <<sds, seq, failures>>
    BY <1>6, <1>11, <2>1, NoSave, CalmKeepsIInv DEF MintSD, Burning, chain
  <2>2. CASE ~(MintFailed(j) /\ UNCHANGED <<sds, seq, failures>>)
    <3>1. /\ jobs[j].at = "mint" /\ ChainMintSD(j, rec.veh)
          /\ vehicles' = vehicles /\ seq' = [seq EXCEPT !.sd = @ + 1]
          /\ UNCHANGED <<vins, requests, burned, locked>>
          /\ \/ Move(j, "saveSD", done) /\ UNCHANGED failures
             \/ Fail("lostAnswer") /\ MintFailed(j)
      BY <1>11, <2>2 DEF MintSD
    <3>2. failures' \in Nat
      BY <3>1 DEF Fail, TypeOK
    <3>3. sds' = sds \cup {[id |-> seq.sd, vehicle |-> rec.veh,
                            wallet |-> jobs[j].index, vin |-> v]}
      BY <3>1 DEF ChainMintSD
    <3>4. Sound(v, rec, vehicles', sds')
      BY <1>1, <3>1, <3>3, SoundGrows
    <3>5. done \in Row /\ Sound(v, done, vehicles', sds')
      <4>1. done \in Row
        <5>1. OnboardingStatusMintSuccess \in StoredStatus
          BY StoredCodes
        <5> QED
          BY <1>1, <1>8, <5>1 DEF Row
      <4>2. /\ done.veh = rec.veh /\ done.sd = seq.sd
            /\ done.wallet = jobs[j].index
            /\ done.conn = rec.conn /\ done.disc = rec.disc
        BY <1>1 DEF Row
      <4> HIDE DEF done
      <4>3. \E x \in sds' : x.id = done.sd /\ x.vin = v /\ x.wallet = done.wallet
        <5> DEFINE sd == [id |-> seq.sd, vehicle |-> rec.veh,
                          wallet |-> jobs[j].index, vin |-> v]
        <5>1. sd.id = done.sd /\ sd.vin = v /\ sd.wallet = done.wallet
          BY <4>2
        <5>2. sd \in sds'
          BY <3>3
        <5> HIDE DEF sd
        <5> QED
          BY <5>1, <5>2
      <4> QED
        BY <1>8, <3>4, <4>1, <4>2, <4>3 DEF Sound
    <3> HIDE DEF done
    <3>6. \E place \in {"saveVehicle", "saveSD"}, r \in Row :
            Sound(v, r, vehicles', sds') /\ Move(j, place, r)
      BY <1>9, <3>1, <3>4, <3>5
    <3> QED
      BY <1>8, <3>1, <3>2, <3>6, ChainMintKeepsIInv
  <2> QED
    BY <2>1, <2>2
<1>12. CASE SaveMintedVehicle(j)
  <2>1. /\ jobs[j].at \notin Burning /\ frame /\ Save(j, rec, VehicleSDColumns)
        /\ Move(j, "finish", rec) \/ Put(j, Errored(jobs[j]))
    BY <1>12 DEF SaveMintedVehicle, Burning
  <2>2. JobCalm(j)
    BY <1>1, <2>1, MoveCalm, EndCalm DEF Places, Burning, BurnPlaces
  <2>3. RowsCalm
    BY <1>1, <2>1, SaveCalm DEF ColumnLists
  <2> QED
    BY <2>1, <2>2, <2>3, CalmKeepsIInv
<1>13. CASE SaveMintedSD(j)
  <2>1. /\ jobs[j].at \notin Burning /\ frame /\ Save(j, rec, SDColumns)
        /\ Put(j, Completed)
    BY <1>13 DEF SaveMintedSD, Burning
  <2>2. RowsCalm
    BY <1>1, <2>1, SaveCalm DEF ColumnLists
  <2> QED
    BY <2>1, <2>2, EndCalm, CalmKeepsIInv
<1>14. CASE FinishOnboard(j)
  <2> DEFINE done == [rec EXCEPT !.status = OnboardingStatusMintSuccess]
  <2>1. /\ jobs[j].at \notin Burning /\ frame /\ Save(j, done, StatusColumn)
        /\ Put(j, Completed)
    BY <1>14 DEF FinishOnboard, Burning
  <2>2. done \in Row /\ Sound(v, done, vehicles, sds)
    BY <1>1, <1>2, StoredCodes
  <2> HIDE DEF done
  <2>3. RowsCalm
    BY <2>1, <2>2, SaveCalm DEF ColumnLists
  <2> QED
    BY <2>1, <2>3, EndCalm, CalmKeepsIInv
<1> QED
  BY <1>3, <1>4, <1>5, <1>7, <1>10, <1>11, <1>12, <1>13, <1>14 DEF OnboardStep

-----------------------------------------------------------------------------
(* The burns, and the death of the process.                                *)

\* What a burn makes of a record is sound: it forgets an SD with its index.
LEMMA BurnRecords ==
  ASSUME NEW job \in Job, Sound(job.vin, job.record, vehicles, sds)
  PROVE  /\ BurnFailed(job) \in Row /\ BurnDone(job) \in Row
         /\ Sound(job.vin, BurnFailed(job), vehicles, sds)
         /\ Sound(job.vin, BurnDone(job), vehicles, sds)
<1> DEFINE rec == job.record
<1>1. rec \in Row /\ job.vin \in Vins
  BY DEF Job
<1>2. /\ OnboardingStatusBurnSDFailure \in StoredStatus
      /\ OnboardingStatusBurnSDSuccess \in StoredStatus
      /\ OnboardingStatusBurnVehicleFailure \in StoredStatus
      /\ OnboardingStatusBurnVehicleSuccess \in StoredStatus
  BY StoredCodes
<1>3. BurnFailed(job) \in Row /\ Sound(job.vin, BurnFailed(job), vehicles, sds)
  <2> DEFINE s == IF job.kind = "disconnect" THEN OnboardingStatusBurnSDFailure
                                             ELSE OnboardingStatusBurnVehicleFailure
  <2>1. s \in StoredStatus
    BY <1>2
  <2>2. BurnFailed(job) = [rec EXCEPT !.status = s]
    BY DEF BurnFailed
  <2> HIDE DEF s
  <2> QED
    BY <1>1, <2>1, <2>2, WithStatus
<1>4. BurnDone(job) \in Row /\ Sound(job.vin, BurnDone(job), vehicles, sds)
  <2>1. CASE job.kind = "disconnect"
    BY <1>1, <1>2, <2>1 DEF BurnDone, Row, Sound
  <2>2. CASE job.kind # "disconnect"
    BY <1>1, <1>2, <2>2 DEF BurnDone, Row, Sound
  <2> QED
    BY <2>1, <2>2
<1> QED
  BY <1>3, <1>4

\* A worker that moves on without touching the table: all of the invariant but
\* what it says of the locks.
LEMMA MoveKeepsTokens ==
  ASSUME IInv, NEW j \in Jobs, jobs[j].at # "mint",
         NEW place \in Places \ {"mint"}, NEW rec \in Row,
         place \in BurnPlaces => jobs[j].kind \in BurnKinds,
         Sound(jobs[j].vin, rec, vehicles, sds), Move(j, place, rec),
         burned' \in [vehicles : SUBSET Nat, sds : SUBSET Nat],
         locked' \in [BurnKinds -> BOOLEAN], failures' \in Nat,
         UNCHANGED <<vins, requests, vehicles, sds, seq>>
  PROVE  /\ TypeOK' /\ RowsSound' /\ JobsSound' /\ CopiesSound' /\ BatchesLast'
         /\ TokensFresh' /\ IndexesFresh' /\ BurnersBurn'
         /\ jobs'[j].at = place /\ jobs'[j].kind = jobs[j].kind
         /\ \A i \in Jobs \ {j} : jobs'[i] = jobs[i]
<1> USE DEF IInv
<1> DEFINE job == [jobs[j] EXCEPT !.at = place, !.record = rec]
<1>1. jobs \in [Jobs -> Job] /\ jobs[j] \in Job
  BY DEF TypeOK
<1>2. /\ job \in Job /\ job.at = place /\ job.record = rec /\ job.vin = jobs[j].vin
      /\ job.kind = jobs[j].kind
  BY <1>1 DEF Job
<1>3. jobs' = [jobs EXCEPT ![j] = job]
  BY DEF Move, Put
<1> HIDE DEF job
<1>4. /\ jobs' \in [Jobs -> Job] /\ jobs'[j] = job
      /\ \A i \in Jobs \ {j} : jobs'[i] = jobs[i]
  BY <1>1, <1>2, <1>3
<1>5. TypeOK'
  BY <1>4 DEF TypeOK
<1>6. RowsSound' /\ CopiesSound' /\ BatchesLast' /\ TokensFresh'
  BY DEF RowsSound, CopiesSound, BatchesLast, TokensFresh
<1>7. JobsSound'
  BY <1>2, <1>4 DEF JobsSound
<1>8. IndexesFresh' /\ BurnersBurn'
  BY <1>2, <1>4 DEF IndexesFresh, BurnersBurn
<1> QED
  BY <1>2, <1>4, <1>5, <1>6, <1>7, <1>8

\* Nothing survives the process but the table, the queue and the chain.
LEMMA DieKeepsIInv ==
  ASSUME IInv, Die, failures' \in Nat, UNCHANGED <<vins, chain, seq>>
  PROVE  IInv'
<1> USE DEF IInv
<1>1. jobs \in [Jobs -> Job]
  BY DEF TypeOK
<1>2. /\ jobs' = [j \in Jobs |-> IF ~Running(j) THEN jobs[j] ELSE Errored(jobs[j])]
      /\ requests' = [r \in Requests |-> NoRequest]
      /\ locked' = [k \in BurnKinds |-> FALSE]
  BY DEF Die
<1>3. \A j \in Jobs : /\ jobs'[j] \in Job
                       /\ jobs'[j].at \in {"none", "available", "ended"}
                       /\ Sound(jobs'[j].vin, jobs'[j].record, vehicles, sds)
  <2> SUFFICES ASSUME NEW j \in Jobs
               PROVE  /\ jobs'[j] \in Job
                      /\ jobs'[j].at \in {"none", "available", "ended"}
                      /\ Sound(jobs'[j].vin, jobs'[j].record, vehicles, sds)
    OBVIOUS
  <2>1. CASE ~Running(j)
    BY <1>1, <1>2, <2>1 DEF Running, Pending, JobsSound
  <2>2. CASE Running(j)
    BY <1>1, <1>2, <2>2, ErroredJobs, NewRows
  <2> QED
    BY <2>1, <2>2
<1>4. NoRequest \in Request /\ NoRequest.at = "none"
      /\ \A v \in Vins : NoRequest.rows[v] = NoRow
  BY NewRows DEF NoRequest, Request, Kinds
<1>5. TypeOK'
  BY <1>2, <1>3, <1>4 DEF TypeOK, chain
<1>6. RowsSound' /\ JobsSound' /\ TokensFresh'
  BY <1>3 DEF RowsSound, JobsSound, TokensFresh, chain
<1>7. CopiesSound' /\ BatchesLast'
  BY <1>2, <1>4, NewRows DEF CopiesSound, BatchesLast, chain
<1>8. IndexesFresh' /\ BurnersBurn'
  BY <1>3 DEF IndexesFresh, BurnersBurn, BurnPlaces, chain
<1>9. LocksAreReleased' /\ BurnsExclude'
  BY <1>2, <1>3 DEF LocksAreReleased, BurnsExclude, OneBurnAtATime, InBurn
<1> QED
  BY <1>5, <1>6, <1>7, <1>8, <1>9

LEMMA CrashKeepsIInv ==
  ASSUME IInv, Crash
  PROVE  IInv'
  BY DieKeepsIInv DEF Crash, Fail, IInv, TypeOK

LEMMA FatalUnlockKeepsIInv ==
  ASSUME IInv, NEW j \in Jobs, FatalUnlock(j)
  PROVE  IInv'
  BY DieKeepsIInv DEF FatalUnlock, IInv, TypeOK

\* A release of a lock: of one's own, or of one that another job has taken in
\* between.
LEMMA UnlockKeepsIInv ==
  ASSUME IInv, NEW j \in Jobs, NEW rec \in Row,
         Sound(jobs[j].vin, rec, vehicles, sds), NEW place \in Places,
         \/ jobs[j].at = "unlock" /\ place = "saveBurn"
         \/ jobs[j].at = "unlockTwice" /\ place = "unlock",
         Unlock(j, place, rec)
  PROVE  IInv'
<1> USE DEF IInv
<1> DEFINE kind == jobs[j].kind
<1>1. UNCHANGED <<vins, chain, seq, failures>> /\ failures' \in Nat
  BY DEF Unlock, TypeOK
<1>2. /\ locked[kind]
      /\ locked' = [locked EXCEPT ![kind] = FALSE]
      /\ Move(j, place, rec)
      /\ UNCHANGED requests
  BY DEF Unlock
<1>3. locked \in [BurnKinds -> BOOLEAN]
  BY DEF TypeOK
<1>4. /\ locked' \in [BurnKinds -> BOOLEAN]
      /\ burned' \in [vehicles : SUBSET Nat, sds : SUBSET Nat]
      /\ UNCHANGED <<vins, requests, vehicles, sds, seq>>
  BY <1>1, <1>2, <1>3 DEF TypeOK, chain
<1>5. /\ TypeOK' /\ RowsSound' /\ JobsSound' /\ CopiesSound' /\ BatchesLast'
      /\ TokensFresh' /\ IndexesFresh' /\ BurnersBurn'
      /\ jobs'[j].at = place /\ jobs'[j].kind = jobs[j].kind
      /\ \A i \in Jobs \ {j} : jobs'[i] = jobs[i]
  BY <1>1, <1>2, <1>4, MoveKeepsTokens DEF BurnersBurn, BurnPlaces
<1>6. \A k \in BurnKinds : locked'[k] => k # kind /\ locked[k]
  BY <1>2, <1>3
<1>7. LocksAreReleased'
  BY <1>5, <1>6 DEF LocksAreReleased, InBurn
<1>8. ASSUME "burnResult" \notin Failures
      PROVE  /\ \A i \in Jobs : jobs'[i].at # "unlockTwice"
             /\ \A i \in Jobs : InBurn(i)' => locked'[jobs'[i].kind]
             /\ OneBurnAtATime'
  <2>1. /\ \A i \in Jobs : jobs[i].at # "unlockTwice"
        /\ \A i \in Jobs : InBurn(i) => locked[jobs[i].kind]
        /\ OneBurnAtATime
    BY <1>8 DEF BurnsExclude
  <2>2. jobs[j].at = "unlock" /\ place = "saveBurn" /\ InBurn(j)
    BY <2>1 DEF InBurn
  <2>3. \A i \in Jobs : InBurn(i)' => i # j /\ InBurn(i) /\ jobs'[i] = jobs[i]
    BY <1>5, <2>2 DEF InBurn
  <2>4. \A i \in Jobs : InBurn(i)' => jobs[i].kind # kind
    BY <2>1, <2>2, <2>3 DEF OneBurnAtATime
  <2>5. \A i \in Jobs : InBurn(i)' => locked'[jobs'[i].kind]
    BY <1>2, <1>3, <2>1, <2>3, <2>4
  <2>6. \A i \in Jobs : jobs'[i].at # "unlockTwice"
    BY <1>5, <2>1, <2>2
  <2> QED
    BY <2>1, <2>3, <2>5, <2>6 DEF OneBurnAtATime
<1>9. BurnsExclude'
  BY <1>8 DEF BurnsExclude
<1> QED
  BY <1>5, <1>7, <1>9

LEMMA LockKeepsIInv ==
  ASSUME IInv, NEW j \in Jobs, Lock(j)
  PROVE  IInv'
<1> USE DEF IInv
<1> DEFINE kind == jobs[j].kind
           rec == jobs[j].record
<1>1. /\ jobs[j].at = "lock" /\ ~locked[kind] /\ Move(j, "burn", rec)
      /\ locked' = [locked EXCEPT ![kind] = TRUE]
      /\ UNCHANGED <<vins, requests, chain, seq, failures>>
  BY DEF Lock
<1>2. /\ kind \in BurnKinds /\ locked \in [BurnKinds -> BOOLEAN]
      /\ rec \in Row /\ Sound(jobs[j].vin, rec, vehicles, sds)
  BY <1>1 DEF TypeOK, Job, BurnersBurn, BurnPlaces, JobsSound
<1>3. /\ locked' \in [BurnKinds -> BOOLEAN] /\ locked'[kind]
      /\ \A k \in BurnKinds \ {kind} : locked'[k] = locked[k]
  BY <1>1, <1>2
<1>4. /\ TypeOK' /\ RowsSound' /\ JobsSound' /\ CopiesSound' /\ BatchesLast'
      /\ TokensFresh' /\ IndexesFresh' /\ BurnersBurn'
      /\ jobs'[j].at = "burn" /\ jobs'[j].kind = kind
      /\ \A i \in Jobs \ {j} : jobs'[i] = jobs[i]
  BY <1>1, <1>2, <1>3, MoveKeepsTokens DEF TypeOK, chain, Places, BurnPlaces
<1>5. LocksAreReleased'
  <2> SUFFICES ASSUME NEW k \in BurnKinds, locked'[k]
               PROVE  \E i \in Jobs : InBurn(i)' /\ jobs'[i].kind = k
    BY DEF LocksAreReleased
  <2>1. CASE k = kind
    BY <1>4, <2>1 DEF InBurn
  <2>2. CASE k # kind
    <3>1. PICK i \in Jobs : InBurn(i) /\ jobs[i].kind = k
      BY <1>3, <2>2 DEF LocksAreReleased
    <3>2. i # j
      BY <2>2, <3>1
    <3> QED
      BY <1>4, <3>1, <3>2 DEF InBurn
  <2> QED
    BY <2>1, <2>2
<1>6. ASSUME "burnResult" \notin Failures
      PROVE  /\ \A i \in Jobs : jobs'[i].at # "unlockTwice"
             /\ \A i \in Jobs : InBurn(i)' => locked'[jobs'[i].kind]
             /\ OneBurnAtATime'
  <2>1. /\ \A i \in Jobs : jobs[i].at # "unlockTwice"
        /\ \A i \in Jobs : InBurn(i) => locked[jobs[i].kind]
        /\ OneBurnAtATime
    BY <1>6 DEF BurnsExclude
  <2>2. \A i \in Jobs \ {j} : InBurn(i)' <=> InBurn(i)
    BY <1>4 DEF InBurn
  <2>3. \A i \in Jobs \ {j} : InBurn(i) => jobs[i].kind \in BurnKinds \ {kind}
    BY <1>1, <2>1 DEF InBurn, BurnersBurn, BurnPlaces
  <2>4. \A i \in Jobs : InBurn(i)' => locked'[jobs'[i].kind]
    BY <1>3, <1>4, <2>1, <2>2, <2>3
  <2>5. OneBurnAtATime'
    BY <1>4, <2>1, <2>2, <2>3 DEF OneBurnAtATime
  <2> QED
    BY <1>4, <2>1, <2>4, <2>5
<1>7. BurnsExclude'
  BY <1>6 DEF BurnsExclude
<1> QED
  BY <1>4, <1>5, <1>7

LEMMA SendBurnOperationKeepsIInv ==
  ASSUME IInv, NEW j \in Jobs, SendBurnOperation(j)
  PROVE  IInv'
<1> USE DEF IInv
<1> DEFINE job == jobs[j]
<1>1. /\ job \in Job /\ job.at = "burn" /\ job.op \in Nat
      /\ Sound(job.vin, job.record, vehicles, sds)
      /\ UNCHANGED <<vins, requests, vehicles, sds, seq, locked>>
  BY DEF SendBurnOperation, TypeOK, Job, JobsSound
<1>2. burned \in [vehicles : SUBSET Nat, sds : SUBSET Nat] /\ failures \in Nat
  BY DEF TypeOK
<1>3. ChainBurn(job) => burned' \in [vehicles : SUBSET Nat, sds : SUBSET Nat]
  BY <1>1, <1>2 DEF ChainBurn
<1>4. /\ burned' \in [vehicles : SUBSET Nat, sds : SUBSET Nat]
      /\ failures' \in Nat
      /\ \/ Move(j, "unlock", BurnFailed(job))
         \/ Move(j, "unlock", BurnDone(job))
         \/ "burnResult" \in Failures /\ Move(j, "unlockTwice", BurnFailed(job))
  BY <1>2, <1>3 DEF SendBurnOperation, Fail
<1>5. PICK place \in {"unlock", "unlockTwice"}, rec \in Row :
        /\ Move(j, place, rec) /\ Sound(job.vin, rec, vehicles, sds)
        /\ place = "unlockTwice" => "burnResult" \in Failures
  BY <1>1, <1>4, BurnRecords
<1>6. /\ TypeOK' /\ RowsSound' /\ JobsSound' /\ CopiesSound' /\ BatchesLast'
      /\ TokensFresh' /\ IndexesFresh' /\ BurnersBurn'
      /\ jobs'[j].at = place /\ jobs'[j].kind = job.kind
      /\ \A i \in Jobs \ {j} : jobs'[i] = jobs[i]
  <2>1. locked' \in [BurnKinds -> BOOLEAN]
    BY <1>1 DEF TypeOK
  <2>2. place \in Places \ {"mint"} /\ job.kind \in BurnKinds
    BY <1>1 DEF Places, BurnersBurn, BurnPlaces
  <2> QED
    BY <1>1, <1>4, <1>5, <2>1, <2>2, MoveKeepsTokens
<1>7. \A i \in Jobs : (InBurn(i)' <=> InBurn(i)) /\ jobs'[i].kind = jobs[i].kind
  BY <1>1, <1>6 DEF InBurn
<1>8. LocksAreReleased' /\ BurnsExclude'
  BY <1>1, <1>5, <1>6, <1>7 DEF LocksAreReleased, BurnsExclude, OneBurnAtATime
<1> QED
  BY <1>6, <1>8

LEMMA BurnKeepsIInv ==
  ASSUME IInv, NEW j \in Jobs, BurnStep(j)
  PROVE  IInv'
<1> DEFINE v == jobs[j].vin
           rec == jobs[j].record
           frame == UNCHANGED <<requests, chain, seq, locked>>
<1> USE DEF IInv
<1>1. /\ jobs[j] \in Job /\ v \in Vins /\ rec \in Row
      /\ Sound(v, rec, vehicles, sds)
  BY DEF TypeOK, Job, JobsSound
<1>2. /\ BurnFailed(jobs[j]) \in Row /\ Sound(v, BurnFailed(jobs[j]), vehicles, sds)
      /\ BurnDone(jobs[j]) \in Row /\ Sound(v, BurnDone(jobs[j]), vehicles, sds)
  BY <1>1, BurnRecords
<1>3. CASE StartDisconnect(j)
  <2>1. jobs[j].kind \in BurnKinds
    BY <1>3 DEF StartDisconnect, StartOrEnd, Start, BurnKinds
  <2> QED
    BY <1>3, <2>1, StartKeepsIInv DEF StartDisconnect, Places, Burning
<1>4. CASE StartDelete(j)
  <2>1. jobs[j].kind \in BurnKinds
    BY <1>4 DEF StartDelete, StartOrEnd, Start, BurnKinds
  <2> QED
    BY <1>4, <2>1, StartKeepsIInv DEF StartDelete, Places, Burning
<1>5. CASE DisconnectFromVendor(j)
  <2> DEFINE new == Disconnected(rec)
             result(r, s) == [r EXCEPT !.status = s]
  <2>1. /\ jobs[j].at \notin Burning /\ frame /\ jobs[j].kind \in BurnKinds
    BY <1>5 DEF DisconnectFromVendor, Burning, BurnersBurn, BurnPlaces
  <2>2. new \in Row /\ Sound(v, new, vehicles, sds)
    BY <1>1, EnrollmentSound
  <2>3. PICK r \in {rec, new}, s \in StoredStatus :
          Move(j, "saveDisconnect", result(r, s))
    BY <1>5, StoredCodes DEF DisconnectFromVendor
  <2>4. \/ Save(j, new, EnrollColumns)
        \/ UNCHANGED vins /\ ((UNCHANGED failures) \/ Fail("lostWrite"))
    BY <1>5 DEF DisconnectFromVendor
  <2>5. result(r, s) \in Row /\ Sound(v, result(r, s), vehicles, sds)
    BY <1>1, <2>2, <2>3, WithStatus
  <2> HIDE DEF new, result
  <2>6. JobCalm(j)
    BY <2>1, <2>3, <2>5, MoveCalm DEF Places, Burning
  <2>7. RowsCalm
    BY <2>2, <2>4, SaveCalm, NoSave DEF ColumnLists
  <2> QED
    BY <2>1, <2>6, <2>7, CalmKeepsIInv
<1>6. CASE SaveDisconnect(j)
  <2>1. /\ jobs[j].at \notin Burning /\ frame /\ Save(j, rec, StatusColumn)
        /\ jobs[j].kind \in BurnKinds
        /\ Put(j, Errored(jobs[j])) \/ Put(j, Completed) \/ Move(j, "lock", rec)
    BY <1>6 DEF SaveDisconnect, Burning, BurnersBurn, BurnPlaces
  <2>2. JobCalm(j)
    BY <1>1, <2>1, MoveCalm, EndCalm DEF Places, Burning
  <2>3. RowsCalm
    BY <1>1, <2>1, SaveCalm DEF ColumnLists
  <2> QED
    BY <2>1, <2>2, <2>3, CalmKeepsIInv
<1>7. CASE Lock(j)
  BY <1>7, LockKeepsIInv
<1>8. CASE SendBurnOperation(j)
  BY <1>8, SendBurnOperationKeepsIInv
<1>9. CASE UnlockBurn(j)
  BY <1>1, <1>9, UnlockKeepsIInv DEF UnlockBurn, Places
<1>10. CASE UnlockTwice(j)
  BY <1>2, <1>10, UnlockKeepsIInv DEF UnlockTwice, Places
<1>11. CASE SaveBurn(j)
  <2> DEFINE columns == IF jobs[j].kind = "disconnect" THEN SDColumns
                                                      ELSE VehicleColumns
  <2>1. /\ jobs[j].at \notin Burning /\ frame /\ Save(j, rec, columns)
        /\ Put(j, Completed)
    BY <1>11 DEF SaveBurn, Burning
  <2>2. columns \in ColumnLists
    BY DEF ColumnLists
  <2> HIDE DEF columns
  <2>3. RowsCalm
    BY <1>1, <2>1, <2>2, SaveCalm
  <2> QED
    BY <2>1, <2>3, EndCalm, CalmKeepsIInv
<1> QED
  BY <1>3, <1>4, <1>5, <1>6, <1>7, <1>8, <1>9, <1>10, <1>11 DEF BurnStep

-----------------------------------------------------------------------------
(* The submit handlers.                                                    *)

\* What a handler queues for and writes back of the next VIN of its batch.
LEMMA Copies ==
  ASSUME IInv, NEW r \in Requests, requests[r].at # "none"
  PROVE  LET v == Head(requests[r].batch)
         IN  /\ v \in Vins /\ Copy(r, v) \in Row
             /\ Sound(v, Copy(r, v), vehicles, sds)
<1> DEFINE req == requests[r]
           v == Head(req.batch)
<1>1. req \in Request /\ req.kind \in Kinds /\ req.batch \in Seq(Vins)
      /\ req.rows \in [Vins -> Row]
  BY DEF IInv, TypeOK, Request
<1>2. v \in Vins
  BY <1>1 DEF IInv, BatchesLast
<1>3. req.rows[v] \in Row /\ Sound(v, req.rows[v], vehicles, sds)
  BY <1>1, <1>2 DEF IInv, CopiesSound
<1>4. UnknownStatus(req.kind) \in StoredStatus
  BY <1>1, StoredCodes DEF UnknownStatus, Kinds
<1> HIDE DEF v, req
<1>5. Copy(r, v) \in Row /\ Sound(v, Copy(r, v), vehicles, sds)
  BY <1>3, <1>4, NewRows DEF Copy, req
<1> QED
  BY <1>2, <1>5 DEF v, req

LEMMA BeginRequestKeepsIInv ==
  ASSUME IInv, NEW r \in Requests, BeginRequest(r)
  PROVE  IInv'
<1> USE DEF IInv
<1>1. PICK kind \in Offered, batch \in Batches :
        requests' = [requests EXCEPT ![r] =
          [kind |-> kind, batch |-> batch,
           at |-> IF kind = "onboard" THEN "reread" ELSE "submit",
           rows |-> [v \in Vins |-> IF \E i \in DOMAIN batch : batch[i] = v
                                      THEN vins[v] ELSE NoRow]]]
  BY DEF BeginRequest
<1> DEFINE rows == [v \in Vins |-> IF \E i \in DOMAIN batch : batch[i] = v
                                     THEN vins[v] ELSE NoRow]
           req == [kind |-> kind, batch |-> batch,
                   at |-> IF kind = "onboard" THEN "reread" ELSE "submit",
                   rows |-> rows]
<1>2. UNCHANGED <<vins, jobs, chain, seq, locked, failures>>
  BY DEF BeginRequest
<1>3. batch \in Seq(Vins) /\ batch # <<>>
  <2>1. PICK n \in 1..MaxBatch : batch \in [1..n -> Vins]
    BY DEF Batches
  <2>2. n \in Nat /\ n # 0
    BY BoundsAssumption
  <2> QED
    BY <2>1, <2>2
<1>4. rows \in [Vins -> Row] /\ \A v \in Vins : Sound(v, rows[v], vehicles, sds)
  BY NewRows DEF TypeOK, RowsSound
<1>5. kind \in Kinds
  BY InputAssumption
<1> HIDE DEF rows
<1>6. /\ req \in Request /\ req.batch # <<>>
      /\ \A v \in Vins : Sound(v, req.rows[v], vehicles, sds)
  BY <1>3, <1>4, <1>5 DEF Request
<1>7. requests' = [requests EXCEPT ![r] = req]
  BY <1>1 DEF rows
<1> HIDE DEF req
<1>8. requests \in [Requests -> Request]
  BY DEF TypeOK
<1>9. TypeOK'
  BY <1>2, <1>6, <1>7, <1>8 DEF TypeOK, chain
<1>10. CopiesSound' /\ BatchesLast'
  BY <1>2, <1>6, <1>7, <1>8 DEF CopiesSound, BatchesLast, chain
<1>11. /\ RowsSound' /\ JobsSound' /\ TokensFresh' /\ IndexesFresh'
       /\ BurnersBurn' /\ LocksAreReleased' /\ BurnsExclude'
  BY <1>2 DEF RowsSound, JobsSound, TokensFresh, IndexesFresh, BurnersBurn,
    LocksAreReleased, BurnsExclude, OneBurnAtATime, InBurn, chain
<1> QED
  BY <1>9, <1>10, <1>11

LEMMA RereadMintedKeepsIInv ==
  ASSUME IInv, NEW r \in Requests, RereadMinted(r)
  PROVE  IInv'
<1> USE DEF IInv
<1>1. PICK rows \in [Vins -> Row] :
        /\ requests' = [requests EXCEPT ![r] =
             [requests[r] EXCEPT !.at = "submit", !.rows = rows]]
        /\ \A v \in Vins : rows[v] \in {vins[v], requests[r].rows[v]}
  <2> DEFINE again(v) == /\ \E i \in DOMAIN requests[r].batch : requests[r].batch[i] = v
                         /\ GetVehiclesByVinsAndOnboardingStatus(vins[v], OnboardingStatusMintSuccess)
                         /\ vins[v].conn = "failed"
             new == [v \in Vins |-> IF again(v) THEN vins[v] ELSE requests[r].rows[v]]
  <2>1. requests' = [requests EXCEPT ![r] =
          [requests[r] EXCEPT !.at = "submit", !.rows = new]]
    BY DEF RereadMinted
  <2>2. new \in [Vins -> Row] /\ \A v \in Vins : new[v] \in {vins[v], requests[r].rows[v]}
    <3> HIDE DEF again
    <3> QED
      BY DEF TypeOK, Request
  <2> QED
    BY <2>1, <2>2
<1>2. requests[r].at = "reread" /\ UNCHANGED <<vins, jobs, chain, seq, locked, failures>>
  BY DEF RereadMinted
<1>3. /\ requests' \in [Requests -> Request]
      /\ requests'[r].rows = rows /\ requests'[r].batch = requests[r].batch
      /\ \A q \in Requests \ {r} : requests'[q] = requests[q]
  <2> DEFINE req == [requests[r] EXCEPT !.at = "submit", !.rows = rows]
  <2>1. requests \in [Requests -> Request] /\ requests[r] \in Request
    BY DEF TypeOK
  <2>2. req \in Request /\ req.rows = rows /\ req.batch = requests[r].batch
    BY <2>1 DEF Request
  <2>3. requests' = [requests EXCEPT ![r] = req]
    BY <1>1
  <2> HIDE DEF req
  <2> QED
    BY <2>1, <2>2, <2>3
<1>4. TypeOK'
  BY <1>2, <1>3 DEF TypeOK, chain
<1>5. \A v \in Vins : Sound(v, rows[v], vehicles, sds)
  BY <1>1 DEF RowsSound, CopiesSound
<1>6. CopiesSound' /\ BatchesLast'
  BY <1>2, <1>3, <1>5 DEF CopiesSound, BatchesLast, chain
<1>7. /\ RowsSound' /\ JobsSound' /\ TokensFresh' /\ IndexesFresh'
      /\ BurnersBurn' /\ LocksAreReleased' /\ BurnsExclude'
  BY <1>2 DEF RowsSound, JobsSound, TokensFresh, IndexesFresh, BurnersBurn,
    LocksAreReleased, BurnsExclude, OneBurnAtATime, InBurn, chain
<1> QED
  BY <1>4, <1>6, <1>7

\* A handler that cannot read the rows forgets its request.
LEMMA HandlerReadFailsKeepsIInv ==
  ASSUME IInv, NEW r \in Requests, HandlerReadFails(r)
  PROVE  IInv'
<1> USE DEF IInv
<1>1. /\ requests' = [requests EXCEPT ![r] = NoRequest]
      /\ failures' = failures + 1 /\ UNCHANGED <<vins, jobs, chain, seq, locked>>
  BY DEF HandlerReadFails, Fail
<1>2. NoRequest \in Request /\ NoRequest.at = "none"
      /\ \A v \in Vins : NoRequest.rows[v] = NoRow
  BY NewRows DEF NoRequest, Request, Kinds
<1>3. /\ requests' \in [Requests -> Request] /\ requests'[r] = NoRequest
      /\ \A q \in Requests \ {r} : requests'[q] = requests[q]
  BY <1>1, <1>2 DEF TypeOK
<1>4. TypeOK'
  BY <1>1, <1>3 DEF TypeOK, chain
<1>5. CopiesSound' /\ BatchesLast'
  BY <1>1, <1>2, <1>3, NewRows DEF CopiesSound, BatchesLast, chain
<1>6. /\ RowsSound' /\ JobsSound' /\ TokensFresh' /\ IndexesFresh'
      /\ BurnersBurn' /\ LocksAreReleased' /\ BurnsExclude'
  BY <1>1 DEF RowsSound, JobsSound, TokensFresh, IndexesFresh, BurnersBurn,
    LocksAreReleased, BurnsExclude, OneBurnAtATime, InBurn, chain
<1> QED
  BY <1>4, <1>5, <1>6

LEMMA SubmitJobKeepsIInv ==
  ASSUME IInv, NEW r \in Requests, SubmitJob(r)
  PROVE  IInv'
<1> USE DEF IInv
<1> DEFINE v == Head(requests[r].batch)
           kind == requests[r].kind
           job == Available(kind, v, Operation(kind, Copy(r, v)), 0)
<1>1. /\ requests[r].at = "submit"
      /\ requests' = [requests EXCEPT ![r].at = "upsert"]
      /\ UNCHANGED <<vins, chain, seq, locked, failures>>
      /\ \/ \E j \in Jobs : NextJob(j) /\ Put(j, job)
         \/ UNCHANGED jobs
  BY DEF SubmitJob
<1>2. /\ requests \in [Requests -> Request] /\ kind \in Kinds
      /\ jobs \in [Jobs -> Job]
  BY DEF TypeOK, Request
<1>3. v \in Vins /\ Copy(r, v) \in Row
  BY <1>1, Copies
<1>4. Operation(kind, Copy(r, v)) \in Nat
  BY <1>3 DEF Operation, Row
<1>5. job \in Job /\ job.at = "available" /\ job.record = NoRow
  BY <1>2, <1>3, <1>4, IdleJobs
<1> HIDE DEF job, v, kind
<1>6. /\ requests' \in [Requests -> Request]
      /\ \A q \in Requests : /\ requests'[q].batch = requests[q].batch
                              /\ requests'[q].rows = requests[q].rows
                              /\ requests'[q].at # "none" => requests[q].at # "none"
  BY <1>1, <1>2 DEF Request
<1>7. CopiesSound' /\ BatchesLast'
  BY <1>1, <1>6 DEF CopiesSound, BatchesLast, chain
<1>8. RowsSound' /\ TokensFresh'
  BY <1>1 DEF RowsSound, TokensFresh, chain
<1>9. CASE UNCHANGED jobs
  <2>1. TypeOK'
    BY <1>1, <1>6, <1>9 DEF TypeOK, chain
  <2>2. JobsSound' /\ IndexesFresh' /\ BurnersBurn' /\ LocksAreReleased' /\ BurnsExclude'
    BY <1>1, <1>9 DEF JobsSound, IndexesFresh, BurnersBurn, LocksAreReleased,
      BurnsExclude, OneBurnAtATime, InBurn, chain
  <2> QED
    BY <1>7, <1>8, <2>1, <2>2
<1>10. CASE \E j \in Jobs : NextJob(j) /\ Put(j, job)
  <2>1. PICK j \in Jobs : jobs[j].at = "none" /\ jobs' = [jobs EXCEPT ![j] = job]
    BY <1>10 DEF NextJob, Put
  <2>2. /\ jobs' \in [Jobs -> Job] /\ jobs'[j] = job
        /\ \A i \in Jobs \ {j} : jobs'[i] = jobs[i]
    BY <1>2, <1>5, <2>1
  <2>3. TypeOK'
    BY <1>1, <1>6, <2>2 DEF TypeOK, chain
  <2>4. JobsSound'
    BY <1>1, <1>5, <2>2, NewRows DEF JobsSound, chain
  <2>5. IndexesFresh' /\ BurnersBurn'
    BY <1>1, <1>5, <2>2 DEF IndexesFresh, BurnersBurn, BurnPlaces, chain
  <2>6. \A i \in Jobs : /\ InBurn(i)' <=> InBurn(i)
                        /\ InBurn(i) => jobs'[i] = jobs[i]
                        /\ jobs'[i].at = "unlockTwice" => jobs[i].at = "unlockTwice"
    BY <1>5, <2>1, <2>2 DEF InBurn
  <2>7. LocksAreReleased' /\ BurnsExclude'
    BY <1>1, <2>6 DEF LocksAreReleased, BurnsExclude, OneBurnAtATime
  <2> QED
    BY <1>7, <1>8, <2>3, <2>4, <2>5, <2>7
<1> QED
  BY <1>1, <1>9, <1>10

LEMMA UpsertVinKeepsIInv ==
  ASSUME IInv, NEW r \in Requests, UpsertVin(r)
  PROVE  IInv'
<1> USE DEF IInv
<1> DEFINE v == Head(requests[r].batch)
           req == requests[r]
           next == IF Len(req.batch) = 1 THEN NoRequest
                   ELSE [req EXCEPT !.at = "submit", !.batch = Tail(@)]
<1>1. /\ req.at = "upsert" /\ UNCHANGED <<jobs, chain, seq, locked>>
      /\ \/ /\ vins' = [vins EXCEPT ![v] = Upsert(vins[v], Copy(r, v))]
            /\ requests' = [requests EXCEPT ![r] = next]
            /\ UNCHANGED failures
         \/ /\ Fail("lostWrite")
            /\ requests' = [requests EXCEPT ![r] = NoRequest]
            /\ UNCHANGED vins
  BY DEF UpsertVin
<1>2. /\ requests \in [Requests -> Request] /\ vins \in [Vins -> Row]
      /\ failures \in Nat /\ req.batch \in Seq(Vins) /\ req.batch # <<>>
  BY <1>1 DEF TypeOK, Request, BatchesLast
<1>3. v \in Vins /\ Copy(r, v) \in Row /\ Sound(v, Copy(r, v), vehicles, sds)
  BY <1>1, Copies
<1>4. /\ NoRequest \in Request /\ NoRequest.at = "none"
      /\ \A w \in Vins : NoRequest.rows[w] = NoRow
  BY NewRows DEF NoRequest, Request, Kinds
<1>5. next \in Request /\ (next.at # "none" => next.batch # <<>>)
      /\ \A w \in Vins : next.rows[w] \in {NoRow, req.rows[w]}
  <2>1. CASE Len(req.batch) = 1
    BY <1>4, <2>1
  <2>2. CASE Len(req.batch) # 1
    <3>1. Tail(req.batch) \in Seq(Vins) /\ Tail(req.batch) # <<>>
      <4>1. /\ Tail(req.batch) \in Seq(Vins)
            /\ Len(req.batch) \in Nat /\ Len(req.batch) # 0
            /\ Len(Tail(req.batch)) = Len(req.batch) - 1
        BY <1>2, HeadTailProperties
      <4>2. Len(Tail(req.batch)) # 0
        BY <2>2, <4>1
      <4>3. Len(<<>>) = 0
        OBVIOUS
      <4>4. Tail(req.batch) # <<>>
        BY <4>2, <4>3, Zenon
      <4> QED
        BY <4>1, <4>4
    <3>2. next = [req EXCEPT !.at = "submit", !.batch = Tail(req.batch)]
      BY <2>2
    <3>3. req \in Request
      BY <1>2
    <3> HIDE DEF next, req
    <3> QED
      BY <3>1, <3>2, <3>3 DEF Request
  <2> QED
    BY <2>1, <2>2
<1> HIDE DEF next, v, req
<1>6. PICK new \in {next, NoRequest} : requests' = [requests EXCEPT ![r] = new]
  BY <1>1
<1>7. /\ requests' \in [Requests -> Request]
      /\ requests'[r] = new
      /\ \A q \in Requests \ {r} : requests'[q] = requests[q]
  BY <1>2, <1>4, <1>5, <1>6
<1>8. vins' \in [Vins -> Row] /\ \A w \in Vins : Sound(w, vins'[w], vehicles, sds)
  <2> DEFINE row == Upsert(vins[v], Copy(r, v))
  <2>1. row \in Row /\ Sound(v, row, vehicles, sds)
    BY <1>2, <1>3, UpsertSound DEF RowsSound
  <2>2. vins' = [vins EXCEPT ![v] = row] \/ UNCHANGED vins
    BY <1>1
  <2> HIDE DEF row
  <2> QED
    BY <1>2, <1>3, <2>1, <2>2 DEF RowsSound
<1>9. failures' \in Nat
  BY <1>1, <1>2 DEF Fail
<1>10. TypeOK'
  BY <1>1, <1>7, <1>8, <1>9 DEF TypeOK, chain
<1>11. RowsSound'
  BY <1>1, <1>8 DEF RowsSound, chain
<1>12. CopiesSound' /\ BatchesLast'
  <2>1. \A w \in Vins : Sound(w, new.rows[w], vehicles, sds)
    BY <1>4, <1>5, NewRows DEF CopiesSound, req
  <2>2. new.at # "none" => new.batch # <<>>
    BY <1>4, <1>5
  <2> QED
    BY <1>1, <1>7, <2>1, <2>2 DEF CopiesSound, BatchesLast, chain
<1>13. /\ JobsSound' /\ TokensFresh' /\ IndexesFresh' /\ BurnersBurn'
       /\ LocksAreReleased' /\ BurnsExclude'
  BY <1>1 DEF JobsSound, TokensFresh, IndexesFresh, BurnersBurn,
    LocksAreReleased, BurnsExclude, OneBurnAtATime, InBurn, chain
<1> QED
  BY <1>10, <1>11, <1>12, <1>13

-----------------------------------------------------------------------------
(* The specification.                                                      *)

\* Every step keeps the inductive invariant.
LEMMA NextIInv == IInv /\ [Next]_vars => IInv'
<1> SUFFICES ASSUME IInv, [Next]_vars PROVE IInv'
  OBVIOUS
<1>1. ASSUME NEW j \in Jobs, WorkerStep(j) PROVE IInv'
  BY <1>1, VerifyKeepsIInv, OnboardKeepsIInv, BurnKeepsIInv, FatalUnlockKeepsIInv
  DEF WorkerStep
<1>2. ASSUME NEW r \in Requests, BeginRequest(r) PROVE IInv'
  BY <1>2, BeginRequestKeepsIInv
<1>3. ASSUME NEW r \in Requests, HandlerStep(r) PROVE IInv'
  BY <1>3, RereadMintedKeepsIInv, SubmitJobKeepsIInv, UpsertVinKeepsIInv DEF HandlerStep
<1>4. CASE Crash
  BY <1>4, CrashKeepsIInv
<1>5. CASE ReadFails
  BY <1>5, WorkerReadFailsKeepsIInv, HandlerReadFailsKeepsIInv DEF ReadFails
<1>6. CASE UNCHANGED vars
  BY <1>6 DEF vars, IInv, TypeOK, RowsSound, JobsSound, CopiesSound, BatchesLast,
    TokensFresh, IndexesFresh, BurnersBurn, LocksAreReleased, BurnsExclude,
    OneBurnAtATime, InBurn
<1> QED
  BY <1>1, <1>2, <1>3, <1>4, <1>5, <1>6 DEF Next

\* The inductive invariant holds in every reachable state.
THEOREM InvariantHolds == Spec => []IInv
  BY InitIInv, NextIInv, PTL DEF Spec

\* Every variable keeps its type: no handler and no worker ever stores a status
\* that is not a code of status.go, whatever it started from.
THEOREM TypeCorrect == Spec => []TypeOK
<1>1. IInv => TypeOK
  BY DEF IInv
<1> QED
  BY <1>1, InvariantHolds, PTL

\* A VIN's row names only tokens minted for that VIN, and the wallet index is
\* the one its SD was minted with, however the stale copies of handlers and
\* workers (service/vehicle.go:251, the update methods) are written over one
\* another and whichever of these writes are lost.
THEOREM KeysMatch == Spec => []DeviceKeysMatch
<1>1. IInv => DeviceKeysMatch
  BY DEF IInv, RowsSound, Sound, DeviceKeysMatch, KeyedBy
<1> QED
  BY <1>1, InvariantHolds, PTL

\* No row is both connected and disconnected (onboard.go:415,
\* disconnect.go:128), for the same reason.
THEOREM OneEnrollment == Spec => []NeverBothSucceeded
<1>1. IInv => NeverBothSucceeded
  BY DEF IInv, RowsSound, Sound, NeverBothSucceeded
<1> QED
  BY <1>1, InvariantHolds, PTL

\* No two SDs are minted with one wallet index, and no two VINs hold the same
\* index, SD or vehicle (onboard.go:442-474).
THEOREM UniqueIndexes == Spec => []WalletIndexesAreUnique
<1>1. IInv => WalletIndexesAreUnique
  <2> SUFFICES ASSUME IInv PROVE WalletIndexesAreUnique
    OBVIOUS
  <2>1. \A x, y \in sds : x.wallet = y.wallet => x = y
    BY DEF IInv, TokensFresh
  <2>2. ASSUME NEW v \in Vins, NEW w \in Vins, v # w
        PROVE  /\ vins[v].wallet # 0 => vins[v].wallet # vins[w].wallet
               /\ vins[v].sd # 0 => vins[v].sd # vins[w].sd
               /\ vins[v].veh # 0 => vins[v].veh # vins[w].veh
    <3>1. Sound(v, vins[v], vehicles, sds) /\ Sound(w, vins[w], vehicles, sds)
      BY DEF IInv, RowsSound
    <3>2. /\ \A x, y \in sds : x.id = y.id \/ x.wallet = y.wallet => x = y
          /\ \A x, y \in vehicles : x.id = y.id => x = y
      BY DEF IInv, TokensFresh
    <3>3. vins[v].sd # 0 => vins[v].sd # vins[w].sd
      BY <2>2, <3>1, <3>2 DEF Sound
    <3>4. vins[v].wallet # 0 => vins[v].wallet # vins[w].wallet
      BY <2>2, <3>1, <3>2 DEF Sound
    <3>5. vins[v].veh # 0 => vins[v].veh # vins[w].veh
      BY <2>2, <3>1, <3>2 DEF Sound
    <3> QED
      BY <3>3, <3>4, <3>5
  <2> QED
    BY <2>1, <2>2 DEF WalletIndexesAreUnique
<1> QED
  BY <1>1, InvariantHolds, PTL

\* A mutex that is held is held by a job in its burn, even though a failed
\* burn releases it twice (disconnect.go:163-179, delete.go:121-137).
THEOREM LocksReleased == Spec => []LocksAreReleased
<1>1. IInv => LocksAreReleased
  BY DEF IInv
<1> QED
  BY <1>1, InvariantHolds, PTL

\* Where burn results can be read, no two jobs of a worker are ever in a burn
\* at once.
THEOREM BurnsAreExclusive ==
  ASSUME "burnResult" \notin Failures
  PROVE  Spec => []OneBurnAtATime
<1>1. IInv => OneBurnAtATime
  BY DEF IInv, BurnsExclude
<1> QED
  BY <1>1, InvariantHolds, PTL
=============================================================================
