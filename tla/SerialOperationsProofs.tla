------------------------ MODULE SerialOperationsProofs ------------------------
(***************************************************************************)
(* The invariant of clients that wait for their jobs, with the operations  *)
(* consumer writing to the same rows: it saves a copy that may be as old   *)
(* as it likes at any moment, also while a worker has the VIN in hand, but *)
(* none of the columns that SInv and the lifecycle speak of.               *)
(***************************************************************************)
EXTENDS OperationsProofs, LifecycleProofs

\* All that a job asks of the row is present, status and the two tokens.
LEMMA AlikeJob ==
  ASSUME NEW j \in Jobs, JobFits(j), jobs'[j] = jobs[j], UNCHANGED chain,
         Alike(vins'[jobs[j].vin], vins[jobs[j].vin])
  PROVE  JobFits(j)'
<1>1. vehicles' = vehicles /\ sds' = sds /\ burned' = burned
  BY DEF chain
<1>2. Names(jobs[j].vin, jobs[j].record) => Names(jobs[j].vin, jobs[j].record)'
  BY <1>1 DEF Names, LiveSD, LiveVehicle
<1>3. Waiting(jobs[j]) => Waiting(jobs[j])'
  BY DEF Waiting, Alike
<1>4. Working(jobs[j]) => Working(jobs[j])'
  BY <1>2 DEF Working, VerifyFits, OnboardFits, DisconnectFits, DeleteFits, Alike
<1> QED
  BY <1>3, <1>4 DEF JobFits, Running, Pending

\* The handler of the consumer saves the enrollment columns alone.
LEMMA WriteVinWrites ==
  ASSUME OInv, WriteVin
  PROVE  /\ \A v \in Vins : Alike(vins'[v], vins[v])
         /\ UNCHANGED <<jobs, requests, chain, seq, locked>>
<1>1. CASE UNCHANGED vins
  BY <1>1 DEF WriteVin, Alike
<1>2. CASE vins' = [vins EXCEPT ![Message.vin] =
                      Update(vins[Message.vin], consumer.record, EnrollColumns)]
  <2>1. PICK v, new : v = Message.vin /\ new = Update(vins[v], consumer.record, EnrollColumns)
    OBVIOUS
  <2>2. vins[v].present
    BY <2>1 DEF OInv, CopySays, WriteVin
  <2>3. /\ new.present = vins[v].present /\ new.status = vins[v].status
        /\ new.veh = vins[v].veh /\ new.sd = vins[v].sd
    BY <2>1, <2>2 DEF Update, EnrollColumns
  <2>4. \A w \in Vins : vins'[w] = IF w = v THEN new ELSE vins[w]
    BY <1>2, <2>1 DEF OInv, IInv, TypeOK
  <2> QED
    BY <2>3, <2>4 DEF WriteVin, Alike
<1> QED
  BY <1>1, <1>2 DEF WriteVin, OperationColumns

\* The serial invariant is as good after the save as it was before, wherever
\* the worker and the handlers of the VIN are.
LEMMA AlikeKeepsSInv ==
  ASSUME TypeOK, SInv, \A v \in Vins : Alike(vins'[v], vins[v]),
         UNCHANGED <<jobs, requests, chain, seq, locked>>
  PROVE  SInv'
<1>1. OneAtATime'
  BY DEF SInv, OneAtATime, Pending, InBatch
<1>2. CopiesCurrent'
  BY DEF SInv, CopiesCurrent, InBatch, Alike
<1>3. \A j \in Jobs : JobFits(j)'
  <2>1. \A j \in Jobs : jobs[j].vin \in Vins
    BY DEF TypeOK, Job
  <2> QED
    BY <2>1, AlikeJob DEF SInv
<1>4. \A j \in Jobs : (Running(j)' <=> Running(j)) /\ jobs'[j] = jobs[j]
  BY DEF Running, Pending
<1>5. ASSUME NEW v \in Vins, RowFits(v)
      PROVE  /\ StatusFits(vins'[v])
             /\ vins'[v].veh = vins[v].veh /\ vins'[v].sd = vins[v].sd
  BY <1>5, Fits DEF RowFits, Alike
<1> QED
  BY <1>1, <1>2, <1>3, <1>4, <1>5, HandlerKeepsSInv

LEMMA OperationsKeepSInv ==
  ASSUME SerialClients, OInv, SerialInv, [OperationsNext]_<<vars, operations>>
  PROVE  SerialInv'
<1>1. IInv /\ TypeOK
  BY DEF OInv, IInv
<1>2. CASE [Next]_vars
  BY <1>1, <1>2, FailuresLast, NextSInv DEF SerialInv
<1>3. CASE WriteVin
  <2>1. failures' = 0 => failures = 0
    BY <1>1, <1>3 DEF WriteVin, Fail, TypeOK
  <2>2. SInv => SInv'
    BY <1>1, <1>3, WriteVinWrites, AlikeKeepsSInv
  <2> QED
    BY <2>1, <2>2 DEF SerialInv
<1>4. OnboardingStep \/ Death => Next
  BY DEF OnboardingStep, Death, Next, WorkerStep
<1>5. Publish \/ Receive \/ Enqueue \/ ReadVin \/ Commit \/ Rebalance => UNCHANGED vars
  BY DEF Publish, Receive, Enqueue, ReadVin, Commit, Rebalance
<1>6. UNCHANGED <<vars, operations>> => UNCHANGED vars
  OBVIOUS
<1> QED
  BY <1>2, <1>3, <1>4, <1>5, <1>6 DEF OperationsNext, ConsumerStep

\* Whatever the vendor reports, and whenever the consumer writes it down, the
\* serial invariant holds until something fails.
THEOREM SerialInvariantWithOperations ==
  ASSUME SerialClients
  PROVE  OperationsSpec => []SerialInv
<1>1. OperationsInit => SerialInv
  BY InitSInv DEF OperationsInit, SerialInv
<1>2. OInv /\ SerialInv /\ [OperationsNext]_<<vars, operations>> => SerialInv'
  BY OperationsKeepSInv
<1> QED
  BY <1>1, <1>2, OperationsInvariantHolds, PTL DEF OperationsSpec

\* The consumer saves its stale copy of a row while a job mints or burns for
\* it, and the table goes on telling the truth about the chain
\* (service/vehicle.go:299, :353).
THEOREM RowsAreStillTrue ==
  ASSUME SerialClients
  PROVE  OperationsSpec => []RowsStillMatch
<1>1. SerialInv => RowsStillMatch
  BY AtRestFits DEF SerialInv, RowsStillMatch, RowsMatchTheChain, RowFits, Names
<1> QED
  BY <1>1, SerialInvariantWithOperations, PTL

\* A minted VIN whose connection the vendor reports as failed can be connected
\* again: the data handler offers it, the gate accepts it, the worker goes on
\* (vehicle.go:580, vehicle.go:912, onboard.go:148), and it mints nothing, for
\* both tokens are in the row.
THEOREM FailedConnectionsRetry ==
  ASSUME SerialClients
  PROVE  OperationsSpec => []FailedConnectionsCanRetry
<1>1. SerialInv => FailedConnectionsCanRetry
  <2> SUFFICES ASSUME SInv, NEW v \in Vins, AtRest(v), IsMinted(vins[v].status),
                      vins[v].conn = "failed"
               PROVE  /\ MintDataOffered(vins[v])
                      /\ CanSubmit("onboard", vins[v])
                      /\ Runs("onboard", vins[v])
                      /\ vins[v].veh # 0 /\ vins[v].sd # 0
    BY DEF SerialInv, FailedConnectionsCanRetry
  <2>1. vins[v].status = 53
    BY Codes DEF IsMinted
  <2>2. vins[v].present /\ vins[v].veh # 0 /\ vins[v].sd # 0
    BY <2>1, AtRestFits, Fits DEF RowFits
  <2>3. MintDataOffered(vins[v])
    BY <2>1, <2>2, Codes DEF MintDataOffered, GetVehiclesByVinsAndOnboardingStatus
  <2>4. CanSubmit("onboard", vins[v])
    BY DEF CanSubmit, canSubmitMintingJob
  <2>5. Runs("onboard", vins[v])
    BY <2>1, <2>2, Codes DEF Runs, IsVerified
  <2> QED
    BY <2>2, <2>3, <2>4, <2>5
<1> QED
  BY <1>1, SerialInvariantWithOperations, PTL

\* What the API tells of a VIN at rest, and what it offers for it, is as true
\* with the vendor's reports in the table as without them: the statuses say
\* which tokens there are, and some kind of job is offered, accepted and run.
THEOREM AnswersWithOperations ==
  ASSUME SerialClients
  PROVE  OperationsSpec => [](failures = 0 => StatusTellsTokens /\ NeverStranded)
<1>1. IInv /\ SerialInv => (failures = 0 => StatusTellsTokens)
  BY AtRestFits, FittingStatuses DEF SerialInv, StatusTellsTokens, RowFits
<1>2. IInv /\ SerialInv => (failures = 0 => NeverStranded)
  BY AtRestFits, FittingRowsAreNotStranded DEF SerialInv, NeverStranded
<1>3. OInv => IInv
  BY DEF OInv
<1>4. OInv /\ SerialInv => (failures = 0 => StatusTellsTokens /\ NeverStranded)
  BY <1>1, <1>2, <1>3
<1> QED
  BY <1>4, OperationsInvariantHolds, SerialInvariantWithOperations, PTL

-----------------------------------------------------------------------------
(* The lifecycle.                                                          *)

LEMMA NoOperationFails ==
  ASSUME Failures = {}
  PROVE  OperationsSpec => [](failures = 0)
<1> DEFINE Calm == failures = 0
<1>1. OperationsInit => Calm
  BY DEF OperationsInit, Init
<1>2. ASSUME Calm, [OperationsNext]_<<vars, operations>> PROVE Calm'
  <2>1. CASE [Next]_vars
    BY <1>2, <2>1, NoFailingStep
  <2>2. CASE WriteVin
    BY <1>2, <2>2 DEF WriteVin, Fail
  <2>3. CASE Publish \/ Receive \/ Enqueue \/ ReadVin \/ Commit \/ Rebalance
    BY <1>2, <2>3 DEF Publish, Receive, Enqueue, ReadVin, Commit, Rebalance, vars
  <2>4. OnboardingStep \/ Death => Next
    BY DEF OnboardingStep, Death, Next, WorkerStep
  <2> QED
    BY <1>2, <2>1, <2>2, <2>3, <2>4 DEF OperationsNext, ConsumerStep
<1>3. OperationsSpec => []Calm
  <2> HIDE DEF Calm
  <2> QED
    BY <1>1, <1>2, PTL DEF OperationsSpec
<1> QED
  BY <1>3

\* The tokens of a VIN see nothing of what the consumer saves.
LEMMA OperationsFollow ==
  ASSUME SerialClients, OInv, OInv', SInv, HeldTracked, HeldTracked', failures' = 0,
         [OperationsNext]_<<vars, operations>>
  PROVE  [Lifecycle!LifecycleNext]_(Lifecycle!lifecycle)
<1>1. IInv /\ TypeOK'
  BY DEF OInv, IInv
<1>2. CASE [Next]_vars
  BY <1>1, <1>2, NextFollows
<1>3. CASE WriteVin
  <2>1. (\A v \in Vins : Alike(vins'[v], vins[v])) /\ UNCHANGED <<jobs, seq>>
    BY <1>3, WriteVinWrites
  <2>2. \A v \in Vins : Recorded(v)' = Recorded(v)
    BY <2>1 DEF Recorded, Alike
  <2>3. \A j \in Jobs : (Running(j)' <=> Running(j)) /\ jobs'[j] = jobs[j]
    BY <2>1 DEF Running, Pending
  <2>4. \A v \in Vins : Held(v)' = Held(v)
    BY <2>1, <2>3, HeldThroughHandlers DEF Alike
  <2> QED
    BY <2>1, <2>2, <2>4 DEF Lifecycle!lifecycle
<1>4. OnboardingStep \/ Death => Next
  BY DEF OnboardingStep, Death, Next, WorkerStep
<1>5. Publish \/ Receive \/ Enqueue \/ ReadVin \/ Commit \/ Rebalance => UNCHANGED vars
  BY DEF Publish, Receive, Enqueue, ReadVin, Commit, Rebalance
<1>6. UNCHANGED <<vars, operations>> => UNCHANGED vars
  OBVIOUS
<1> QED
  BY <1>2, <1>3, <1>4, <1>5, <1>6 DEF OperationsNext, ConsumerStep

\* With the consumer running beside them the workers and the handlers still
\* follow the lifecycle: its saves are seen by no token.
THEOREM FollowsWithOperations ==
  ASSUME SerialClients, Failures = {}, Minted = <<>>, Verified = {}
  PROVE  OperationsSpec => FollowsLifecycle
<1> DEFINE Calm == failures = 0
           Follows == [Lifecycle!LifecycleNext]_(Lifecycle!lifecycle)
<1>1. ASSUME OInv, OInv', SerialInv, HeldTracked, HeldTracked', Calm, Calm',
             [OperationsNext]_<<vars, operations>>
      PROVE  Follows
  BY <1>1, OperationsFollow DEF SerialInv
<1>2. OInv /\ SerialInv /\ Calm => HeldTracked
  BY HeldIsTracked DEF SerialInv, OInv
<1>3. OperationsSpec => []Calm
  BY NoOperationFails
<1>4. OperationsSpec => [](OInv /\ SerialInv /\ Calm)
  <2> HIDE DEF Calm
  <2> QED
    BY <1>3, OperationsInvariantHolds, SerialInvariantWithOperations, PTL
<1>5. OperationsSpec => []HeldTracked
  <2> HIDE DEF Calm
  <2> QED
    BY <1>2, <1>4, PTL
<1>6. OperationsInit => Lifecycle!LifecycleInit
  BY InitFollows DEF OperationsInit
<1> QED
  <2> HIDE DEF Calm
  <2> QED
    BY <1>1, <1>4, <1>5, <1>6, PTL
    DEF OperationsSpec, FollowsLifecycle, Lifecycle!LifecycleSpec
=============================================================================
