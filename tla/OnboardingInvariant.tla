------------------------- MODULE OnboardingInvariant -------------------------
(***************************************************************************)
(* The inductive invariant of Onboarding that its proofs rest on: what the *)
(* safety properties say of the table, said of every copy of a row that a  *)
(* handler or a worker may still write back, and of every token and index  *)
(* that is on its way into one.                                            *)
(***************************************************************************)
EXTENDS OnboardingProperties

\* A copy of v's row may be written back, in part or whole, without breaking
\* DeviceKeysMatch or NeverBothSucceeded, when the vehicles V and the SDs S
\* have been minted.
Sound(v, row, V, S) ==
  /\ row.veh # 0 => [id |-> row.veh, vin |-> v] \in V
  /\ row.sd = 0 => row.wallet = 0
  /\ row.sd # 0 => \E x \in S : x.id = row.sd /\ x.vin = v /\ x.wallet = row.wallet
  /\ ~(row.conn = "succeeded" /\ row.disc = "succeeded")

RowsSound   == \A v \in Vins : Sound(v, vins[v], vehicles, sds)
JobsSound   == \A j \in Jobs : Sound(jobs[j].vin, jobs[j].record, vehicles, sds)
CopiesSound ==
  \A r \in Requests : \A v \in Vins : Sound(v, requests[r].rows[v], vehicles, sds)

BatchesLast == \A r \in Requests : requests[r].at # "none" => requests[r].batch # <<>>

\* No token id and no wallet index is given twice, and an index that a job has
\* taken and not minted with is used by nobody else.
TokensFresh ==
  /\ \A x \in vehicles : x.id < seq.vehicle
  /\ \A x, y \in vehicles : x.id = y.id => x = y
  /\ \A x \in sds : x.id < seq.sd /\ x.wallet < seq.wallet
  /\ \A x, y \in sds : x.id = y.id \/ x.wallet = y.wallet => x = y

IndexesFresh ==
  /\ \A j \in Jobs : jobs[j].at = "mint" =>
       jobs[j].index < seq.wallet /\ \A x \in sds : x.wallet # jobs[j].index
  /\ \A i, j \in Jobs :
       jobs[i].at = "mint" /\ jobs[j].at = "mint" /\ i # j =>
         jobs[i].index # jobs[j].index

\* Only the workers that burn come to where the burns are.
BurnPlaces == {"disconnect", "saveDisconnect", "lock", "burn", "unlockTwice",
               "unlock", "saveBurn"}
BurnersBurn == \A j \in Jobs : jobs[j].at \in BurnPlaces => jobs[j].kind \in BurnKinds

\* While burn results can be read, whoever is in a burn holds the lock alone.
BurnsExclude ==
  "burnResult" \notin Failures =>
    /\ \A j \in Jobs : jobs[j].at # "unlockTwice"
    /\ \A j \in Jobs : InBurn(j) => locked[jobs[j].kind]
    /\ OneBurnAtATime

\* The inductive invariant: Init implies it and every step keeps it.
IInv ==
  /\ TypeOK /\ RowsSound /\ JobsSound /\ CopiesSound /\ BatchesLast
  /\ TokensFresh /\ IndexesFresh /\ BurnersBurn
  /\ LocksAreReleased /\ BurnsExclude
=============================================================================
