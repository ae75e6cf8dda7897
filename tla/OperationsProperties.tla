------------------------- MODULE OperationsProperties -------------------------
(***************************************************************************)
(* What the operations consumer must guarantee together with Onboarding.   *)
(***************************************************************************)
EXTENDS Operations, OnboardingProperties

OperationsTypeOK ==
  /\ TypeOK
  /\ log \in Seq(Published)
  /\ consumer \in Consumer
  /\ consumer.at # "poll" => consumer.claim.position \in DOMAIN log
  /\ committed \in Offset
  /\ channel \in 0..ChannelSize
  /\ disturbed \in SUBSET Vins

\* After crashes and redeliveries, in which older operations are recorded over
\* newer ones for a while, a row whose enrollment only the consumer has written,
\* without a failure, says what the last operation said (consumer.go:192, :202):
\* a message is marked after it is recorded, and never forgotten in between.
LastIsRecorded ==
  consumer.at = "poll" /\ consumer.claim.position = Len(log) + 1 =>
    \A i \in DOMAIN log :
      LET op  == log[i]
          row == vins[op.vin]
      IN  /\ op.action \notin Others
          /\ op.vin \notin disturbed /\ row.present
          /\ \A k \in DOMAIN log :
               k > i => log[k].action \in Others \/ log[k].vin # op.vin
          => IF op.action = "enroll" THEN row.conn = op.status ELSE row.disc = op.status

\* The consumer saves its copy of a row while a job mints or burns for it, and
\* still the table tells the truth about the chain, when nothing fails: its copy
\* may be as old as it likes, it brings back none of the columns that the
\* workers save (service/vehicle.go:299, :353).
RowsStillMatch == failures = 0 => RowsMatchTheChain

\* When the vendor reports that the connection of a minted VIN has failed, the
\* client can have it connected again, and nothing is minted a second time: the
\* API hands out the VIN, the gate accepts it, the worker does not return early
\* (vehicle.go:580, vehicle.go:912, onboard.go:148), and it finds both tokens.
FailedConnectionsCanRetry ==
  \A v \in Vins :
    failures = 0 /\ AtRest(v) /\ IsMinted(vins[v].status) /\ vins[v].conn = "failed" =>
      /\ MintDataOffered(vins[v])
      /\ CanSubmit("onboard", vins[v])
      /\ Runs("onboard", vins[v])
      /\ vins[v].veh # 0 /\ vins[v].sd # 0

\* consumer.go:191: "Update the database with VIN, Status, and vehicleId".  So
\* while nothing fails, every operation on the topic is recorded in the end.
EveryOperationIsRecorded ==
  \A i \in 1..MaxOps : Len(log) >= i ~> consumer.claim.position > i
=============================================================================
