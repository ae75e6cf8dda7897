-------------------------- MODULE OperationsInvariant --------------------------
(***************************************************************************)
(* The inductive invariant of Operations that its proofs rest on: where    *)
(* the offsets of the consumer are, what its copy of a row says, and what  *)
(* the table says of the operations handed out so far, some of them for    *)
(* the second time.                                                        *)
(***************************************************************************)
EXTENDS OperationsProperties, OnboardingInvariant

\* What is committed was marked, and what is marked was handed out.
OffsetsInOrder ==
  /\ committed <= consumer.claim.marked
  /\ consumer.claim.marked <= consumer.claim.position
  /\ consumer.claim.position <= Len(log) + 1

\* Message i of the topic is an operation for v.
IsFor(i, v) == log[i].action \notin Others /\ log[i].vin = v

\* What a row says of an operation that has been recorded.
Says(op, row) ==
  IF op.action = "enroll" THEN row.conn = op.status ELSE row.disc = op.status

\* Beyond the loop the handler has an operation in hand, and then a copy of an
\* existing row that it has made to say so.
CopySays ==
  /\ consumer.at # "poll" =>
       consumer.claim.position \in DOMAIN log /\ Message \in EnrollmentOperation
  /\ consumer.at = "write" =>
       /\ vins[Message.vin].present
       /\ Says(Message, consumer.record)
       /\ ~(consumer.record.conn = "succeeded" /\ consumer.record.disc = "succeeded")

\* If operations were handed out for a VIN that nothing has disturbed, its row
\* says one of the topic that none of them is later than: the last, or, while a
\* redelivery lets the handler catch up with the row, one that comes again.
RecordedSoFar ==
  \A v \in Vins \ disturbed :
    (\E i \in DOMAIN log : IsFor(i, v) /\ i < consumer.claim.position) =>
      /\ vins[v].present
      /\ \E k \in DOMAIN log :
           /\ IsFor(k, v) /\ Says(log[k], vins[v])
           /\ \A i \in DOMAIN log :
                IsFor(i, v) /\ i < consumer.claim.position => i <= k

\* The inductive invariant: OperationsInit implies it and every step keeps it.
OInv ==
  /\ IInv /\ OperationsTypeOK
  /\ OffsetsInOrder /\ CopySays /\ RecordedSoFar
=============================================================================
