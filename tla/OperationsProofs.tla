--------------------------- MODULE OperationsProofs ---------------------------
(***************************************************************************)
(* Proofs about Operations: OInv of OperationsInvariant is inductive, so   *)
(* the operations consumer keeps what OnboardingProofs proves of the       *)
(* handlers and workers, and records the last operation of every VIN that  *)
(* nothing else has touched.                                               *)
(***************************************************************************)
EXTENDS OperationsInvariant, OnboardingProofs

-----------------------------------------------------------------------------
(* The rows and the claim.                                                 *)

\* The consumer's copy of a row never says both, and says what its operation
\* said.
LEMMA ConsumerCopies ==
  ASSUME NEW row \in Row, NEW op \in EnrollmentOperation,
         NEW rec, rec = IF op.action = "enroll" THEN Enrolled(row, op.status)
                                                ELSE Unenrolled(row, op.status)
  PROVE  /\ rec \in Row
         /\ Says(op, rec)
         /\ ~(rec.conn = "succeeded" /\ rec.disc = "succeeded")
<1>1. op.status \in OperationStatus \ {"null"}
  BY OperationsAssumption DEF EnrollmentOperation
<1>2. "null" \in OperationStatus /\ "null" # "succeeded"
  BY DEF OperationStatus
<1>3. CASE op.action = "enroll"
  BY <1>1, <1>2, <1>3 DEF Enrolled, Row, Says
<1>4. CASE op.action # "enroll"
  BY <1>1, <1>2, <1>4 DEF Unenrolled, Row, Says
<1> QED
  BY <1>3, <1>4

\* Saving the enrollment columns needs no more of a copy than that: none of
\* the columns that name tokens is written.
LEMMA EnrollmentUpdate ==
  ASSUME NEW row \in Row, NEW rec \in Row,
         ~(rec.conn = "succeeded" /\ rec.disc = "succeeded")
  PROVE  /\ Update(row, rec, EnrollColumns) \in Row
         /\ Update(row, rec, EnrollColumns).present = row.present
         /\ row.present => /\ Update(row, rec, EnrollColumns).conn = rec.conn
                           /\ Update(row, rec, EnrollColumns).disc = rec.disc
         /\ \A v, V, S : Sound(v, row, V, S) =>
              Sound(v, Update(row, rec, EnrollColumns), V, S)
<1> DEFINE new == Update(row, rec, EnrollColumns)
<1>1. EnrollColumns = {"conn", "disc"}
  BY DEF EnrollColumns
<1>2. /\ new \in Row
      /\ new.present = row.present /\ new.veh = row.veh /\ new.sd = row.sd
      /\ new.wallet = row.wallet
      /\ row.present => new.conn = rec.conn /\ new.disc = rec.disc
      /\ ~row.present => new.conn = row.conn /\ new.disc = row.disc
  BY <1>1 DEF Update, Row
<1> HIDE DEF new
<1>5. ASSUME NEW v, NEW V, NEW S, Sound(v, row, V, S)
      PROVE  Sound(v, new, V, S)
  BY <1>2, <1>5 DEF Sound
<1> QED
  BY <1>2, <1>5 DEF new

LEMMA Claims ==
  ASSUME NEW claim \in Claim
  PROVE  /\ Continue(claim) \in Claim /\ MarkMessage(claim) \in Claim
         /\ Continue(claim).position = claim.position + 1
         /\ Continue(claim).marked = claim.marked
         /\ MarkMessage(claim).position = claim.position + 1
         /\ MarkMessage(claim).marked = claim.position + 1
  BY DEF Claim, Offset, Continue, MarkMessage

-----------------------------------------------------------------------------
(* Rows are never deleted.                                                 *)

RowsStay == \A v \in Vins : vins[v].present => vins'[v].present

LEMMA SaveStays ==
  ASSUME TypeOK, NEW j \in Jobs, NEW rec, NEW columns, Save(j, rec, columns)
  PROVE  RowsStay
<1>1. vins \in [Vins -> Row] /\ jobs[j].vin \in Vins
  BY DEF TypeOK, Job
<1>2. \A row : Update(row, rec, columns).present = row.present
  BY DEF Update
<1>3. \/ vins' = [vins EXCEPT ![jobs[j].vin] = Update(vins[jobs[j].vin], rec, columns)]
      \/ vins' = vins
  BY DEF Save
<1> QED
  BY <1>1, <1>2, <1>3 DEF RowsStay

LEMMA WorkersKeepRows ==
  ASSUME TypeOK, NEW j \in Jobs, VerifyStep(j) \/ OnboardStep(j) \/ BurnStep(j)
  PROVE  RowsStay
<1>1. UNCHANGED vins => RowsStay
  BY DEF RowsStay
<1>2. ASSUME NEW rec, NEW columns, Save(j, rec, columns)
      PROVE  RowsStay
  BY <1>2, SaveStays
<1>3. ASSUME VerifyStep(j) PROVE RowsStay
  <2>1. CASE StartVerify(j)
    BY <1>1, <2>1 DEF StartVerify, StartOrEnd, Start
  <2>2. CASE InsertVinRecord(j)
    <3>1. vins \in [Vins -> Row] /\ jobs[j].vin \in Vins
      BY DEF TypeOK, Job
    <3> QED
      BY <2>2, <3>1 DEF InsertVinRecord, Insert, RowsStay
  <2>3. CASE StartDecode(j)
    BY <1>2, <2>3 DEF StartDecode
  <2>4. CASE DecodeVin(j)
    BY <1>2, <2>4 DEF DecodeVin
  <2>5. CASE Validate(j)
    BY <1>2, <2>5 DEF Validate
  <2> QED
    BY <1>3, <2>1, <2>2, <2>3, <2>4, <2>5 DEF VerifyStep
<1>4. ASSUME OnboardStep(j) PROVE RowsStay
  <2>1. CASE \/ StartOnboard(j) \/ TakeWalletIndex(j) \/ MintVehicleWithSD(j)
             \/ MintSD(j)
    BY <1>1, <2>1 DEF StartOnboard, StartOrEnd, Start, TakeWalletIndex,
      MintVehicleWithSD, MintSD
  <2>2. CASE ConnectToVendor(j)
    BY <1>1, <1>2, <2>2 DEF ConnectToVendor
  <2>3. CASE \/ SaveConnect(j) \/ SaveMintedVehicle(j) \/ SaveMintedSD(j)
             \/ FinishOnboard(j)
    BY <1>2, <2>3 DEF SaveConnect, SaveMintedVehicle, SaveMintedSD, FinishOnboard
  <2> QED
    BY <1>4, <2>1, <2>2, <2>3 DEF OnboardStep
<1>5. ASSUME BurnStep(j) PROVE RowsStay
  <2>1. CASE \/ StartDisconnect(j) \/ StartDelete(j) \/ Lock(j)
             \/ SendBurnOperation(j) \/ UnlockBurn(j) \/ UnlockTwice(j)
    BY <1>1, <2>1 DEF StartDisconnect, StartDelete, StartOrEnd, Start, Lock,
      SendBurnOperation, UnlockBurn, UnlockTwice, Unlock
  <2>2. CASE DisconnectFromVendor(j)
    BY <1>1, <1>2, <2>2 DEF DisconnectFromVendor
  <2>3. CASE SaveDisconnect(j) \/ SaveBurn(j)
    BY <1>2, <2>3 DEF SaveDisconnect, SaveBurn
  <2> QED
    BY <1>5, <2>1, <2>2, <2>3 DEF BurnStep
<1> QED
  BY <1>3, <1>4, <1>5

LEMMA HandlersKeepRows ==
  ASSUME IInv, NEW r \in Requests, BeginRequest(r) \/ HandlerStep(r)
  PROVE  RowsStay
<1>1. CASE BeginRequest(r) \/ RereadMinted(r) \/ SubmitJob(r)
  BY <1>1 DEF BeginRequest, RereadMinted, SubmitJob, RowsStay
<1>2. CASE UpsertVin(r)
  <2> DEFINE v == Head(requests[r].batch)
             new == Upsert(vins[v], Copy(r, v))
  <2>1. vins \in [Vins -> Row]
    BY DEF IInv, TypeOK
  <2>2. requests[r].at # "none" /\ requests[r].batch \in Seq(Vins)
    BY <1>2 DEF UpsertVin, IInv, TypeOK, Request
  <2>3. v \in Vins
    BY <2>2 DEF IInv, BatchesLast
  <2>4. vins[v].present => new.present
    BY DEF Upsert, Update
  <2>5. vins' = [vins EXCEPT ![v] = new] \/ vins' = vins
    BY <1>2 DEF UpsertVin
  <2> HIDE DEF v, new
  <2> QED
    BY <2>1, <2>3, <2>4, <2>5 DEF RowsStay
<1> QED
  BY <1>1, <1>2 DEF HandlerStep

LEMMA FailedReadsKeepRows ==
  ASSUME ReadFails
  PROVE  RowsStay
  BY DEF ReadFails, WorkerReadFails, HandlerReadFails, RowsStay

\* What the steps of the handlers and workers do to the rows of Operations.
LEMMA OnboardingSteps ==
  ASSUME IInv, OnboardingStep
  PROVE  /\ IInv' /\ RowsStay
         /\ \A v \in Vins \ disturbed' :
              /\ v \notin disturbed
              /\ vins'[v].conn = vins[v].conn /\ vins'[v].disc = vins[v].disc
         /\ disturbed' = disturbed \cup Disturbs
         /\ UNCHANGED <<log, consumer, committed, channel>>
<1>1. /\ \/ \E j \in Jobs : VerifyStep(j) \/ OnboardStep(j) \/ BurnStep(j)
         \/ \E r \in Requests : BeginRequest(r) \/ HandlerStep(r)
         \/ ReadFails
      /\ disturbed' = disturbed \cup Disturbs
      /\ UNCHANGED <<log, consumer, committed, channel>>
  BY DEF OnboardingStep
<1>2. Next
  BY <1>1 DEF Next, WorkerStep
<1>3. RowsStay
  BY <1>1, WorkersKeepRows, HandlersKeepRows, FailedReadsKeepRows DEF IInv
<1>4. ASSUME NEW v \in Vins \ disturbed'
      PROVE  /\ v \notin disturbed
             /\ vins'[v].conn = vins[v].conn /\ vins'[v].disc = vins[v].disc
  BY <1>1 DEF Disturbs
<1> QED
  BY <1>1, <1>2, <1>3, <1>4, NextIInv

-----------------------------------------------------------------------------
(* The steps of the consumer.                                              *)

\* A message of the topic is for a VIN if it is an operation for it.
LEMMA Messages ==
  ASSUME OperationsTypeOK
  PROVE  /\ Len(log) \in Nat /\ DOMAIN log = 1..Len(log)
         /\ \A i \in DOMAIN log :
              /\ log[i] \in Published
              /\ log[i].action \in {"enroll", "unenroll"} \cup Others
              /\ log[i].action \notin Others => log[i] \in EnrollmentOperation
              /\ log[i].action \in {"enroll", "unenroll"} =>
                   log[i] \in EnrollmentOperation /\ log[i].action \notin Others
         /\ \A i \in DOMAIN log : \A v : IsFor(i, v) => v \in Vins
<1>1. Len(log) \in Nat /\ DOMAIN log = 1..Len(log) /\ \A i \in DOMAIN log : log[i] \in Published
  BY DEF OperationsTypeOK
<1>2. Others \subseteq {"other", "malformed"}
  BY OperationsAssumption
<1>3. \A m \in Published :
        /\ m.action \in {"enroll", "unenroll"} \cup Others
        /\ m.action \notin Others => m \in EnrollmentOperation
        /\ m.action \in {"enroll", "unenroll"} =>
             m \in EnrollmentOperation /\ m.action \notin Others
  BY <1>2 DEF Published, EnrollmentOperation
<1>4. \A m \in EnrollmentOperation : m.vin \in Vins
  BY DEF EnrollmentOperation
<1> QED
  BY <1>1, <1>3, <1>4 DEF IsFor

LEMMA ClaimsBegin ==
  ASSUME NEW offset \in Offset
  PROVE  /\ Polling(Claimed(offset)) \in Consumer
         /\ Polling(Claimed(offset)).claim = Claimed(offset)
         /\ Claimed(offset).position = offset /\ Claimed(offset).marked = offset
  BY NewRows DEF Polling, Claimed, Consumer, Claim

LEMMA Polls ==
  ASSUME NEW claim \in Claim
  PROVE  /\ Polling(claim) \in Consumer
         /\ Polling(claim).claim = claim /\ Polling(claim).at = "poll"
  BY NewRows DEF Polling, Consumer

\* Where the handler goes on to messages that are not for v, or goes back, and
\* nobody writes the enrollment columns of v, what is recorded stays recorded.
LEMMA StaysRecorded ==
  ASSUME RecordedSoFar, log' = log, disturbed \subseteq disturbed',
         \A v \in Vins \ disturbed' :
           /\ vins[v].present => vins'[v].present
           /\ vins'[v].conn = vins[v].conn /\ vins'[v].disc = vins[v].disc
           /\ \A i \in DOMAIN log :
                IsFor(i, v) /\ i < consumer'.claim.position
                  => i < consumer.claim.position
  PROVE  RecordedSoFar'
<1> SUFFICES ASSUME NEW v \in Vins \ disturbed',
                    NEW i \in DOMAIN log, IsFor(i, v), i < consumer'.claim.position
             PROVE  /\ vins'[v].present
                    /\ \E k \in DOMAIN log :
                         /\ IsFor(k, v) /\ Says(log[k], vins'[v])
                         /\ \A m \in DOMAIN log :
                              IsFor(m, v) /\ m < consumer'.claim.position => m <= k
  BY DEF RecordedSoFar, IsFor
<1>1. i < consumer.claim.position
  OBVIOUS
<1>2. /\ vins[v].present
      /\ \E k \in DOMAIN log :
           /\ IsFor(k, v) /\ Says(log[k], vins[v])
           /\ \A m \in DOMAIN log :
                IsFor(m, v) /\ m < consumer.claim.position => m <= k
  BY <1>1 DEF RecordedSoFar
<1>3. \A op : Says(op, vins[v]) => Says(op, vins'[v])
  BY DEF Says
<1> QED
  BY <1>2, <1>3

LEMMA InitOInv == OperationsInit => OInv
<1> SUFFICES ASSUME OperationsInit PROVE OInv
  OBVIOUS
<1>1. /\ Init /\ log = <<>> /\ consumer = Polling(Claimed(1))
      /\ committed = 1 /\ channel = 0 /\ disturbed = {}
  BY DEF OperationsInit
<1>2. IInv /\ TypeOK
  BY <1>1, InitIInv DEF IInv
<1>3. 1 \in Offset /\ Claimed(1) \in Claim /\ ChannelSize \in Nat
  BY OperationsAssumption DEF Offset, Claimed, Claim
<1>4. /\ consumer \in Consumer /\ consumer.at = "poll"
      /\ consumer.claim.position = 1 /\ consumer.claim.marked = 1
  BY <1>1, <1>3, ClaimsBegin, Polls
<1>5. Len(log) = 0 /\ DOMAIN log = {} /\ log \in Seq(Published)
  BY <1>1
<1>6. OperationsTypeOK
  BY <1>1, <1>2, <1>3, <1>4, <1>5 DEF OperationsTypeOK
<1>7. OffsetsInOrder /\ CopySays
  BY <1>1, <1>4, <1>5 DEF OffsetsInOrder, CopySays
<1>8. RecordedSoFar
  BY <1>5 DEF RecordedSoFar
<1> QED
  BY <1>2, <1>6, <1>7, <1>8 DEF OInv

\* The vendor appends to the topic.
LEMMA PublishKeepsOInv ==
  ASSUME OInv, Publish
  PROVE  OInv'
<1> USE DEF OInv
<1>1. PICK op \in Published : log' = Append(log, op)
  BY DEF Publish
<1>2. UNCHANGED <<vars, consumer, committed, channel, disturbed>>
  BY DEF Publish
<1>3. UNCHANGED vins
  BY <1>2 DEF vars
<1>4. IInv' /\ TypeOK'
  BY <1>2, NextIInv DEF IInv
<1>5. /\ log \in Seq(Published) /\ Len(log) \in Nat /\ DOMAIN log = 1..Len(log)
      /\ consumer \in Consumer
  BY Messages DEF OperationsTypeOK
<1>6. /\ log' \in Seq(Published) /\ Len(log') = Len(log) + 1
      /\ DOMAIN log' = 1..(Len(log) + 1) /\ DOMAIN log \subseteq DOMAIN log'
      /\ \A i \in DOMAIN log : log'[i] = log[i]
  BY <1>1, <1>5
<1>7. consumer.claim.position \in Nat /\ consumer.claim.position <= Len(log) + 1
  BY <1>5 DEF OffsetsInOrder, Consumer, Claim, Offset
<1>8. OperationsTypeOK'
  BY <1>2, <1>4, <1>5, <1>6 DEF OperationsTypeOK
<1>9. OffsetsInOrder'
  BY <1>2, <1>5, <1>6, <1>7 DEF OffsetsInOrder
<1>10. CopySays'
  BY <1>2, <1>3, <1>6 DEF CopySays, Message
<1>11. RecordedSoFar'
  <2> SUFFICES ASSUME NEW v \in Vins \ disturbed,
                      NEW i \in DOMAIN log', IsFor(i, v)', i < consumer.claim.position
               PROVE  /\ vins[v].present
                      /\ \E k \in DOMAIN log' :
                           /\ IsFor(k, v)' /\ Says(log'[k], vins[v])
                           /\ \A m \in DOMAIN log' :
                                IsFor(m, v)' /\ m < consumer.claim.position => m <= k
    BY <1>2, <1>3 DEF RecordedSoFar
  <2>1. \A m \in DOMAIN log' : m < consumer.claim.position => m \in DOMAIN log
    BY <1>5, <1>6, <1>7
  <2>2. \A m \in DOMAIN log : IsFor(m, v)' <=> IsFor(m, v)
    BY <1>6 DEF IsFor
  <2>3. PICK k \in DOMAIN log :
          /\ vins[v].present /\ IsFor(k, v) /\ Says(log[k], vins[v])
          /\ \A m \in DOMAIN log :
               IsFor(m, v) /\ m < consumer.claim.position => m <= k
    BY <2>1, <2>2 DEF RecordedSoFar
  <2> QED
    BY <1>6, <2>1, <2>2, <2>3
<1> QED
  BY <1>4, <1>8, <1>9, <1>10, <1>11

\* A message that is no operation, and one that goes to the channel.
LEMMA ReceiveKeepsOInv ==
  ASSUME OInv, Receive
  PROVE  OInv'
<1> USE DEF OInv
<1> DEFINE claim == consumer.claim
<1>1. /\ consumer.at = "poll" /\ claim.position <= Len(log)
      /\ \/ Message.action = "malformed" /\ consumer' = Polling(Continue(claim))
         \/ Message.action = "other" /\ consumer' = Polling(MarkMessage(claim))
         \/ /\ Message.action \in {"enroll", "unenroll"}
            /\ consumer' = [consumer EXCEPT !.at = "enqueue"]
      /\ UNCHANGED <<vars, log, committed, channel, disturbed>>
  BY DEF Receive
<1>2. UNCHANGED vins
  BY <1>1 DEF vars
<1>3. IInv' /\ TypeOK'
  BY <1>1, NextIInv DEF IInv
<1>4. /\ consumer \in Consumer /\ claim \in Claim /\ claim.position \in Nat \ {0}
      /\ claim.marked \in Nat \ {0} /\ committed \in Nat
  BY DEF OperationsTypeOK, Consumer, Claim, Offset
<1>5. claim.position \in DOMAIN log
  BY <1>1, <1>4, Messages
<1>6. CASE /\ Message.action \in {"enroll", "unenroll"}
           /\ consumer' = [consumer EXCEPT !.at = "enqueue"]
  <2>1. /\ consumer' \in Consumer /\ consumer'.at = "enqueue"
        /\ consumer'.claim = claim
    BY <1>4, <1>6 DEF Consumer
  <2>2. Message \in EnrollmentOperation /\ Message' = Message
    BY <1>1, <1>5, <1>6, <2>1, Messages DEF Message
  <2>3. OperationsTypeOK'
    BY <1>1, <1>3, <1>5, <2>1 DEF OperationsTypeOK
  <2>4. OffsetsInOrder' /\ CopySays'
    BY <1>1, <1>5, <2>1, <2>2 DEF OffsetsInOrder, CopySays
  <2>5. RecordedSoFar'
    BY <1>1, <1>2, <2>1 DEF RecordedSoFar, IsFor
  <2> QED
    BY <1>3, <2>3, <2>4, <2>5
<1>7. CASE /\ Message.action \in {"malformed", "other"}
           /\ consumer' \in {Polling(Continue(claim)), Polling(MarkMessage(claim))}
  <2>1. /\ consumer' \in Consumer /\ consumer'.at = "poll"
        /\ consumer'.claim.position = claim.position + 1
        /\ consumer'.claim.marked \in {claim.marked, claim.position + 1}
    BY <1>4, <1>7, Claims, Polls
  <2>2. OperationsTypeOK'
    BY <1>1, <1>3, <2>1 DEF OperationsTypeOK
  <2>3. Len(log) \in Nat
    BY Messages
  <2>4. OffsetsInOrder' /\ CopySays'
    BY <1>1, <1>4, <2>1, <2>3 DEF OffsetsInOrder, CopySays
  <2>5. \A v : ~IsFor(claim.position, v)
    BY <1>5, <1>7, Messages DEF IsFor, Message
  <2>6. \A i \in DOMAIN log : \A v :
          IsFor(i, v) /\ i < consumer'.claim.position => i < claim.position
    BY <1>4, <2>1, <2>5, Messages
  <2>7. RecordedSoFar'
    BY <1>1, <1>2, <2>6, StaysRecorded
  <2> QED
    BY <1>3, <2>2, <2>4, <2>7
<1> QED
  BY <1>1, <1>6, <1>7

\* The operation goes to the channel, if there is room.
LEMMA EnqueueKeepsOInv ==
  ASSUME OInv, Enqueue
  PROVE  OInv'
<1> USE DEF OInv
<1>1. /\ consumer.at = "enqueue" /\ channel < ChannelSize
      /\ channel' = channel + 1 /\ consumer' = [consumer EXCEPT !.at = "read"]
      /\ UNCHANGED <<vars, log, committed, disturbed>>
  BY DEF Enqueue
<1>2. UNCHANGED vins
  BY <1>1 DEF vars
<1>3. IInv' /\ TypeOK'
  BY <1>1, NextIInv DEF IInv
<1>4. /\ consumer' \in Consumer /\ consumer'.at = "read"
      /\ consumer'.claim = consumer.claim
  BY <1>1 DEF OperationsTypeOK, Consumer
<1>5. consumer.claim.position \in DOMAIN log /\ Message \in EnrollmentOperation
  BY <1>1 DEF CopySays
<1>6. channel' \in 0..ChannelSize
  BY <1>1, OperationsAssumption DEF OperationsTypeOK
<1>7. OperationsTypeOK'
  BY <1>1, <1>3, <1>4, <1>5, <1>6 DEF OperationsTypeOK
<1>8. OffsetsInOrder' /\ CopySays'
  BY <1>1, <1>4, <1>5 DEF OffsetsInOrder, CopySays, Message
<1>9. RecordedSoFar'
  BY <1>1, <1>2, <1>4 DEF RecordedSoFar, IsFor
<1> QED
  BY <1>3, <1>7, <1>8, <1>9

\* The handler leaves a message behind that it has not recorded: its VIN is
\* disturbed.
LEMMA SkipKeepsOInv ==
  ASSUME OInv, consumer.at # "poll", consumer' = Polling(Continue(consumer.claim)),
         disturbed' = disturbed \cup {Message.vin},
         UNCHANGED <<log, committed, channel, vins>>, IInv'
  PROVE  OInv'
<1> USE DEF OInv
<1>1. /\ consumer.claim \in Claim /\ consumer.claim.position \in Nat
      /\ consumer.claim.marked \in Nat /\ committed \in Nat
  BY DEF OperationsTypeOK, Consumer, Claim, Offset
<1>2. /\ consumer' \in Consumer /\ consumer'.at = "poll"
      /\ consumer'.claim.position = consumer.claim.position + 1
      /\ consumer'.claim.marked = consumer.claim.marked
  BY <1>1, Claims, Polls
<1>3. consumer.claim.position \in DOMAIN log /\ Message \in EnrollmentOperation
  BY DEF CopySays
<1>4. Message.vin \in Vins
  BY <1>3 DEF EnrollmentOperation
<1>5. Len(log) \in Nat /\ DOMAIN log = 1..Len(log)
  BY Messages
<1>6. OperationsTypeOK'
  BY <1>2, <1>4 DEF OperationsTypeOK, IInv
<1>7. OffsetsInOrder' /\ CopySays'
  BY <1>1, <1>2, <1>3, <1>5 DEF OffsetsInOrder, CopySays
<1>8. \A v \in Vins \ disturbed', i \in DOMAIN log :
        IsFor(i, v) /\ i < consumer'.claim.position => i < consumer.claim.position
  BY <1>1, <1>2, <1>5 DEF IsFor, Message
<1>9. RecordedSoFar'
  BY <1>8, StaysRecorded
<1> QED
  BY <1>6, <1>7, <1>9

\* The row is read, and the copy made to say what the operation says.
LEMMA ReadVinKeepsOInv ==
  ASSUME OInv, ReadVin
  PROVE  OInv'
<1> USE DEF OInv
<1> DEFINE row == vins[Message.vin]
           rec == IF Message.action = "enroll" THEN Enrolled(row, Message.status)
                                               ELSE Unenrolled(row, Message.status)
<1>1. /\ consumer.at = "read"
      /\ \/ /\ row.present /\ UNCHANGED disturbed
            /\ consumer' = [consumer EXCEPT !.at = "write", !.record = rec]
         \/ /\ consumer' = Polling(Continue(consumer.claim))
            /\ disturbed' = disturbed \cup {Message.vin}
      /\ UNCHANGED <<vars, log, committed, channel>>
  BY DEF ReadVin
<1>2. UNCHANGED vins
  BY <1>1 DEF vars
<1>3. IInv' /\ TypeOK'
  BY <1>1, NextIInv DEF IInv
<1>4. consumer.claim.position \in DOMAIN log /\ Message \in EnrollmentOperation
  BY <1>1 DEF CopySays
<1>5. row \in Row
  BY <1>4 DEF OperationsTypeOK, TypeOK, EnrollmentOperation
<1>6. CASE /\ row.present /\ UNCHANGED disturbed
           /\ consumer' = [consumer EXCEPT !.at = "write", !.record = rec]
  <2>1. /\ rec \in Row /\ Says(Message, rec)
        /\ ~(rec.conn = "succeeded" /\ rec.disc = "succeeded")
    BY <1>4, <1>5, ConsumerCopies
  <2> HIDE DEF rec
  <2>2. /\ consumer' \in Consumer /\ consumer'.at = "write"
        /\ consumer'.claim = consumer.claim /\ consumer'.record = rec
    BY <1>6, <2>1 DEF OperationsTypeOK, Consumer
  <2>3. Message' = Message
    BY <1>1, <2>2 DEF Message
  <2>4. OperationsTypeOK'
    BY <1>1, <1>3, <1>4, <1>6, <2>2 DEF OperationsTypeOK
  <2>5. OffsetsInOrder'
    BY <1>1, <2>2 DEF OffsetsInOrder
  <2>6. CopySays'
    BY <1>1, <1>2, <1>4, <1>6, <2>1, <2>2, <2>3 DEF CopySays
  <2>7. RecordedSoFar'
    BY <1>1, <1>2, <1>6, <2>2 DEF RecordedSoFar, IsFor
  <2> QED
    BY <1>3, <2>4, <2>5, <2>6, <2>7
<1>7. CASE /\ consumer' = Polling(Continue(consumer.claim))
           /\ disturbed' = disturbed \cup {Message.vin}
  BY <1>1, <1>2, <1>3, <1>7, SkipKeepsOInv
<1> QED
  BY <1>1, <1>6, <1>7

\* A step that changes the rows alone, and leaves them sound.
LEMMA RowsKeepIInv ==
  ASSUME IInv, RowsCalm, UNCHANGED <<jobs, requests, chain, seq, locked>>
  PROVE  IInv'
<1> USE DEF IInv
<1>1. TypeOK' /\ RowsSound'
  BY DEF TypeOK, RowsSound, RowsCalm, chain
<1>2. JobsSound' /\ CopiesSound' /\ BatchesLast' /\ TokensFresh' /\ IndexesFresh'
  BY DEF JobsSound, CopiesSound, BatchesLast, TokensFresh, IndexesFresh, chain
<1>3. BurnersBurn' /\ LocksAreReleased' /\ BurnsExclude'
  BY DEF BurnersBurn, LocksAreReleased, BurnsExclude, OneBurnAtATime, InBurn
<1> QED
  BY <1>1, <1>2, <1>3

\* The columns are saved and the message is marked, or the update fails.
LEMMA WriteVinKeepsOInv ==
  ASSUME OInv, WriteVin
  PROVE  OInv'
<1> USE DEF OInv
<1> DEFINE p == consumer.claim.position
           v == Message.vin
           rec == consumer.record
           new == Update(vins[v], rec, EnrollColumns)
<1>1. /\ consumer.at = "write"
      /\ \/ /\ vins' = [vins EXCEPT ![v] = new]
            /\ consumer' = Polling(MarkMessage(consumer.claim))
            /\ UNCHANGED <<failures, disturbed>>
         \/ /\ Fail("lostWrite") /\ UNCHANGED vins
            /\ consumer' = Polling(Continue(consumer.claim))
            /\ disturbed' = disturbed \cup {v}
      /\ UNCHANGED <<jobs, requests, chain, seq, locked, log, committed, channel>>
  BY DEF WriteVin, OperationColumns
<1>2. /\ consumer \in Consumer /\ consumer.claim \in Claim /\ rec \in Row
      /\ p \in Nat \ {0} /\ consumer.claim.marked \in Nat /\ committed \in Nat
      /\ vins \in [Vins -> Row] /\ failures \in Nat
  BY DEF OperationsTypeOK, TypeOK, Consumer, Claim, Offset
<1>3. /\ p \in DOMAIN log /\ Message \in EnrollmentOperation
      /\ vins[v].present /\ Says(Message, rec)
      /\ ~(rec.conn = "succeeded" /\ rec.disc = "succeeded")
  BY <1>1 DEF CopySays
<1>4. v \in Vins /\ vins[v] \in Row
  BY <1>2, <1>3 DEF EnrollmentOperation
<1>5. Len(log) \in Nat /\ DOMAIN log = 1..Len(log)
  BY Messages
<1>6. CASE /\ vins' = [vins EXCEPT ![v] = new]
           /\ consumer' = Polling(MarkMessage(consumer.claim))
           /\ UNCHANGED <<failures, disturbed>>
  <2>1. /\ new \in Row /\ new.present
        /\ new.conn = rec.conn /\ new.disc = rec.disc
        /\ Sound(v, vins[v], vehicles, sds) => Sound(v, new, vehicles, sds)
    BY <1>2, <1>3, <1>4, EnrollmentUpdate
  <2> HIDE DEF new
  <2>2. /\ vins' \in [Vins -> Row] /\ vins'[v] = new
        /\ \A w \in Vins \ {v} : vins'[w] = vins[w]
    BY <1>2, <1>4, <1>6, <2>1
  <2>3. \A w \in Vins : Sound(w, vins'[w], vehicles, sds)
    BY <1>4, <2>1, <2>2 DEF IInv, RowsSound
  <2>4. IInv' /\ TypeOK'
    BY <1>1, <1>2, <1>6, <2>2, <2>3, RowsKeepIInv DEF RowsCalm, IInv
  <2>5. /\ consumer' \in Consumer /\ consumer'.at = "poll"
        /\ consumer'.claim.position = p + 1 /\ consumer'.claim.marked = p + 1
    BY <1>2, <1>6, Claims, Polls
  <2>6. OperationsTypeOK'
    BY <1>1, <1>6, <2>4, <2>5 DEF OperationsTypeOK
  <2>7. OffsetsInOrder' /\ CopySays'
    BY <1>1, <1>2, <1>3, <1>5, <2>5 DEF OffsetsInOrder, CopySays
  <2>8. RecordedSoFar'
    <3> SUFFICES ASSUME NEW w \in Vins \ disturbed,
                        NEW i \in DOMAIN log, IsFor(i, w), i < p + 1
                 PROVE  /\ vins'[w].present
                        /\ \E k \in DOMAIN log :
                             /\ IsFor(k, w) /\ Says(log[k], vins'[w])
                             /\ \A m \in DOMAIN log : IsFor(m, w) /\ m < p + 1 => m <= k
      BY <1>1, <1>6, <2>5 DEF RecordedSoFar, IsFor
    <3>1. IsFor(p, v) /\ Says(log[p], rec)
      BY <1>3, Messages DEF IsFor, Message, EnrollmentOperation
    <3>2. CASE w = v
      <4>1. Says(log[p], vins'[v])
        BY <2>1, <2>2, <3>1 DEF Says
      <4>2. \A m \in DOMAIN log : m < p + 1 => m <= p
        BY <1>2, <1>5
      <4> QED
        BY <1>3, <2>1, <2>2, <3>1, <3>2, <4>1, <4>2
    <3>3. CASE w # v
      <4>1. ~IsFor(p, w)
        BY <3>1, <3>3 DEF IsFor
      <4>2. \A m \in DOMAIN log : IsFor(m, w) /\ m < p + 1 => m < p
        BY <1>2, <1>5, <4>1
      <4>3. vins'[w] = vins[w]
        BY <2>2, <3>3
      <4> QED
        BY <4>2, <4>3 DEF RecordedSoFar
    <3> QED
      BY <3>2, <3>3
  <2> QED
    BY <2>4, <2>6, <2>7, <2>8
<1>7. CASE /\ Fail("lostWrite") /\ UNCHANGED vins
           /\ consumer' = Polling(Continue(consumer.claim))
           /\ disturbed' = disturbed \cup {v}
  <2>1. RowsCalm
    BY <1>7, NoSave DEF IInv
  <2>2. IInv'
    BY <1>1, <2>1, RowsKeepIInv
  <2> QED
    BY <1>1, <1>7, <2>2, SkipKeepsOInv
<1> QED
  BY <1>1, <1>6, <1>7

\* Marks are committed, by and by or at a rebalance.
LEMMA CommitKeepsOInv ==
  ASSUME OInv, Commit
  PROVE  OInv'
<1> USE DEF OInv
<1>1. /\ committed' = consumer.claim.marked
      /\ UNCHANGED <<vars, log, consumer, channel, disturbed>>
  BY DEF Commit
<1>2. UNCHANGED vins
  BY <1>1 DEF vars
<1>3. IInv' /\ TypeOK'
  BY <1>1, NextIInv DEF IInv
<1>4. consumer.claim.marked \in Offset
  BY DEF OperationsTypeOK, Consumer, Claim
<1>5. OperationsTypeOK' /\ OffsetsInOrder'
  BY <1>1, <1>3, <1>4 DEF OperationsTypeOK, OffsetsInOrder, Offset
<1>6. CopySays' /\ RecordedSoFar'
  BY <1>1, <1>2 DEF CopySays, RecordedSoFar, IsFor, Message
<1> QED
  BY <1>3, <1>5, <1>6

\* The handler begins again from an offset it has marked.
LEMMA RestartKeepsOInv ==
  ASSUME OInv, IInv', NEW offset \in Offset, offset <= consumer.claim.marked,
         consumer' = Polling(Claimed(offset)), committed' = offset,
         channel' \in 0..ChannelSize, UNCHANGED <<vins, log, disturbed>>
  PROVE  OInv'
<1> USE DEF OInv
<1>1. /\ consumer' \in Consumer /\ consumer'.at = "poll"
      /\ consumer'.claim.position = offset /\ consumer'.claim.marked = offset
  BY ClaimsBegin, Polls DEF Polling
<1>2. /\ offset \in Nat /\ consumer.claim.position \in Nat
      /\ consumer.claim.marked \in Nat /\ Len(log) \in Nat /\ DOMAIN log = 1..Len(log)
  BY Messages DEF OperationsTypeOK, Consumer, Claim, Offset
<1>3. OperationsTypeOK'
  BY <1>1 DEF OperationsTypeOK, IInv
<1>4. offset <= consumer.claim.position
  BY <1>2 DEF OffsetsInOrder
<1>5. OffsetsInOrder' /\ CopySays'
  BY <1>1, <1>2, <1>4 DEF OffsetsInOrder, CopySays
<1>6. RecordedSoFar'
  BY <1>1, <1>2, <1>4, StaysRecorded
<1> QED
  BY <1>3, <1>5, <1>6

LEMMA RebalanceKeepsOInv ==
  ASSUME OInv, Rebalance
  PROVE  OInv'
<1>1. /\ committed' = consumer.claim.marked
      /\ consumer' = Polling(Claimed(consumer.claim.marked))
      /\ UNCHANGED <<vars, log, channel, disturbed>>
  BY DEF Rebalance
<1>2. UNCHANGED vins /\ IInv'
  BY <1>1, NextIInv DEF OInv, vars
<1>3. consumer.claim.marked \in Offset /\ channel' \in 0..ChannelSize
  BY <1>1 DEF OInv, OperationsTypeOK, Consumer, Claim
<1>4. consumer.claim.marked <= consumer.claim.marked
  BY <1>3 DEF Offset
<1> QED
  BY <1>1, <1>2, <1>3, <1>4, RestartKeepsOInv

LEMMA DeathKeepsOInv ==
  ASSUME OInv, Death
  PROVE  OInv'
<1>1. /\ Crash \/ \E j \in Jobs : FatalUnlock(j)
      /\ consumer' = Polling(Claimed(committed)) /\ channel' = 0
      /\ UNCHANGED <<log, committed, disturbed>>
  BY DEF Death, ConsumerDies
<1>2. Next /\ UNCHANGED vins
  BY <1>1 DEF Next, WorkerStep, Crash, FatalUnlock
<1>3. IInv'
  BY <1>2, NextIInv DEF OInv
<1>4. committed \in Offset /\ committed <= consumer.claim.marked
  BY DEF OInv, OperationsTypeOK, OffsetsInOrder
<1>5. channel' \in 0..ChannelSize
  BY <1>1, OperationsAssumption
<1> QED
  BY <1>1, <1>2, <1>3, <1>4, <1>5, RestartKeepsOInv

LEMMA OnboardingKeepsOInv ==
  ASSUME OInv, OnboardingStep
  PROVE  OInv'
<1> USE DEF OInv
<1>1. /\ IInv' /\ RowsStay
      /\ \A v \in Vins \ disturbed' :
           /\ v \notin disturbed
           /\ vins'[v].conn = vins[v].conn /\ vins'[v].disc = vins[v].disc
      /\ disturbed' = disturbed \cup Disturbs
      /\ UNCHANGED <<log, consumer, committed, channel>>
  BY OnboardingSteps
<1>2. disturbed' \in SUBSET Vins
  BY <1>1 DEF OperationsTypeOK, Disturbs
<1>3. OperationsTypeOK' /\ OffsetsInOrder'
  BY <1>1, <1>2 DEF OperationsTypeOK, OffsetsInOrder, IInv
<1>4. CopySays'
  <2>1. Message' = Message
    BY <1>1 DEF Message
  <2>2. Message \in EnrollmentOperation => Message.vin \in Vins
    BY DEF EnrollmentOperation
  <2> QED
    BY <1>1, <2>1, <2>2 DEF CopySays, RowsStay
<1>5. RecordedSoFar'
  BY <1>1, StaysRecorded DEF RowsStay
<1> QED
  BY <1>1, <1>3, <1>4, <1>5

-----------------------------------------------------------------------------
(* The specification.                                                      *)

LEMMA NextOInv == OInv /\ [OperationsNext]_<<vars, operations>> => OInv'
<1> SUFFICES ASSUME OInv, [OperationsNext]_<<vars, operations>> PROVE OInv'
  OBVIOUS
<1>1. CASE OnboardingStep
  BY <1>1, OnboardingKeepsOInv
<1>2. CASE Death
  BY <1>2, DeathKeepsOInv
<1>3. CASE Publish
  BY <1>3, PublishKeepsOInv
<1>4. CASE ConsumerStep
  BY <1>4, ReceiveKeepsOInv, EnqueueKeepsOInv, ReadVinKeepsOInv, WriteVinKeepsOInv
  DEF ConsumerStep
<1>5. CASE Commit \/ Rebalance
  BY <1>5, CommitKeepsOInv, RebalanceKeepsOInv
<1>6. CASE UNCHANGED <<vars, operations>>
  <2>1. UNCHANGED vars /\ UNCHANGED <<log, consumer, committed, channel, disturbed, vins>>
    BY <1>6 DEF operations, vars
  <2>2. IInv' /\ TypeOK'
    BY <2>1, NextIInv DEF OInv, IInv
  <2> QED
    BY <2>1, <2>2 DEF OInv, OperationsTypeOK, OffsetsInOrder, CopySays, RecordedSoFar,
      IsFor, Message
<1> QED
  BY <1>1, <1>2, <1>3, <1>4, <1>5, <1>6 DEF OperationsNext

THEOREM OperationsInvariantHolds == OperationsSpec => []OInv
  BY InitOInv, NextOInv, PTL DEF OperationsSpec

\* Every variable of the consumer keeps its type, and beyond its loop the
\* handler has a message of the topic in hand, whatever is redelivered.
THEOREM OperationsTypeCorrect == OperationsSpec => []OperationsTypeOK
<1>1. OInv => OperationsTypeOK
  BY DEF OInv
<1> QED
  BY <1>1, OperationsInvariantHolds, PTL

\* The consumer, the handlers and the workers write the two enrollment columns
\* from copies of their own, and no VIN is ever recorded as both connected and
\* disconnected (service/vehicle.go:299, :353, onboard.go:415,
\* disconnect.go:128).
THEOREM OneEnrollmentWithOperations == OperationsSpec => []NeverBothSucceeded
<1>1. OInv => NeverBothSucceeded
  BY DEF OInv, IInv, RowsSound, Sound, NeverBothSucceeded
<1> QED
  BY <1>1, OperationsInvariantHolds, PTL

\* The stale copies of the consumer pair no tokens and indexes wrongly either.
THEOREM KeysMatchWithOperations == OperationsSpec => []DeviceKeysMatch
<1>1. OInv => DeviceKeysMatch
  BY DEF OInv, IInv, RowsSound, Sound, DeviceKeysMatch, KeyedBy
<1> QED
  BY <1>1, OperationsInvariantHolds, PTL

\* Whatever was redelivered after crashes, rebalances and unmarked messages,
\* once the handler is at the end of the topic, the row of a VIN whose
\* enrollment nobody else wrote says what its last operation said
\* (consumer.go:192, :202).
THEOREM LastOperationRecorded == OperationsSpec => []LastIsRecorded
<1>1. OInv => LastIsRecorded
  <2> SUFFICES ASSUME OInv, consumer.claim.position = Len(log) + 1,
                      NEW i \in DOMAIN log, log[i].action \notin Others,
                      log[i].vin \notin disturbed,
                      \A k \in DOMAIN log : k > i =>
                        log[k].action \in Others \/ log[k].vin # log[i].vin
               PROVE  IF log[i].action = "enroll"
                        THEN vins[log[i].vin].conn = log[i].status
                        ELSE vins[log[i].vin].disc = log[i].status
    BY DEF LastIsRecorded
  <2> DEFINE v == log[i].vin
  <2>1. Len(log) \in Nat /\ DOMAIN log = 1..Len(log) /\ IsFor(i, v) /\ v \in Vins
    BY Messages DEF OInv, IsFor
  <2>2. i < consumer.claim.position
    BY <2>1
  <2>3. PICK k \in DOMAIN log : IsFor(k, v) /\ Says(log[k], vins[v]) /\ i <= k
    BY <2>1, <2>2 DEF OInv, RecordedSoFar
  <2>4. k = i
    BY <2>1, <2>3 DEF IsFor
  <2> QED
    BY <2>3, <2>4 DEF Says
<1> QED
  BY <1>1, OperationsInvariantHolds, PTL
=============================================================================
