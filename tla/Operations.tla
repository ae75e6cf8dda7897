------------------------------ MODULE Operations ------------------------------
(***************************************************************************)
(* The consumer of the operations topic (MessageHandlerOperations of       *)
(* internal/kafka/consumer.go), which records what the vendor says of the  *)
(* enrollment of VINs, composed with Onboarding: both write the connection *)
(* and the disconnection status of the same rows, each from its own copy.  *)
(***************************************************************************)
EXTENDS Onboarding, ConsumerGroup

CONSTANTS
  MaxOps,       \* bound on the operations published
  Statuses,     \* the statuses operations come with
  Others,       \* other messages on the topic: "other", "malformed"
  ChannelSize   \* of the enrollment channel: 100 in main.go:89

ASSUME OperationsAssumption ==
  /\ MaxOps \in Nat /\ ChannelSize \in Nat
  /\ Statuses \subseteq OperationStatus \ {"null"}
  /\ Others \subseteq {"other", "malformed"}

VARIABLES
  log,        \* the topic
  consumer,   \* the claim of the handler, where it is, and its copy of a row
  committed,  \* the offset committed last
  channel,    \* number of operations in the enrollment channel
  disturbed   \* history: VINs whose enrollment columns others have written, or
              \* that an update of the consumer was lost or found no row for

operations == <<log, consumer, committed, channel, disturbed>>

\* What the vendor says of a VIN's enrollment, or something else.
EnrollmentOperation == [action : {"enroll", "unenroll"}, vin : Vins, status : Statuses]
Published == EnrollmentOperation \cup [action : Others]
Consumer   == [claim : Claim, at : {"poll", "enqueue", "read", "write"}, record : Row]

Polling(claim) == [claim |-> claim, at |-> "poll", record |-> NoRow]

OperationsInit ==
  /\ Init
  /\ log = <<>>
  /\ consumer = Polling(Claimed(1))
  /\ committed = 1
  /\ channel = 0
  /\ disturbed = {}

Message == log[consumer.claim.position]

\* The vendor publishes an operation.
Publish ==
  /\ Len(log) < MaxOps
  /\ \E op \in Published : log' = Append(log, op)
  /\ UNCHANGED <<vars, consumer, committed, channel, disturbed>>

\* The handler's loop up to the channel.
ReceiveMarked ==  \* mutant: the message is marked before it is recorded
  /\ consumer.at = "poll"
  /\ consumer.claim.position <= Len(log)
  /\ consumer' = IF Message.action = "malformed"
                   THEN Polling(Continue(consumer.claim))
                 ELSE IF Message.action = "other"
                   THEN Polling(MarkMessage(consumer.claim))
                 ELSE [consumer EXCEPT !.at = "enqueue",
                         !.claim.marked = consumer.claim.position + 1]
  /\ UNCHANGED <<vars, log, committed, channel, disturbed>>

Receive ==
  /\ consumer.at = "poll"
  /\ consumer.claim.position <= Len(log)
  /\ \/ /\ Message.action = "malformed"
        /\ consumer' = Polling(Continue(consumer.claim))
     \/ /\ Message.action = "other"
        /\ consumer' = Polling(MarkMessage(consumer.claim))
     \/ /\ Message.action \in {"enroll", "unenroll"}
        /\ consumer' = [consumer EXCEPT !.at = "enqueue"]
  /\ UNCHANGED <<vars, log, committed, channel, disturbed>>

EnqueueUnbounded ==  \* mutant: the channel takes every operation
  /\ consumer.at = "enqueue"
  /\ channel' = channel + 1
  /\ consumer' = [consumer EXCEPT !.at = "read"]
  /\ UNCHANGED <<vars, log, committed, disturbed>>

\* h.EnrollmentChannel <- operation.  Nothing receives from the channel.
Enqueue ==
  /\ consumer.at = "enqueue"
  /\ channel < ChannelSize
  /\ channel' = channel + 1
  /\ consumer' = [consumer EXCEPT !.at = "read"]
  /\ UNCHANGED <<vars, log, committed, disturbed>>

\* What the two update methods make of a row.
EnrolledOnly(record, status) == [record EXCEPT !.conn = status]  \* mutant
Enrolled(record, status) ==
  [record EXCEPT !.conn = status,
                 !.disc = IF status = "succeeded" THEN "null" ELSE @]
Unenrolled(record, status) ==
  [record EXCEPT !.disc = status,
                 !.conn = IF status = "succeeded" THEN "null" ELSE @]

\* UpdateEnrollmentStatus and UpdateUnenrollmentStatus: read the row; it is an
\* error if there is none, and then the message is left unmarked.
ReadVin ==
  LET row == vins[Message.vin]
  IN  /\ consumer.at = "read"
      /\ \/ /\ row.present
            /\ consumer' = [consumer EXCEPT !.at = "write", !.record =
                 IF Message.action = "enroll" THEN Enrolled(row, Message.status)
                                              ELSE Unenrolled(row, Message.status)]
            /\ UNCHANGED disturbed
         \/ /\ ~row.present
            /\ consumer' = Polling(Continue(consumer.claim))
            /\ disturbed' = disturbed \cup {Message.vin}
      /\ UNCHANGED <<vars, log, committed, channel>>

\* Update the columns of the whitelist and mark the message; if the update
\* fails, or the read before it did, the message is left unmarked.
OperationColumnsAll == AllColumns  \* mutant: boil.Infer()
OperationColumns    == EnrollColumns
WriteVin ==
  /\ consumer.at = "write"
  /\ \/ /\ vins' = [vins EXCEPT ![Message.vin] =
                      Update(@, consumer.record, OperationColumns)]
        /\ consumer' = Polling(MarkMessage(consumer.claim))
        /\ UNCHANGED <<failures, disturbed>>
     \/ /\ Fail("lostWrite")
        /\ consumer' = Polling(Continue(consumer.claim))
        /\ disturbed' = disturbed \cup {Message.vin}
        /\ UNCHANGED vins
  /\ UNCHANGED <<jobs, requests, chain, seq, locked, log, committed, channel>>

\* sarama commits the marks, once in a while.
Commit ==
  /\ committed # consumer.claim.marked
  /\ committed' = consumer.claim.marked
  /\ UNCHANGED <<vars, log, consumer, channel, disturbed>>

\* A rebalance lets the handler finish its message, commits the marks and
\* begins again from there.
Rebalance ==
  /\ consumer.at = "poll"
  /\ consumer.claim.position # consumer.claim.marked
  /\ committed' = consumer.claim.marked
  /\ consumer' = Polling(Claimed(consumer.claim.marked))
  /\ UNCHANGED <<vars, log, channel, disturbed>>

ConsumerStep == Receive \/ Enqueue \/ ReadVin \/ WriteVin

\* The process dies: the claim and the channel with it.
ConsumerDies ==
  /\ consumer' = Polling(Claimed(committed))
  /\ channel' = 0
  /\ UNCHANGED <<log, committed, disturbed>>

\* Steps of Onboarding, alive or deadly.
Disturbs ==
  {v \in Vins : vins'[v].conn # vins[v].conn \/ vins'[v].disc # vins[v].disc}
OnboardingStep ==
  /\ \/ \E j \in Jobs : VerifyStep(j) \/ OnboardStep(j) \/ BurnStep(j)
     \/ \E r \in Requests : BeginRequest(r) \/ HandlerStep(r)
     \/ ReadFails
  /\ disturbed' = disturbed \cup Disturbs
  /\ UNCHANGED <<log, consumer, committed, channel>>

Death ==
  /\ Crash \/ \E j \in Jobs : FatalUnlock(j)
  /\ ConsumerDies

OperationsNext ==
  \/ OnboardingStep \/ Death
  \/ Publish \/ ConsumerStep \/ Commit \/ Rebalance

OperationsSpec == OperationsInit /\ [][OperationsNext]_<<vars, operations>>

\* The consumer's goroutine runs; nothing else has to.
OperationsFairSpec == OperationsSpec /\ WF_<<vars, operations>>(ConsumerStep)
=============================================================================
