---------------------------- MODULE ConsumerGroup ----------------------------
(***************************************************************************)
(* One partition of a Kafka topic as both consumers of the oracle          *)
(* (internal/kafka/consumer.go) see it: messages are handed out in order   *)
(* from the offset that was committed last, a handler marks the ones it is *)
(* done with, and marks are committed from time to time.  Offsets begin    *)
(* at 1, and the group has committed one before.                           *)
(***************************************************************************)
EXTENDS Naturals

Offset == Nat \ {0}

\* The next message to hand out, and the offset that the marks make of it.
Claim == [position : Offset, marked : Offset]

Claimed(offset) == [position |-> offset, marked |-> offset]

\* The handler goes on to the next message: "continue" leaves this one
\* unmarked, but the mark of a later one includes it.
Continue(claim)    == [claim EXCEPT !.position = @ + 1]
MarkMessageTwice(claim) ==  \* mutant: sarama.MarkOffset takes the next offset
  [position |-> claim.position + 1, marked |-> claim.position + 2]
MarkMessage(claim) == [position |-> claim.position + 1,
                       marked   |-> claim.position + 1]
=============================================================================
