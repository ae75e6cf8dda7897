------------------------------ MODULE Telemetry ------------------------------
(***************************************************************************)
(* The consumer of the telemetry topic (MessageHandlerUnbuffered of        *)
(* internal/kafka/consumer.go and HandleDeviceByVIN of                     *)
(* internal/service/oracle.go): each partition of the topic has a handler  *)
(* of its own, which looks a VIN's tokens up in the cache they share, or   *)
(* else in the VIN's row, and sends the event to the DIMO node in their    *)
(* name.  The rows change as VehicleLifecycle says.                        *)
(***************************************************************************)
EXTENDS VehicleLifecycle, ConsumerGroup, Sequences

CONSTANTS
  Partitions,   \* of the topic
  Malformed,    \* a message without a VIN or without signals
  TTL,          \* ticks a cache entry lives: 10 minutes in oracle.go:43
  MaxEvents,    \* partition -> bound on its messages
  MaxTokens,    \* bounds on the vehicles and on the SDs ever minted
  MaxRestarts   \* bound on the deaths of the process and on the rebalances

ASSUME TelemetryAssumption ==
  /\ Malformed \notin Vins
  /\ TTL \in Nat \ {0} /\ MaxEvents \in [Partitions -> Nat]
  /\ MaxTokens \in [veh : Nat, sd : Nat] /\ MaxRestarts \in Nat

VARIABLES
  log,        \* partition -> its messages: VINs and Malformed
  handlers,   \* partition -> claim, where its handler is, and the tokens it has
  cache,      \* VIN -> tokens and ticks left; none are left when it is expired
  committed,  \* partition -> the offset committed last
  restarts,   \* deaths and rebalances so far
  former,     \* history: VIN -> the tokens its row had in the last TTL ticks,
              \* and how many ticks ago
  handled     \* history: partition -> offsets that were dropped, refused or sent

kafka == <<log, handlers, cache, committed, restarts, handled>>
telemetry == <<lifecycle, kafka, former>>

Handler == [claim : Claim, at : {"poll", "read", "set", "send"}, tokens : Tokens]
Polling(claim) == [claim |-> claim, at |-> "poll", tokens |-> Unknown]
NotCached == [tokens |-> Unknown, left |-> 0]

TelemetryInit ==
  /\ LifecycleInit
  /\ log = [p \in Partitions |-> <<>>]
  /\ handlers = [p \in Partitions |-> Polling(Claimed(1))]
  /\ cache = [v \in Vins |-> NotCached]
  /\ committed = [p \in Partitions |-> 1]
  /\ restarts = 0
  /\ former = [v \in Vins |-> {}]
  /\ handled = [p \in Partitions |-> {}]

Position(p) == handlers[p].claim.position
Message(p)  == log[p][Position(p)]

\* The vendor sends an event, or something else.
Publish(p) ==
  /\ Len(log[p]) < MaxEvents[p]
  /\ \E m \in Vins \cup {Malformed} : log' = [log EXCEPT ![p] = Append(@, m)]
  /\ UNCHANGED <<lifecycle, former, handlers, cache, committed, restarts, handled>>

-----------------------------------------------------------------------------
(* The handler of a partition.                                             *)

Put(p, handler) == handlers' = [handlers EXCEPT ![p] = handler]

\* HandleDeviceByVIN returned, with an error or without.
Finish(p, claim) ==
  /\ Put(p, Polling(claim))
  /\ handled' = [handled EXCEPT ![p] = @ \cup {Position(p)}]
RefusedAgain(p) ==  \* mutant: a message is tried until it succeeds
  /\ Put(p, Polling(handlers[p].claim))
  /\ UNCHANGED handled
Refused(p) == Finish(p, Continue(handlers[p].claim))
Done(p)    == Finish(p, MarkMessage(handlers[p].claim))

\* A VIN without a vehicle is done with; for others the event is sent.
UseTokensMarked(p, tokens) ==  \* mutant: marked before it is sent
  \/ /\ tokens.veh = 0
     /\ Done(p)
  \/ /\ tokens.veh # 0
     /\ Put(p, [handlers[p] EXCEPT !.at = "send", !.claim.marked = Position(p) + 1])
     /\ UNCHANGED handled
UseTokens(p, tokens) ==
  \/ /\ tokens.veh = 0
     /\ Done(p)
  \/ /\ tokens.veh # 0
     /\ Put(p, [handlers[p] EXCEPT !.at = "send", !.tokens = tokens])
     /\ UNCHANGED handled

\* Parsing, validation and the lookup in the cache.
Fetch(p) ==
  /\ handlers[p].at = "poll"
  /\ Position(p) <= Len(log[p])
  /\ \/ Message(p) = Malformed /\ Refused(p)
     \/ /\ Message(p) # Malformed
        /\ \/ /\ cache[Message(p)].left > 0
              /\ UseTokens(p, cache[Message(p)].tokens)
           \/ /\ cache[Message(p)].left = 0
              /\ Put(p, [handlers[p] EXCEPT !.at = "read"])
              /\ UNCHANGED handled
  /\ UNCHANGED <<lifecycle, former, log, cache, committed, restarts>>

\* GetVehicleByVin: no row or an error of the database, or the row.
ReadRow(p) ==
  LET tokens == recorded[Message(p)]
  IN  /\ handlers[p].at = "read"
      /\ \/ Refused(p)
         \/ /\ tokens # Unknown
            /\ Put(p, [handlers[p] EXCEPT !.at = "set", !.tokens = tokens])
            /\ UNCHANGED handled
      /\ UNCHANGED <<lifecycle, former, log, cache, committed, restarts>>

CachedLonger(tokens) == [tokens |-> tokens, left |-> TTL + 1]  \* mutant: 15 minutes
Cached(tokens)       == [tokens |-> tokens, left |-> TTL]
SetCache(p) ==
  LET tokens == handlers[p].tokens
  IN  /\ handlers[p].at = "set"
      /\ cache' = [cache EXCEPT ![Message(p)] = Cached(tokens)]
      /\ UseTokens(p, tokens)
      /\ UNCHANGED <<lifecycle, former, log, committed, restarts>>

\* SendToDimoNode has an answer: 2xx and 400 are done with, others an error.
Answer(p) ==
  /\ handlers[p].at = "send"
  /\ Done(p) \/ Refused(p)
  /\ UNCHANGED <<lifecycle, former, log, cache, committed, restarts>>

HandlerStep(p) == Fetch(p) \/ ReadRow(p) \/ SetCache(p) \/ Answer(p)

-----------------------------------------------------------------------------
(* Everything around it.                                                   *)

Commit(p) ==
  /\ committed[p] # handlers[p].claim.marked
  /\ committed' = [committed EXCEPT ![p] = handlers[p].claim.marked]
  /\ UNCHANGED <<lifecycle, former, log, handlers, cache, restarts, handled>>

Restart ==
  /\ restarts < MaxRestarts
  /\ restarts' = restarts + 1
  /\ UNCHANGED <<lifecycle, former, log, handled>>

\* Handlers finish their messages, marks are committed, and the partitions are
\* claimed again.
Rebalance ==
  /\ Restart
  /\ \A p \in Partitions : handlers[p].at = "poll"
  /\ committed' = [p \in Partitions |-> handlers[p].claim.marked]
  /\ handlers' = [p \in Partitions |-> Polling(Claimed(committed'[p]))]
  /\ UNCHANGED cache

\* The process dies; one way is a send that gets no answer at all, for which
\* dimonode_api.go:89 looks into a response that is not there.
Crash ==
  /\ Restart
  /\ handlers' = [p \in Partitions |-> Polling(Claimed(committed[p]))]
  /\ cache' = [v \in Vins |-> NotCached]
  /\ UNCHANGED committed

\* A row changes.
Onboarding ==
  /\ LifecycleNext
  /\ minted'.veh <= MaxTokens.veh /\ minted'.sd <= MaxTokens.sd
  /\ former' = [v \in Vins |-> IF recorded'[v] = recorded[v] THEN former[v]
                               ELSE former[v] \cup {[tokens |-> recorded[v], ticks |-> 0]}]
  /\ UNCHANGED kafka

\* Time passes.  A handler sets the cache within a tick of reading the row.
Tick ==
  /\ \A p \in Partitions : handlers[p].at # "set"
  /\ cache' = [v \in Vins |-> IF cache[v].left <= 1 THEN NotCached
                              ELSE [cache[v] EXCEPT !.left = @ - 1]]
  /\ former' = [v \in Vins |-> {[f EXCEPT !.ticks = @ + 1] :
                                  f \in {g \in former[v] : g.ticks < TTL - 1}}]
  /\ UNCHANGED <<lifecycle, log, handlers, committed, restarts, handled>>

TelemetryNext ==
  \/ \E p \in Partitions : Publish(p) \/ HandlerStep(p) \/ Commit(p)
  \/ Rebalance \/ Crash \/ Onboarding \/ Tick

TelemetrySpec == TelemetryInit /\ [][TelemetryNext]_telemetry

\* The goroutine of every partition runs, and calls come back.
TelemetryFairSpec ==
  TelemetrySpec /\ \A p \in Partitions : WF_telemetry(HandlerStep(p))
=============================================================================
