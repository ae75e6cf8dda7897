---------------------------- MODULE TelemetryProofs ----------------------------
(***************************************************************************)
(* Proofs about the telemetry consumer: for any number of partitions,      *)
(* events, VINs, tokens and restarts and any life of a cache entry, no     *)
(* message is skipped, and what becomes of one is decided by tokens that   *)
(* are not too old.  Both rest on TelemetryInv, which TLC checks as well.  *)
(***************************************************************************)
EXTENDS TelemetryProperties, TLAPS

USE TelemetryAssumption DEF Offset

\* The parts of TelemetryInv that speak of handlers and of what was handled.
HandlersKept ==
  /\ handlers' \in [Partitions -> Handler]
  /\ handled' \in [Partitions -> SUBSET Offset]
  /\ NothingIsSkipped'
  /\ HandlersSound'

\* The handler of one partition has moved on to another message, which it can
\* only do by handling this one: what the steps of Finish keep.
LEMMA FinishKeeps ==
  ASSUME TelemetryInv,
         NEW p \in Partitions, Position(p) \in DOMAIN log[p],
         Refused(p) \/ Done(p),
         UNCHANGED <<lifecycle, former, log, committed, restarts>>
  PROVE  /\ HandlersKept
         /\ \A q \in Partitions : handlers'[q].at = "set" => handlers'[q] = handlers[q]
<1>1. PICK claim \in Claim :
        /\ claim.position = Position(p) + 1
        /\ claim.marked <= claim.position
        /\ Finish(p, claim)
  <2>. DEFINE claim == handlers[p].claim
  <2>1. claim \in Claim /\ claim.marked <= claim.position
    BY DEF TelemetryInv, TelemetryTypeOK, HandlersSound, Handler, Position
  <2>2. /\ Continue(claim) \in Claim
        /\ Continue(claim).position = claim.position + 1
        /\ Continue(claim).marked <= Continue(claim).position
    BY <2>1 DEF Continue, Claim
  <2>3. /\ MarkMessage(claim) \in Claim
        /\ MarkMessage(claim).position = claim.position + 1
        /\ MarkMessage(claim).marked <= MarkMessage(claim).position
    BY <2>1 DEF MarkMessage, Claim
  <2>. HIDE DEF claim
  <2>4. Finish(p, Continue(claim)) \/ Finish(p, MarkMessage(claim))
    BY DEF Refused, Done, claim
  <2>5. Position(p) = claim.position
    BY DEF Position, claim
  <2>6. QED
    BY <2>2, <2>3, <2>4, <2>5
<1>2. handlers' = [handlers EXCEPT ![p] = Polling(claim)]
  BY <1>1 DEF Finish, Put
<1>3. handled' = [handled EXCEPT ![p] = @ \cup {Position(p)}]
  BY <1>1 DEF Finish
<1>4. /\ handlers' \in [Partitions -> Handler]
      /\ handled' \in [Partitions -> SUBSET Offset]
  <2>1. Polling(claim) \in Handler
    BY <1>1 DEF Handler, Polling, Unknown, None, Tokens
  <2>2. Position(p) \in Offset
    BY DEF TelemetryInv, TelemetryTypeOK, Handler, Claim, Position
  <2>3. handlers' \in [Partitions -> Handler]
    BY <1>2, <2>1 DEF TelemetryInv, TelemetryTypeOK
  <2>4. handled' \in [Partitions -> SUBSET Offset]
    BY <1>3, <2>2 DEF TelemetryInv, TelemetryTypeOK
  <2>5. QED
    BY <2>3, <2>4
<1>5. NothingIsSkipped'
  <2>1. SUFFICES ASSUME NEW q \in Partitions
                 PROVE  /\ 1..(Position(q)' - 1) \subseteq handled'[q]
                        /\ 1..(committed[q] - 1) \subseteq handled'[q]
    BY DEF NothingIsSkipped
  <2>2. /\ Position(q) \in Offset /\ committed[q] \in Offset
        /\ 1..(Position(q) - 1) \subseteq handled[q]
        /\ 1..(committed[q] - 1) \subseteq handled[q]
    BY DEF TelemetryInv, TelemetryTypeOK, NothingIsSkipped, Handler, Claim, Position
  <2>3. CASE q = p
    <3>1. Position(q)' = Position(q) + 1
      BY <1>1, <1>2, <2>3 DEF TelemetryInv, TelemetryTypeOK, Polling, Position
    <3>2. handled'[q] = handled[q] \cup {Position(q)}
      BY <1>3, <2>3 DEF TelemetryInv, TelemetryTypeOK
    <3>3. QED
      BY <2>2, <3>1, <3>2
  <2>4. CASE q # p
    <3>1. Position(q)' = Position(q)
      BY <1>2, <2>4 DEF TelemetryInv, TelemetryTypeOK, Position
    <3>2. handled'[q] = handled[q]
      BY <1>3, <2>4 DEF TelemetryInv, TelemetryTypeOK
    <3>3. QED
      BY <2>2, <3>1, <3>2
  <2>5. QED
    BY <2>3, <2>4
<1>6. HandlersSound'
  BY <1>1, <1>2 DEF TelemetryInv, TelemetryTypeOK, HandlersSound, Handler, Claim, Polling,
         Position, Busy, Message
<1>7. \A q \in Partitions : handlers'[q].at = "set" => handlers'[q] = handlers[q]
  BY <1>2 DEF TelemetryInv, TelemetryTypeOK, Polling
<1>8. QED
  BY <1>4, <1>5, <1>6, <1>7 DEF HandlersKept

\* A handler goes on with its message.
LEMMA MoveKeeps ==
  ASSUME TelemetryInv,
         NEW p \in Partitions, Position(p) \in DOMAIN log[p], Message(p) \in Vins,
         NEW h \in Handler, h.claim = handlers[p].claim, Put(p, h),
         UNCHANGED <<log, committed, handled>>
  PROVE  HandlersKept
<1>1. handlers' = [handlers EXCEPT ![p] = h]
  BY DEF Put
<1>2. handlers' \in [Partitions -> Handler]
  BY <1>1 DEF TelemetryInv, TelemetryTypeOK
<1>3. \A q \in Partitions : handlers'[q].claim = handlers[q].claim
  BY <1>1 DEF TelemetryInv, TelemetryTypeOK
<1>4. NothingIsSkipped'
  BY <1>3 DEF TelemetryInv, NothingIsSkipped, Position
<1>5. HandlersSound'
  <2>1. SUFFICES ASSUME NEW q \in Partitions
                 PROVE  /\ Busy(q)' => Position(q)' \in DOMAIN log[q] /\ Message(q)' \in Vins
                        /\ handlers'[q].claim.marked <= Position(q)'
    BY DEF HandlersSound, Message
  <2>2. Position(q)' = Position(q) /\ Message(q)' = Message(q)
    BY <1>3 DEF Position, Message
  <2>3. CASE q = p
    BY <1>3, <2>2, <2>3 DEF TelemetryInv, HandlersSound
  <2>4. CASE q # p
    BY <1>1, <1>3, <2>2, <2>4 DEF TelemetryInv, TelemetryTypeOK, HandlersSound, Busy
  <2>5. QED
    BY <2>3, <2>4
<1>6. QED
  BY <1>2, <1>4, <1>5 DEF HandlersKept, TelemetryInv, TelemetryTypeOK

\* What a handler does with the tokens it got.
LEMMA UseTokensKeeps ==
  ASSUME TelemetryInv,
         NEW p \in Partitions, Position(p) \in DOMAIN log[p], Message(p) \in Vins,
         NEW tokens \in Tokens, UseTokens(p, tokens),
         UNCHANGED <<lifecycle, former, log, committed, restarts>>
  PROVE  /\ HandlersKept
         /\ \A q \in Partitions : handlers'[q].at = "set" => handlers'[q] = handlers[q]
<1>1. CASE Done(p)
  BY <1>1, FinishKeeps
<1>2. CASE /\ Put(p, [handlers[p] EXCEPT !.at = "send", !.tokens = tokens])
           /\ UNCHANGED handled
  <2>1. PICK h : h = [handlers[p] EXCEPT !.at = "send", !.tokens = tokens]
    OBVIOUS
  <2>2. h \in Handler /\ h.claim = handlers[p].claim /\ h.at = "send"
    <3>1. handlers[p] \in Handler
      BY DEF TelemetryInv, TelemetryTypeOK
    <3>2. QED
      BY <2>1, <3>1 DEF Handler
  <2>3. HandlersKept
    BY <1>2, <2>1, <2>2, MoveKeeps
  <2>4. \A q \in Partitions : handlers'[q].at = "set" => handlers'[q] = handlers[q]
    BY <1>2, <2>1, <2>2 DEF Put, TelemetryInv, TelemetryTypeOK
  <2>5. QED
    BY <2>3, <2>4
<1>3. QED
  BY <1>1, <1>2 DEF UseTokens

-----------------------------------------------------------------------------
(* The steps, one lemma each.                                              *)

LEMMA InitEstablishesInv == TelemetryInit => TelemetryInv
<1>. SUFFICES ASSUME TelemetryInit PROVE TelemetryInv
  OBVIOUS
<1>1. TelemetryTypeOK
  <2>1. None \in Tokens /\ Unknown \in Tokens
    BY DEF Tokens, Unknown, None
  <2>2. Polling(Claimed(1)) \in Handler /\ NotCached \in [tokens : Tokens, left : 0..TTL]
    BY <2>1 DEF Handler, Claim, Claimed, Polling, NotCached
  <2>3. /\ held \in [Vins -> Tokens] /\ recorded \in [Vins -> Tokens]
        /\ minted \in [veh : Nat, sd : Nat]
    BY <2>1 DEF TelemetryInit, LifecycleInit
  <2>4. QED
    BY <2>2, <2>3 DEF TelemetryInit, TelemetryTypeOK
<1>2. NothingIsSkipped /\ HandlersSound
  BY DEF TelemetryInit, NothingIsSkipped, HandlersSound, Busy, Position, Polling, Claimed
<1>3. CacheSound /\ ReadsSound
  BY DEF TelemetryInit, CacheSound, ReadsSound, NotCached, Polling
<1>4. QED
  BY <1>1, <1>2, <1>3 DEF TelemetryInv

LEMMA PublishKeepsInv ==
  ASSUME TelemetryInv, NEW p \in Partitions, Publish(p)
  PROVE  TelemetryInv'
<1>1. PICK m \in Vins \cup {Malformed} : log' = [log EXCEPT ![p] = Append(@, m)]
  BY DEF Publish
<1>2. log' \in [Partitions -> Seq(Vins \cup {Malformed})]
  BY <1>1 DEF TelemetryInv, TelemetryTypeOK
<1>3. TelemetryTypeOK'
  BY <1>2 DEF Publish, TelemetryInv, TelemetryTypeOK, lifecycle
<1>4. \A q \in Partitions : \A i \in DOMAIN log[q] :
        i \in DOMAIN log'[q] /\ log'[q][i] = log[q][i]
  BY <1>1 DEF TelemetryInv, TelemetryTypeOK
<1>5. \A q \in Partitions : Busy(q) => Message(q)' = Message(q)
  BY <1>4 DEF Publish, TelemetryInv, HandlersSound, Message, Position
<1>6. NothingIsSkipped' /\ HandlersSound'
  BY <1>4, <1>5 DEF Publish, TelemetryInv, NothingIsSkipped, HandlersSound, Busy, Position
<1>7. CacheSound' /\ ReadsSound'
  BY <1>5 DEF Publish, TelemetryInv, CacheSound, ReadsSound, Busy, lifecycle
<1>8. QED
  BY <1>3, <1>6, <1>7 DEF TelemetryInv

\* Of the handlers' steps only SetCache changes the cache.
LEMMA HandlerKeepsInv ==
  ASSUME TelemetryInv, HandlersKept,
         UNCHANGED <<lifecycle, former, log, cache, committed, restarts>>,
         \A q \in Partitions : handlers'[q].at = "set" =>
           \/ handlers'[q] = handlers[q]
           \/ handlers'[q].tokens = recorded[Message(q)] /\ Position(q)' = Position(q)
  PROVE  TelemetryInv'
<1>1. TelemetryTypeOK'
  BY DEF TelemetryInv, TelemetryTypeOK, HandlersKept, lifecycle
<1>2. CacheSound'
  BY DEF TelemetryInv, CacheSound, lifecycle
<1>3. ReadsSound'
  BY DEF TelemetryInv, ReadsSound, lifecycle, Message, Position
<1>4. QED
  BY <1>1, <1>2, <1>3 DEF TelemetryInv, HandlersKept

LEMMA FetchKeepsInv ==
  ASSUME TelemetryInv, NEW p \in Partitions, Fetch(p)
  PROVE  TelemetryInv'
<1>. DEFINE SetAsBefore ==
       \A q \in Partitions : handlers'[q].at = "set" => handlers'[q] = handlers[q]
<1>1. /\ handlers[p] \in Handler
      /\ Position(p) \in DOMAIN log[p]
      /\ log[p] \in Seq(Vins \cup {Malformed})
  BY DEF Fetch, TelemetryInv, TelemetryTypeOK, Handler, Claim, Position
<1>2. CASE Message(p) = Malformed /\ Refused(p)
  <2>1. HandlersKept /\ SetAsBefore
    BY <1>1, <1>2, FinishKeeps DEF Fetch
  <2>2. QED
    BY <2>1, HandlerKeepsInv DEF Fetch
<1>3. CASE Message(p) # Malformed
  <2>1. Message(p) \in Vins
    BY <1>1, <1>3 DEF Message
  <2>2. CASE UseTokens(p, cache[Message(p)].tokens)
    <3>1. cache[Message(p)].tokens \in Tokens
      BY <2>1 DEF TelemetryInv, TelemetryTypeOK
    <3>2. HandlersKept /\ SetAsBefore
      BY <1>1, <2>1, <2>2, <3>1, UseTokensKeeps DEF Fetch
    <3>3. QED
      BY <3>2, HandlerKeepsInv DEF Fetch
  <2>3. CASE Put(p, [handlers[p] EXCEPT !.at = "read"]) /\ UNCHANGED handled
    <3>1. PICK h : h = [handlers[p] EXCEPT !.at = "read"]
      OBVIOUS
    <3>2. h \in Handler /\ h.claim = handlers[p].claim /\ h.at = "read"
      BY <1>1, <3>1 DEF Handler
    <3>3. HandlersKept
      BY <1>1, <2>1, <2>3, <3>1, <3>2, MoveKeeps DEF Fetch
    <3>4. SetAsBefore
      BY <2>3, <3>1, <3>2 DEF Put, TelemetryInv, TelemetryTypeOK
    <3>5. QED
      BY <3>3, <3>4, HandlerKeepsInv DEF Fetch
  <2>4. QED
    BY <1>3, <2>2, <2>3 DEF Fetch
<1>4. QED
  BY <1>2, <1>3 DEF Fetch

LEMMA ReadRowKeepsInv ==
  ASSUME TelemetryInv, NEW p \in Partitions, ReadRow(p)
  PROVE  TelemetryInv'
<1>1. /\ handlers[p] \in Handler
      /\ Position(p) \in DOMAIN log[p]
      /\ Message(p) \in Vins
  BY DEF ReadRow, TelemetryInv, TelemetryTypeOK, HandlersSound, Busy
<1>2. CASE Refused(p)
  <2>1. /\ HandlersKept
        /\ \A q \in Partitions : handlers'[q].at = "set" => handlers'[q] = handlers[q]
    BY <1>1, <1>2, FinishKeeps DEF ReadRow
  <2>2. QED
    BY <2>1, HandlerKeepsInv DEF ReadRow
<1>3. CASE /\ Put(p, [handlers[p] EXCEPT !.at = "set", !.tokens = recorded[Message(p)]])
           /\ UNCHANGED handled
  <2>1. PICK h : h = [handlers[p] EXCEPT !.at = "set", !.tokens = recorded[Message(p)]]
    OBVIOUS
  <2>2. recorded[Message(p)] \in Tokens
    BY <1>1 DEF TelemetryInv, TelemetryTypeOK
  <2>3. /\ h \in Handler /\ h.claim = handlers[p].claim
        /\ h.tokens = recorded[Message(p)]
    BY <1>1, <2>1, <2>2 DEF Handler
  <2>4. HandlersKept
    BY <1>1, <1>3, <2>1, <2>3, MoveKeeps DEF ReadRow
  <2>5. /\ handlers'[p] = h
        /\ \A q \in Partitions : q # p => handlers'[q] = handlers[q]
    BY <1>3, <2>1 DEF Put, TelemetryInv, TelemetryTypeOK
  <2>6. QED
    BY <2>3, <2>4, <2>5, HandlerKeepsInv DEF ReadRow, Position
<1>4. QED
  BY <1>2, <1>3 DEF ReadRow

LEMMA AnswerKeepsInv ==
  ASSUME TelemetryInv, NEW p \in Partitions, Answer(p)
  PROVE  TelemetryInv'
<1>1. Position(p) \in DOMAIN log[p]
  BY DEF Answer, TelemetryInv, HandlersSound, Busy
<1>2. /\ HandlersKept
      /\ \A q \in Partitions : handlers'[q].at = "set" => handlers'[q] = handlers[q]
  BY <1>1, FinishKeeps DEF Answer
<1>3. QED
  BY <1>2, HandlerKeepsInv DEF Answer

\* What the cache is given, and what a handler knows of the tokens it gives.
LEMMA SetCacheKeepsInv ==
  ASSUME TelemetryInv, NEW p \in Partitions, SetCache(p)
  PROVE  TelemetryInv'
<1>. DEFINE tokens == handlers[p].tokens
            v == Message(p)
<1>1. /\ Position(p) \in DOMAIN log[p]
      /\ v \in Vins
      /\ tokens \in Tokens
  BY DEF SetCache, TelemetryInv, TelemetryTypeOK, HandlersSound, Busy, Handler
<1>2. cache' = [cache EXCEPT ![v] = [tokens |-> tokens, left |-> TTL]]
  BY DEF SetCache, Cached
<1>3. /\ HandlersKept
      /\ \A q \in Partitions : handlers'[q].at = "set" => handlers'[q] = handlers[q]
  BY <1>1, UseTokensKeeps DEF SetCache
<1>4. TelemetryTypeOK'
  <2>1. cache' \in [Vins -> [tokens : Tokens, left : 0..TTL]]
    BY <1>1, <1>2 DEF TelemetryInv, TelemetryTypeOK
  <2>2. QED
    BY <1>3, <2>1 DEF SetCache, TelemetryInv, TelemetryTypeOK, HandlersKept, lifecycle
<1>5. \/ tokens = recorded[v]
      \/ \E f \in former[v] : f.tokens = tokens /\ f.ticks = 0
  BY DEF SetCache, TelemetryInv, ReadsSound
<1>6. CacheSound'
  <2>1. SUFFICES ASSUME NEW w \in Vins, cache'[w].left > 0
                 PROVE  \/ cache'[w].tokens = recorded[w]
                        \/ \E f \in former[w] : /\ f.tokens = cache'[w].tokens
                                               /\ f.ticks + cache'[w].left <= TTL
    BY DEF SetCache, CacheSound, lifecycle
  <2>2. CASE w = v
    <3>1. cache'[w].tokens = tokens /\ cache'[w].left = TTL
      BY <1>1, <1>2, <2>2 DEF TelemetryInv, TelemetryTypeOK
    <3>2. QED
      BY <1>5, <2>2, <3>1
  <2>3. CASE w # v
    BY <1>2, <2>1, <2>3 DEF TelemetryInv, TelemetryTypeOK, CacheSound
  <2>4. QED
    BY <2>2, <2>3
<1>7. ReadsSound'
  BY <1>3 DEF SetCache, TelemetryInv, ReadsSound, Message, Position, lifecycle
<1>8. QED
  BY <1>3, <1>4, <1>6, <1>7 DEF HandlersKept, TelemetryInv

LEMMA HandlerStepKeepsInv ==
  ASSUME TelemetryInv, NEW p \in Partitions, HandlerStep(p)
  PROVE  TelemetryInv'
BY FetchKeepsInv, ReadRowKeepsInv, SetCacheKeepsInv, AnswerKeepsInv DEF HandlerStep

LEMMA CommitKeepsInv ==
  ASSUME TelemetryInv, NEW p \in Partitions, Commit(p)
  PROVE  TelemetryInv'
<1>1. /\ handlers[p].claim.marked \in Offset /\ Position(p) \in Offset
      /\ handlers[p].claim.marked <= Position(p)
  BY DEF TelemetryInv, TelemetryTypeOK, HandlersSound, Handler, Claim, Position
<1>2. committed' = [committed EXCEPT ![p] = handlers[p].claim.marked]
  BY DEF Commit
<1>3. TelemetryTypeOK'
  BY <1>1, <1>2 DEF Commit, TelemetryInv, TelemetryTypeOK, lifecycle
<1>4. NothingIsSkipped'
  <2>1. \A q \in Partitions : committed'[q] = IF q = p THEN handlers[p].claim.marked
                                                      ELSE committed[q]
    BY <1>2 DEF TelemetryInv, TelemetryTypeOK
  <2>2. 1..(handlers[p].claim.marked - 1) \subseteq 1..(Position(p) - 1)
    BY <1>1
  <2>3. QED
    BY <2>1, <2>2 DEF Commit, TelemetryInv, NothingIsSkipped, Position
<1>5. HandlersSound' /\ CacheSound' /\ ReadsSound'
  BY DEF Commit, TelemetryInv, HandlersSound, CacheSound, ReadsSound, Busy, Message, Position,
         lifecycle
<1>6. QED
  BY <1>3, <1>4, <1>5 DEF TelemetryInv

\* Every partition is claimed again from an offset behind which all is handled.
LEMMA ClaimedAgain ==
  ASSUME TelemetryInv,
         committed' \in [Partitions -> Offset],
         \A p \in Partitions : 1..(committed'[p] - 1) \subseteq handled[p],
         handlers' = [p \in Partitions |-> Polling(Claimed(committed'[p]))],
         UNCHANGED handled
  PROVE  HandlersKept /\ \A p \in Partitions : handlers'[p].at = "poll"
<1>1. \A p \in Partitions : Polling(Claimed(committed'[p])) \in Handler
  <2>1. Unknown \in Tokens
    BY DEF Unknown, None, Tokens
  <2>2. \A p \in Partitions : Claimed(committed'[p]) \in Claim
    BY DEF Claim, Claimed
  <2>3. QED
    BY <2>1, <2>2 DEF Handler, Polling
<1>2. \A p \in Partitions : /\ handlers'[p].at = "poll"
                            /\ handlers'[p].claim = Claimed(committed'[p])
  <2>1. \A p \in Partitions : handlers'[p] = Polling(Claimed(committed'[p]))
    OBVIOUS
  <2>2. QED
    BY <2>1 DEF Polling
<1>3. \A p \in Partitions : /\ Position(p)' = committed'[p]
                            /\ handlers'[p].claim.marked = committed'[p]
  <2>1. \A o : Claimed(o).position = o /\ Claimed(o).marked = o
    BY DEF Claimed
  <2>2. QED
    BY <1>2, <2>1 DEF Position
<1>4. NothingIsSkipped' /\ HandlersSound'
  <2>1. NothingIsSkipped'
    BY <1>3 DEF NothingIsSkipped
  <2>2. \A p \in Partitions : ~Busy(p)'
    BY <1>2 DEF Busy
  <2>3. HandlersSound'
    BY <1>3, <2>2 DEF HandlersSound
  <2>4. QED
    BY <2>1, <2>3
<1>5. handlers' \in [Partitions -> Handler]
  BY <1>1
<1>6. QED
  BY <1>2, <1>4, <1>5 DEF HandlersKept, TelemetryInv, TelemetryTypeOK

LEMMA RebalanceKeepsInv ==
  ASSUME TelemetryInv, Rebalance
  PROVE  TelemetryInv'
<1>1. committed' = [p \in Partitions |-> handlers[p].claim.marked]
  BY DEF Rebalance
<1>2. \A p \in Partitions : /\ handlers[p].claim.marked \in Offset
                            /\ Position(p) \in Offset
                            /\ handlers[p].claim.marked <= Position(p)
  BY DEF TelemetryInv, TelemetryTypeOK, HandlersSound, Handler, Claim, Position
<1>3. committed' \in [Partitions -> Offset]
  BY <1>1, <1>2
<1>4. \A p \in Partitions : 1..(committed'[p] - 1) \subseteq handled[p]
  BY <1>1, <1>2 DEF TelemetryInv, NothingIsSkipped
<1>5. HandlersKept /\ \A p \in Partitions : handlers'[p].at = "poll"
  BY <1>3, <1>4, ClaimedAgain DEF Rebalance, Restart
<1>6. TelemetryTypeOK'
  BY <1>3, <1>5 DEF Rebalance, Restart, TelemetryInv, TelemetryTypeOK, HandlersKept, lifecycle
<1>7. CacheSound' /\ ReadsSound'
  BY <1>5 DEF Rebalance, Restart, TelemetryInv, CacheSound, ReadsSound, lifecycle
<1>8. QED
  BY <1>5, <1>6, <1>7 DEF TelemetryInv, HandlersKept

LEMMA CrashKeepsInv ==
  ASSUME TelemetryInv, Crash
  PROVE  TelemetryInv'
<1>1. HandlersKept /\ \A p \in Partitions : handlers'[p].at = "poll"
  BY ClaimedAgain DEF Crash, Restart, TelemetryInv, TelemetryTypeOK, NothingIsSkipped
<1>2. NotCached \in [tokens : Tokens, left : 0..TTL]
  <2>1. Unknown \in Tokens
    BY DEF Tokens, Unknown, None
  <2>2. QED
    BY <2>1 DEF NotCached
<1>3. TelemetryTypeOK'
  BY <1>1, <1>2 DEF Crash, Restart, TelemetryInv, TelemetryTypeOK, HandlersKept, lifecycle
<1>4. CacheSound' /\ ReadsSound'
  BY <1>1 DEF Crash, CacheSound, ReadsSound, NotCached
<1>5. QED
  BY <1>1, <1>3, <1>4 DEF TelemetryInv, HandlersKept

\* What a row had is remembered when it changes.
LEMMA LifecycleKeepsTypes ==
  ASSUME TelemetryInv, LifecycleNext
  PROVE  /\ held' \in [Vins -> Tokens] /\ recorded' \in [Vins -> Tokens]
         /\ minted' \in [veh : Nat, sd : Nat]
<1>1. PICK v \in Vins : \/ Learn(v) \/ Mint(v) \/ MintSDAgain(v)
                        \/ BurnSD(v) \/ BurnVehicle(v) \/ Record(v)
  BY DEF LifecycleNext
<1>2. /\ held \in [Vins -> Tokens] /\ recorded \in [Vins -> Tokens]
      /\ minted \in [veh : Nat, sd : Nat] /\ held[v] \in Tokens
  BY DEF TelemetryInv, TelemetryTypeOK
<1>3. CASE Learn(v)
  <2>1. None \in Tokens
    BY DEF None, Tokens
  <2>2. QED
    BY <1>2, <1>3, <2>1 DEF Learn
<1>4. CASE Mint(v)
  <2>1. PICK tokens : tokens = [held[v] EXCEPT !.veh = minted.veh + 1, !.sd = minted.sd + 1]
    OBVIOUS
  <2>2. tokens \in Tokens
    <3>1. /\ held[v].known \in BOOLEAN
          /\ minted.veh + 1 \in Nat /\ minted.sd + 1 \in Nat
      BY <1>2 DEF Tokens
    <3>2. tokens = [known |-> held[v].known, veh |-> minted.veh + 1, sd |-> minted.sd + 1]
      BY <1>2, <2>1, Zenon DEF Tokens
    <3>3. QED
      BY <3>1, <3>2 DEF Tokens
  <2>3. held' = [held EXCEPT ![v] = tokens] /\ UNCHANGED recorded
    BY <1>4, <2>1 DEF Mint, OnChain
  <2>4. minted' = [veh |-> minted.veh + 1, sd |-> minted.sd + 1]
    BY <1>4 DEF Mint
  <2>5. QED
    BY <1>2, <2>2, <2>3, <2>4
<1>5. CASE MintSDAgain(v)
  BY <1>2, <1>5 DEF MintSDAgain, OnChain, Tokens
<1>6. CASE BurnSD(v)
  BY <1>2, <1>6 DEF BurnSD, OnChain, Tokens
<1>7. CASE BurnVehicle(v)
  BY <1>2, <1>7 DEF BurnVehicle, OnChain, Tokens
<1>8. CASE Record(v)
  BY <1>2, <1>8 DEF Record
<1>9. QED
  BY <1>1, <1>3, <1>4, <1>5, <1>6, <1>7, <1>8

LEMMA OnboardingKeepsInv ==
  ASSUME TelemetryInv, Onboarding
  PROVE  TelemetryInv'
<1>1. former' = [v \in Vins |->
        IF recorded'[v] = recorded[v] THEN former[v]
        ELSE former[v] \cup {[tokens |-> recorded[v], ticks |-> 0]}]
  BY DEF Onboarding
<1>2. /\ recorded \in [Vins -> Tokens]
      /\ former \in [Vins -> SUBSET [tokens : Tokens, ticks : Nat]]
  BY DEF TelemetryInv, TelemetryTypeOK
<1>3. former' \in [Vins -> SUBSET [tokens : Tokens, ticks : Nat]]
  BY <1>1, <1>2
<1>4. TelemetryTypeOK'
  BY <1>3, LifecycleKeepsTypes DEF Onboarding, TelemetryInv, TelemetryTypeOK, kafka
<1>5. \A v \in Vins :
        /\ former[v] \subseteq former'[v]
        /\ recorded'[v] # recorded[v] =>
             \E f \in former'[v] : f.tokens = recorded[v] /\ f.ticks = 0
  <2>1. SUFFICES ASSUME NEW v \in Vins
                 PROVE  /\ former[v] \subseteq former'[v]
                        /\ recorded'[v] # recorded[v] =>
                             \E f \in former'[v] : f.tokens = recorded[v] /\ f.ticks = 0
    OBVIOUS
  <2>2. CASE recorded'[v] = recorded[v]
    BY <1>1, <2>2
  <2>3. CASE recorded'[v] # recorded[v]
    <3>1. PICK f : f = [tokens |-> recorded[v], ticks |-> 0]
      OBVIOUS
    <3>2. former'[v] = former[v] \cup {f}
      BY <1>1, <2>3, <3>1
    <3>3. f.tokens = recorded[v] /\ f.ticks = 0
      BY <3>1
    <3>4. QED
      BY <3>2, <3>3
  <2>4. QED
    BY <2>2, <2>3
<1>6. NothingIsSkipped' /\ HandlersSound'
  BY DEF Onboarding, kafka, TelemetryInv, NothingIsSkipped, HandlersSound, Busy, Position, Message
<1>7. CacheSound'
  <2>1. SUFFICES ASSUME NEW v \in Vins, cache[v].left > 0
                 PROVE  \/ cache[v].tokens = recorded'[v]
                        \/ \E f \in former'[v] : /\ f.tokens = cache[v].tokens
                                                /\ f.ticks + cache[v].left <= TTL
    BY DEF Onboarding, kafka, CacheSound
  <2>2. cache[v].left \in 0..TTL
    BY DEF TelemetryInv, TelemetryTypeOK
  <2>3. QED
    BY <1>5, <2>1, <2>2 DEF TelemetryInv, CacheSound
<1>8. ReadsSound'
  <2>1. \A p \in Partitions : Busy(p) => Message(p) \in Vins
    BY DEF TelemetryInv, HandlersSound
  <2>2. SUFFICES ASSUME NEW p \in Partitions, handlers[p].at = "set"
                 PROVE  \/ handlers[p].tokens = recorded'[Message(p)]
                        \/ \E f \in former'[Message(p)] :
                             f.tokens = handlers[p].tokens /\ f.ticks = 0
    BY DEF Onboarding, kafka, ReadsSound, Message, Position
  <2>3. Message(p) \in Vins
    BY <2>1, <2>2 DEF Busy
  <2>4. \/ handlers[p].tokens = recorded[Message(p)]
        \/ \E f \in former[Message(p)] : f.tokens = handlers[p].tokens /\ f.ticks = 0
    BY <2>2 DEF TelemetryInv, ReadsSound
  <2>5. QED
    BY <1>5, <2>3, <2>4
<1>9. QED
  BY <1>4, <1>6, <1>7, <1>8 DEF TelemetryInv

\* An entry of the cache and what it was filled from grow old together.
LEMMA TickKeepsInv ==
  ASSUME TelemetryInv, Tick
  PROVE  TelemetryInv'
<1>1. /\ cache' = [v \in Vins |-> IF cache[v].left <= 1 THEN NotCached
                                 ELSE [cache[v] EXCEPT !.left = @ - 1]]
      /\ former' = [v \in Vins |-> {[f EXCEPT !.ticks = @ + 1] :
                                      f \in {g \in former[v] : g.ticks < TTL - 1}}]
  BY DEF Tick
<1>2. /\ cache \in [Vins -> [tokens : Tokens, left : 0..TTL]]
      /\ former \in [Vins -> SUBSET [tokens : Tokens, ticks : Nat]]
  BY DEF TelemetryInv, TelemetryTypeOK
<1>3. NotCached \in [tokens : Tokens, left : 0..TTL] /\ NotCached.left = 0
  <2>1. Unknown \in Tokens
    BY DEF Tokens, Unknown, None
  <2>2. QED
    BY <2>1 DEF NotCached
<1>4. cache' \in [Vins -> [tokens : Tokens, left : 0..TTL]]
  <2>1. \A v \in Vins : cache[v].left > 1 =>
          [cache[v] EXCEPT !.left = @ - 1] \in [tokens : Tokens, left : 0..TTL]
    BY <1>2
  <2>2. QED
    BY <1>1, <1>2, <1>3, <2>1
<1>5. former' \in [Vins -> SUBSET [tokens : Tokens, ticks : Nat]]
  <2>1. \A v \in Vins : \A f \in former[v] :
          [f EXCEPT !.ticks = @ + 1] \in [tokens : Tokens, ticks : Nat]
    BY <1>2
  <2>2. QED
    BY <1>1, <2>1
<1>6. TelemetryTypeOK'
  BY <1>4, <1>5 DEF Tick, TelemetryInv, TelemetryTypeOK, lifecycle
<1>7. NothingIsSkipped' /\ HandlersSound' /\ ReadsSound'
  BY DEF Tick, TelemetryInv, NothingIsSkipped, HandlersSound, ReadsSound, Busy, Position, Message
<1>8. CacheSound'
  <2>1. SUFFICES ASSUME NEW v \in Vins, cache'[v].left > 0
                 PROVE  \/ cache'[v].tokens = recorded[v]
                        \/ \E f \in former'[v] : /\ f.tokens = cache'[v].tokens
                                                /\ f.ticks + cache'[v].left <= TTL
    BY DEF Tick, CacheSound, lifecycle
  <2>2. /\ cache[v].left \in 2..TTL
        /\ cache'[v].left = cache[v].left - 1
        /\ cache'[v].tokens = cache[v].tokens
    <3>1. cache[v].left > 1
      BY <1>1, <1>2, <1>3, <2>1
    <3>2. cache'[v] = [cache[v] EXCEPT !.left = @ - 1]
      BY <1>1, <1>2, <3>1
    <3>3. QED
      BY <1>2, <3>1, <3>2
  <2>3. CASE cache[v].tokens = recorded[v]
    BY <2>2, <2>3
  <2>4. ASSUME NEW f \in former[v], f.tokens = cache[v].tokens,
               f.ticks + cache[v].left <= TTL
        PROVE  \E g \in former'[v] : /\ g.tokens = cache'[v].tokens
                                   /\ g.ticks + cache'[v].left <= TTL
    <3>1. f \in [tokens : Tokens, ticks : Nat]
      BY <1>2
    <3>2. f.ticks < TTL - 1
      BY <2>2, <2>4, <3>1
    <3>3. PICK g : g = [f EXCEPT !.ticks = @ + 1]
      OBVIOUS
    <3>4. g \in former'[v]
      BY <1>1, <3>2, <3>3
    <3>5. g.tokens = f.tokens /\ g.ticks = f.ticks + 1
      BY <3>1, <3>3
    <3>6. QED
      BY <2>2, <2>4, <3>1, <3>4, <3>5
  <2>5. QED
    BY <2>2, <2>3, <2>4 DEF TelemetryInv, CacheSound
<1>9. QED
  BY <1>6, <1>7, <1>8 DEF TelemetryInv

LEMMA StutterKeepsInv ==
  ASSUME TelemetryInv, UNCHANGED telemetry
  PROVE  TelemetryInv'
<1>1. /\ UNCHANGED <<held, recorded, minted, log, handlers, cache>>
      /\ UNCHANGED <<committed, restarts, former, handled>>
  BY DEF telemetry, lifecycle, kafka
<1>2. TelemetryTypeOK'
  BY <1>1 DEF TelemetryInv, TelemetryTypeOK
<1>3. NothingIsSkipped' /\ HandlersSound' /\ CacheSound' /\ ReadsSound'
  BY <1>1 DEF TelemetryInv, NothingIsSkipped, HandlersSound, CacheSound, ReadsSound, Busy,
              Position, Message
<1>4. QED
  BY <1>2, <1>3 DEF TelemetryInv

-----------------------------------------------------------------------------
(* The theorems.                                                           *)

\* TelemetryInv holds in every state the consumer reaches: every step of
\* handlers, of Kafka, of the rows and of time keeps it.
THEOREM TelemetryInvariantHolds == TelemetrySpec => []TelemetryInv
<1>1. TelemetryInv /\ [TelemetryNext]_telemetry => TelemetryInv'
  <2>. SUFFICES ASSUME TelemetryInv, [TelemetryNext]_telemetry PROVE TelemetryInv'
    OBVIOUS
  <2>1. ASSUME NEW p \in Partitions, Publish(p) \/ HandlerStep(p) \/ Commit(p)
        PROVE  TelemetryInv'
    BY <2>1, PublishKeepsInv, HandlerStepKeepsInv, CommitKeepsInv
  <2>2. CASE Rebalance
    BY <2>2, RebalanceKeepsInv
  <2>3. CASE Crash
    BY <2>3, CrashKeepsInv
  <2>4. CASE Onboarding
    BY <2>4, OnboardingKeepsInv
  <2>5. CASE Tick
    BY <2>5, TickKeepsInv
  <2>6. CASE UNCHANGED telemetry
    BY <2>6, StutterKeepsInv
  <2>7. QED
    BY <2>1, <2>2, <2>3, <2>4, <2>5, <2>6 DEF TelemetryNext
<1>2. QED
  BY InitEstablishesInv, <1>1, PTL DEF TelemetrySpec

\* Type correctness of the telemetry consumer.
THEOREM TelemetryTypeCorrect == TelemetrySpec => []TelemetryTypeOK
<1>1. TelemetryInv => TelemetryTypeOK
  BY DEF TelemetryInv
<1>2. QED
  BY <1>1, TelemetryInvariantHolds, PTL

\* No offset gets behind the position of a handler or behind the committed one
\* before its message was handled, whatever dies between two steps of
\* consumer.go:118-137.
THEOREM NoEventIsSkipped == TelemetrySpec => []NothingIsSkipped
<1>1. TelemetryInv => NothingIsSkipped
  BY DEF TelemetryInv
<1>2. QED
  BY <1>1, TelemetryInvariantHolds, PTL

\* However many partitions share the cache, what becomes of a message is
\* decided by tokens that its VIN's row has, or had within the life of a cache
\* entry (oracle.go:116-136).
THEOREM TokensAreRecent == TelemetrySpec => []DecidedByRecentTokens
<1>1. TelemetryInv => DecidedByRecentTokens
  <2>. SUFFICES ASSUME TelemetryInv PROVE DecidedByRecentTokens
    OBVIOUS
  <2>1. \A v \in Vins : cache[v].left > 0 => cache[v].tokens \in RecentTokens(v)
    BY DEF TelemetryInv, CacheSound, RecentTokens
  <2>2. \A p \in Partitions :
          handlers[p].at = "set" => handlers[p].tokens \in RecentTokens(Message(p))
    BY DEF TelemetryInv, ReadsSound, RecentTokens
  <2>3. QED
    BY <2>1, <2>2 DEF DecidedByRecentTokens
<1>2. QED
  BY <1>1, TelemetryInvariantHolds, PTL
=============================================================================
