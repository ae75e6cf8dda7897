------------------------- MODULE TelemetryProperties -------------------------
(***************************************************************************)
(* What the telemetry consumer must guarantee.                             *)
(***************************************************************************)
EXTENDS Telemetry

TelemetryTypeOK ==
  /\ held \in [Vins -> Tokens] /\ recorded \in [Vins -> Tokens]
  /\ minted \in [veh : Nat, sd : Nat]
  /\ log \in [Partitions -> Seq(Vins \cup {Malformed})]
  /\ handlers \in [Partitions -> Handler]
  /\ cache \in [Vins -> [tokens : Tokens, left : 0..TTL]]
  /\ committed \in [Partitions -> Offset]
  /\ restarts \in Nat
  /\ former \in [Vins -> SUBSET [tokens : Tokens, ticks : Nat]]
  /\ handled \in [Partitions -> SUBSET Offset]

\* Marks run ahead of messages that were left unmarked, and the process may
\* die between any two steps, or the partitions be claimed again: still, when
\* an offset is behind the position of a handler or behind the committed one,
\* its message was handled, by this claim or an earlier one (consumer.go:132,
\* :136).
NothingIsSkipped ==
  \A p \in Partitions :
    /\ 1..(Position(p) - 1) \subseteq handled[p]
    /\ 1..(committed[p] - 1) \subseteq handled[p]

\* The tokens that v's row has, or had within the last TTL ticks.
RecentTokens(v) == {recorded[v]} \cup {f.tokens : f \in former[v]}

\* The cache is shared by the partitions, filled from rows that may have changed
\* in the meantime, and not told of a mint or a burn.  Still no event is dropped
\* for a VIN that has had its vehicle for longer than a cache entry lives, and
\* none is sent in the name of a device that was burned or replaced longer ago
\* than that: what becomes of a message is decided by recent tokens
\* (oracle.go:116-136).
DecidedByRecentTokens ==
  /\ \A v \in Vins : cache[v].left > 0 => cache[v].tokens \in RecentTokens(v)
  /\ \A p \in Partitions :
       handlers[p].at = "set" => handlers[p].tokens \in RecentTokens(Message(p))

-----------------------------------------------------------------------------
(* The inductive invariant that the two safety properties rest on.         *)

Busy(p) == handlers[p].at # "poll"

\* A handler that works on a message works on one with a VIN, and marks never
\* run ahead of the position.
HandlersSound ==
  \A p \in Partitions :
    /\ Busy(p) => Position(p) \in DOMAIN log[p] /\ Message(p) \in Vins
    /\ handlers[p].claim.marked <= Position(p)

\* An entry of the cache expires before what it was filled from is too old.
CacheSound ==
  \A v \in Vins : cache[v].left > 0 =>
    \/ cache[v].tokens = recorded[v]
    \/ \E f \in former[v] : f.tokens = cache[v].tokens /\ f.ticks + cache[v].left <= TTL

\* What a handler has read, and not yet put into the cache, is not a tick old.
ReadsSound ==
  \A p \in Partitions : handlers[p].at = "set" =>
    \/ handlers[p].tokens = recorded[Message(p)]
    \/ \E f \in former[Message(p)] : f.tokens = handlers[p].tokens /\ f.ticks = 0

TelemetryInv ==
  TelemetryTypeOK /\ NothingIsSkipped /\ HandlersSound /\ CacheSound /\ ReadsSound

-----------------------------------------------------------------------------
\* Whatever fails, and however often the partitions are claimed again: when the
\* vendor pauses, every message gets handled (consumer.go:119, :136).
EveryEventIsHandled ==
  \A p \in Partitions : []<>(DOMAIN log[p] \subseteq handled[p])
=============================================================================
