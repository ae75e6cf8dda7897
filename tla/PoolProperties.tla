---------------------------- MODULE PoolProperties ----------------------------
(***************************************************************************)
(* What must hold of the writer's pool.                                    *)
(***************************************************************************)
EXTENDS ConnectionPool

\* The variables have their types; the pool never opens more than it may.
PoolTypeOK ==
  /\ at \in [Clients -> [place : Places, use : UseKinds \cup {"none"}]]
  /\ inUse \in 0..MaxOpenConns
  /\ errors \in 0..MaxErrors
  /\ lost \in 0..MaxErrors
  /\ saved \in [Clients -> {"none", "saved", "refused", "lost"}]

\* Every connection that is not free is one that a client will release or one
\* that a failed UPDATE of UpdateEnrollmentStatus lost (service/vehicle.go:299):
\* no other error path, deadline or end of a transaction in onboarding/ or
\* service/ keeps one, and none gives back what it does not have.
EveryConnectionIsHeld ==
  inUse = Cardinality(Holders) + Cardinality(Doubles) + lost

\* Nobody who has a connection waits for another one but the workers' update
\* (onboard.go:476, disconnect.go:191, delete.go:147): when nobody can go on, as
\* many updates as there are connections left are inside their transactions.
\* Handlers, consumers and verify jobs never exhaust the pool, and fewer updates
\* than connections do not.
OnlyUpdatesExhaust ==
  Exhausted =>
    Cardinality({c \in Clients : In(c, "second", {"update"})}) = MaxOpenConns - lost

\* Every call returns.  A worker gets out of its update also when updates wait
\* for each other or every connection is lost, for its deadline passes; a handler,
\* a consumer or a verify job, which have none, unless every connection is lost.
EveryCallReturns ==
  \A c \in Clients :
    at[c].place # "idle" ~> \/ at[c].place = "idle"
                            \/ lost = MaxOpenConns /\ ~Deadline(c)

-----------------------------------------------------------------------------
(***************************************************************************)
(* "make sure we save status update (and possible new DD)" (onboard.go:196, *)
(* disconnect.go:156, delete.go:114).                                      *)
(***************************************************************************)

\* A worker's update saves the row unless the database refuses it.
StatusIsSaved == \A c \in Clients : saved[c] # "lost"
=============================================================================
