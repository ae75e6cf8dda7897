---------------------------- MODULE ConnectionPool ----------------------------
(***************************************************************************)
(* The writer's pool of database connections (database/sql) and the four   *)
(* ways in which the program uses it:                                      *)
(*                                                                         *)
(*   "update"   a worker's update: a transaction, and inside of it an      *)
(*              UPDATE that goes to the pool and not to the transaction    *)
(*              (onboard.go:476, disconnect.go:191, delete.go:147)         *)
(*   "service"  a transaction of a handler or a lookup: one connection     *)
(*              (service/vehicle.go, service/access.go)                    *)
(*   "index"    the transaction around the next wallet index               *)
(*   "enroll"   the operations consumer's transaction, whose UPDATE may    *)
(*              fail without being rolled back                             *)
(*   "verify"   one statement without a transaction (verify.go:200)        *)
(*                                                                         *)
(* A caller that finds no free connection waits.  Only a worker's context  *)
(* has a deadline; when it passes, database/sql rolls the transaction back *)
(* and every wait in that context returns an error.                        *)
(***************************************************************************)
EXTENDS Integers, FiniteSets

CONSTANTS
  Clients,          \* goroutines that use the pool
  Uses,             \* Uses[c]: what client c does with it
  MaxOpenConns,     \* DB_MAX_OPEN_CONNECTIONS
  MaxErrors         \* bound: statements that the database refuses

UseKinds  == {"update", "service", "index", "enroll", "verify"}

ASSUME PoolAssumption ==
  /\ IsFiniteSet(Clients)
  /\ Uses \in [Clients -> SUBSET UseKinds]
  /\ MaxOpenConns \in Nat \ {0}
  /\ MaxErrors \in Nat

VARIABLES
  at,       \* at[c]: where client c is, and in which of its uses
  inUse,    \* the pool's count of connections that are not free
  errors,   \* how many statements were refused
  lost,     \* history: connections that nobody will release
  saved     \* saved[c]: how c's last update ended

poolVars == <<at, inUse, errors, lost, saved>>

(***************************************************************************)
(* begin: waits for a connection.  statement: runs one on the connection   *)
(* it has.  second: waits for another one.  exec: runs a statement on it.  *)
(* commit: is about to end the transaction.                                *)
(***************************************************************************)
Places == {"idle", "begin", "statement", "second", "exec", "commit"}

Idle == [place |-> "idle", use |-> "none"]

PoolInit ==
  /\ at = [c \in Clients |-> Idle]
  /\ inUse = 0
  /\ errors = 0
  /\ lost = 0
  /\ saved = [c \in Clients |-> "none"]

Move(c, place) == at' = [at EXCEPT ![c].place = place]
Return(c)      == at' = [at EXCEPT ![c] = Idle]

\* What place a client's step starts from, and in which use.
In(c, place, uses) == at[c].place = place /\ at[c].use \in uses

\* Clients that have a connection, and those that have two.
Holders == {c \in Clients : at[c].place \in {"statement", "second", "exec", "commit"}}
Doubles == {c \in Clients : at[c].place = "exec"}

\* The pool opens no more connections than DB_MAX_OPEN_CONNECTIONS.
TakeUnlimited == inUse' = inUse + 1                                \* mutant
Take    == inUse < MaxOpenConns /\ inUse' = inUse + 1
Release == inUse' = inUse - 1

\* A statement that the database refuses.
Refuse == errors < MaxErrors /\ errors' = errors + 1

\* The caller needs the database.
Call(c, use) ==
  /\ at[c].place = "idle"
  /\ use \in Uses[c]
  /\ at' = [at EXCEPT ![c] = [place |-> "begin", use |-> use]]
  /\ saved' = [saved EXCEPT ![c] = IF use = "update" THEN "none" ELSE @]
  /\ UNCHANGED <<inUse, errors, lost>>

\* BeginTx, or the single statement of verify, gets a connection.
BeginService(c) ==                                                 \* mutant
  /\ at[c].place = "begin"
  /\ Take
  /\ Move(c, IF at[c].use \in {"update", "service"} THEN "second" ELSE "statement")
  /\ UNCHANGED <<errors, lost, saved>>

Begin(c) ==
  /\ at[c].place = "begin"
  /\ Take
  /\ Move(c, IF at[c].use = "update" THEN "second" ELSE "statement")
  /\ UNCHANGED <<errors, lost, saved>>

\* record.Update of a worker asks the pool, not its transaction.
TakeSecond(c) ==
  /\ In(c, "second", {"update"})
  /\ Take
  /\ Move(c, "exec")
  /\ UNCHANGED <<errors, lost, saved>>

\* The UPDATE is its own transaction: the row is saved when it is done, and an
\* error is logged only.
Exec(c) ==
  /\ In(c, "exec", {"update"})
  /\ Release
  /\ Move(c, "commit")
  /\ UNCHANGED lost
  /\ \/ saved' = [saved EXCEPT ![c] = "saved"] /\ UNCHANGED errors
     \/ saved' = [saved EXCEPT ![c] = "refused"] /\ Refuse

\* The statements of a transaction: done, or refused and rolled back.
StatementNoRollback(c) ==                                          \* mutant
  /\ In(c, "statement", {"service", "index", "enroll"})
  /\ \/ Move(c, "commit") /\ UNCHANGED <<inUse, errors>>
     \/ Return(c) /\ UNCHANGED inUse /\ Refuse
  /\ UNCHANGED <<lost, saved>>

Statement(c) ==
  /\ In(c, "statement", {"service", "index", "enroll"})
  /\ \/ Move(c, "commit") /\ UNCHANGED <<inUse, errors>>
     \/ Return(c) /\ Release /\ Refuse
  /\ UNCHANGED <<lost, saved>>

SingleStatement(c) ==
  /\ In(c, "statement", {"verify"})
  /\ Return(c)
  /\ Release
  /\ (UNCHANGED errors \/ Refuse)
  /\ UNCHANGED <<lost, saved>>

\* The UPDATE of UpdateEnrollmentStatus sets an err of its own: the deferred
\* function sees none and does not roll back.
LoseConnection(c) ==
  /\ In(c, "statement", {"enroll"})
  /\ Return(c)
  /\ Refuse
  /\ lost' = lost + 1
  /\ UNCHANGED <<inUse, saved>>

Commit(c) ==
  /\ at[c].place = "commit"
  /\ Return(c)
  /\ Release
  /\ UNCHANGED <<errors, lost, saved>>

\* A worker's context has a deadline, all others' have none.
Deadline(c) == at[c].use \in {"update", "index"}

\* Nobody who has a connection can go on without another one.
Exhausted ==
  /\ inUse = MaxOpenConns
  /\ \A c \in Clients : at[c].place \in {"idle", "begin", "second"}

(***************************************************************************)
(* A deadline is minutes away and a statement takes milliseconds: it       *)
(* passes when nobody who has a connection can do without another one.     *)
(* The wait returns an error and the transaction is rolled back.           *)
(***************************************************************************)
ExpireRetries(c) ==                                                \* mutant
  /\ Exhausted
  /\ at[c].place \in {"begin", "second"}
  /\ Deadline(c)
  /\ Move(c, "begin")
  /\ inUse' = inUse - (IF c \in Holders THEN 1 ELSE 0)
  /\ saved' = [saved EXCEPT ![c] = IF at[c].use = "update" THEN "lost" ELSE @]
  /\ UNCHANGED <<errors, lost>>

Expire(c) ==
  /\ Exhausted
  /\ at[c].place \in {"begin", "second"}
  /\ Deadline(c)
  /\ Return(c)
  /\ inUse' = inUse - (IF c \in Holders THEN 1 ELSE 0)
  /\ saved' = [saved EXCEPT ![c] = IF at[c].use = "update" THEN "lost" ELSE @]
  /\ UNCHANGED <<errors, lost>>

\* What a client does once it has called.
ClientStep(c) ==
  \/ TakeSecond(c) \/ Exec(c)
  \/ Statement(c) \/ SingleStatement(c) \/ LoseConnection(c) \/ Commit(c) \/ Expire(c)

PoolNext ==
  \E c \in Clients :
    \/ \E use \in Uses[c] : Call(c, use)
    \/ Begin(c)
    \/ ClientStep(c)

PoolSpec == PoolInit /\ [][PoolNext]_poolVars

(***************************************************************************)
(* Go's scheduler runs every goroutine and the database answers.  Of those *)
(* that wait for a connection the pool takes any one, so who waits while   *)
(* connections come free again and again gets one in the end.              *)
(***************************************************************************)
PoolFairSpec ==
  /\ PoolSpec
  /\ \A c \in Clients : SF_poolVars(Begin(c)) /\ SF_poolVars(ClientStep(c))
=============================================================================
