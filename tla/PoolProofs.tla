------------------------------ MODULE PoolProofs ------------------------------
(***************************************************************************)
(* Proofs that the pool's count is right, for any clients, any pool size   *)
(* and any number of refused statements.                                   *)
(***************************************************************************)
EXTENDS PoolProperties, FiniteSetTheorems, TLAPS

\* The inductive invariant: what a client is doing fits where it is, and the
\* count is what the clients hold and what is lost.
PoolInv ==
  /\ at \in [Clients -> [place : Places, use : UseKinds \cup {"none"}]]
  /\ saved \in [Clients -> {"none", "saved", "refused", "lost"}]
  /\ inUse \in 0..MaxOpenConns
  /\ errors \in 0..MaxErrors
  /\ lost \in 0..errors
  /\ \A c \in Clients : at[c].place \in {"second", "exec"} => at[c].use = "update"
  /\ EveryConnectionIsHeld

-----------------------------------------------------------------------------
(***************************************************************************)
(* How the count of holders follows one client.                            *)
(***************************************************************************)

Holding == {"statement", "second", "exec", "commit"}

\* A finite set changes by c alone when it differs in c alone.
LEMMA CountMoves ==
  ASSUME NEW C, IsFiniteSet(C), NEW c \in C, NEW A \in SUBSET C, NEW B \in SUBSET C,
         \A d \in C : d # c => (d \in A <=> d \in B)
  PROVE  /\ Cardinality(A) \in Nat /\ Cardinality(B) \in Nat
         /\ Cardinality(B) = Cardinality(A) + (IF c \in B THEN 1 ELSE 0)
                                            - (IF c \in A THEN 1 ELSE 0)
<1> DEFINE K == A \ {c}
<1>2. IsFiniteSet(K) /\ IsFiniteSet(A) /\ IsFiniteSet(B)
  BY FS_Subset
<1>3. Cardinality(K) \in Nat /\ Cardinality(A) \in Nat /\ Cardinality(B) \in Nat
  BY <1>2, FS_CardinalityType
<1>4. Cardinality(K \cup {c}) = Cardinality(K) + 1
  <2>1. c \notin K
    OBVIOUS
  <2> QED BY <2>1, <1>2, FS_AddElement
<1>5. A = IF c \in A THEN K \cup {c} ELSE K
  OBVIOUS
<1>6. B = IF c \in B THEN K \cup {c} ELSE K
  OBVIOUS
<1> HIDE DEF K
<1>7. Cardinality(A) = Cardinality(K) + (IF c \in A THEN 1 ELSE 0)
  BY <1>3, <1>4, <1>5
<1>8. Cardinality(B) = Cardinality(K) + (IF c \in B THEN 1 ELSE 0)
  BY <1>3, <1>4, <1>6
<1> QED BY <1>3, <1>7, <1>8

\* What is counted, before and after one client moves.
Count == Cardinality(Holders) + Cardinality(Doubles)

One(place) == IF place = "exec" THEN 2 ELSE IF place \in Holding THEN 1 ELSE 0

LEMMA CountOfOne ==
  ASSUME NEW c \in Clients, \A d \in Clients : d # c => at'[d] = at[d]
  PROVE  /\ Count \in Nat
         /\ Count' = Count + One(at'[c].place) - One(at[c].place)
<1>1. IsFiniteSet(Clients)
  BY PoolAssumption
<1>4. Holders \in SUBSET Clients /\ Holders' \in SUBSET Clients
      /\ \A d \in Clients : d # c => (d \in Holders <=> d \in Holders')
  BY DEF Holders
<1>5. Doubles \in SUBSET Clients /\ Doubles' \in SUBSET Clients
      /\ \A d \in Clients : d # c => (d \in Doubles <=> d \in Doubles')
  BY DEF Doubles
<1>6. /\ Cardinality(Holders) \in Nat
      /\ Cardinality(Holders') \in Nat
      /\ Cardinality(Holders') = Cardinality(Holders)
                                 + (IF c \in Holders' THEN 1 ELSE 0)
                                 - (IF c \in Holders THEN 1 ELSE 0)
  BY <1>1, <1>4, CountMoves
<1>7. /\ Cardinality(Doubles) \in Nat
      /\ Cardinality(Doubles') \in Nat
      /\ Cardinality(Doubles') = Cardinality(Doubles)
                                 + (IF c \in Doubles' THEN 1 ELSE 0)
                                 - (IF c \in Doubles THEN 1 ELSE 0)
  BY <1>1, <1>5, CountMoves
<1>8. /\ c \in Holders <=> at[c].place \in Holding
      /\ c \in Holders' <=> at'[c].place \in Holding
      /\ c \in Doubles <=> at[c].place = "exec"
      /\ c \in Doubles' <=> at'[c].place = "exec"
  BY DEF Holders, Doubles, Holding
<1>9. "exec" \in Holding
  BY DEF Holding
<1>10. One(at'[c].place) = (IF c \in Holders' THEN 1 ELSE 0) + (IF c \in Doubles' THEN 1 ELSE 0)
  BY <1>8, <1>9 DEF One
<1>11. One(at[c].place) = (IF c \in Holders THEN 1 ELSE 0) + (IF c \in Doubles THEN 1 ELSE 0)
  BY <1>8, <1>9 DEF One
<1>12. Count = Cardinality(Holders) + Cardinality(Doubles)
       /\ Count' = Cardinality(Holders') + Cardinality(Doubles')
  BY DEF Count
<1> QED BY <1>6, <1>7, <1>10, <1>11, <1>12

\* One client moves, and the pool's counters follow what it has.
Moves(c) ==
  /\ at' \in [Clients -> [place : Places, use : UseKinds \cup {"none"}]]
  /\ \A d \in Clients : d # c => at'[d] = at[d]
  /\ at'[c].place \in {"second", "exec"} => at'[c].use = "update"
  /\ saved' \in [Clients -> {"none", "saved", "refused", "lost"}]
  /\ errors' \in 0..MaxErrors /\ lost' \in 0..errors'
  /\ inUse' \in Int /\ inUse' <= MaxOpenConns
  /\ inUse' - lost' = inUse - lost + One(at'[c].place) - One(at[c].place)

LEMMA MoveKeepsPoolInv ==
  ASSUME PoolInv, NEW c \in Clients, Moves(c)
  PROVE  PoolInv'
<1>1. Count \in Nat /\ Count' = Count + One(at'[c].place) - One(at[c].place)
  BY CountOfOne DEF Moves
<1>2. Count' \in Nat
  <2>1. /\ IsFiniteSet(Clients)
        /\ Holders' \subseteq Clients /\ Doubles' \subseteq Clients
    BY PoolAssumption DEF Holders, Doubles
  <2>2. IsFiniteSet(Holders') /\ IsFiniteSet(Doubles')
    BY <2>1, FS_Subset
  <2> QED BY <2>2, FS_CardinalityType DEF Count
<1>3. inUse = Count + lost
  BY DEF PoolInv, EveryConnectionIsHeld, Count
<1>4. One(at'[c].place) \in Nat /\ One(at[c].place) \in Nat /\ inUse \in Int /\ lost \in Int
      /\ errors' \in Nat /\ lost' \in Nat
  BY PoolAssumption DEF One, PoolInv, Moves
<1>5. inUse' = Count' + lost'
  BY <1>1, <1>3, <1>4 DEF Moves
<1>6. EveryConnectionIsHeld'
  BY <1>5 DEF EveryConnectionIsHeld, Count
<1>7. inUse' \in 0..MaxOpenConns
  <2> DEFINE k == Count'
             i == inUse'
             l == lost'
  <2>1. i \in Int /\ k \in Nat /\ l \in Nat /\ i = k + l /\ i <= MaxOpenConns
    BY <1>2, <1>4, <1>5 DEF Moves
  <2> HIDE DEF k, i, l
  <2>2. i \in 0..MaxOpenConns
    BY <2>1, PoolAssumption
  <2> QED BY <2>2 DEF i
<1> QED BY <1>6, <1>7 DEF PoolInv, Moves

-----------------------------------------------------------------------------
(***************************************************************************)
(* The invariant.                                                          *)
(***************************************************************************)

LEMMA PoolInitInv == PoolInit => PoolInv
<1> SUFFICES ASSUME PoolInit PROVE PoolInv
  OBVIOUS
<1>1. Holders = {} /\ Doubles = {}
  BY DEF PoolInit, Idle, Holders, Doubles
<1>2. EveryConnectionIsHeld
  BY <1>1, FS_EmptySet DEF PoolInit, EveryConnectionIsHeld
<1> QED BY <1>2, PoolAssumption DEF PoolInit, PoolInv, Idle, Places, UseKinds

LEMMA PoolNextInv == PoolInv /\ [PoolNext]_poolVars => PoolInv'
<1> SUFFICES ASSUME PoolInv, [PoolNext]_poolVars PROVE PoolInv'
  OBVIOUS
<1> DEFINE Record == [place : Places, use : UseKinds \cup {"none"}]
<1>t. /\ at \in [Clients -> Record]
      /\ saved \in [Clients -> {"none", "saved", "refused", "lost"}]
      /\ inUse \in 0..MaxOpenConns /\ errors \in 0..MaxErrors /\ lost \in 0..errors
      /\ MaxOpenConns \in Nat /\ MaxErrors \in Nat
      /\ inUse \in Int /\ lost \in Nat /\ errors \in Nat
  BY PoolAssumption DEF PoolInv
<1>i. /\ Idle \in Record /\ Idle.place = "idle" /\ One("idle") = 0 /\ One("begin") = 0 /\ One("statement") = 1
      /\ One("second") = 1 /\ One("exec") = 2 /\ One("commit") = 1
  BY DEF Idle, Places, One, Holding, UseKinds
<1>1. ASSUME NEW c \in Clients, NEW use \in Uses[c], Call(c, use) PROVE PoolInv'
  <2>1. Moves(c)
    BY <1>1, <1>t, <1>i, PoolAssumption DEF Moves, Call, Places
  <2> QED BY <2>1, MoveKeepsPoolInv
<1>2. ASSUME NEW c \in Clients, Begin(c) PROVE PoolInv'
  <2>1. Moves(c)
    BY <1>2, <1>t, <1>i DEF Moves, Begin, Move, Take, Places
  <2> QED BY <2>1, MoveKeepsPoolInv
<1>3. ASSUME NEW c \in Clients, TakeSecond(c) PROVE PoolInv'
  <2>1. Moves(c)
    BY <1>3, <1>t, <1>i DEF Moves, TakeSecond, In, Move, Take, Places
  <2> QED BY <2>1, MoveKeepsPoolInv
<1>4. ASSUME NEW c \in Clients, Exec(c) PROVE PoolInv'
  <2>1. Moves(c)
    BY <1>4, <1>t, <1>i DEF Moves, Exec, In, Move, Release, Refuse, Places
  <2> QED BY <2>1, MoveKeepsPoolInv
<1>5. ASSUME NEW c \in Clients, Statement(c) PROVE PoolInv'
  <2>1. Moves(c)
    BY <1>5, <1>t, <1>i DEF Moves, Statement, In, Move, Return, Release, Refuse, Places, Idle
  <2> QED BY <2>1, MoveKeepsPoolInv
<1>6. ASSUME NEW c \in Clients, SingleStatement(c) PROVE PoolInv'
  <2>1. Moves(c)
    BY <1>6, <1>t, <1>i DEF Moves, SingleStatement, In, Return, Release, Refuse, Idle
  <2> QED BY <2>1, MoveKeepsPoolInv
<1>7. ASSUME NEW c \in Clients, LoseConnection(c) PROVE PoolInv'
  <2>1. Moves(c)
    BY <1>7, <1>t, <1>i DEF Moves, LoseConnection, In, Return, Refuse, Idle
  <2> QED BY <2>1, MoveKeepsPoolInv
<1>8. ASSUME NEW c \in Clients, Commit(c) PROVE PoolInv'
  <2>1. Moves(c)
    BY <1>8, <1>t, <1>i DEF Moves, Commit, Return, Release, Idle
  <2> QED BY <2>1, MoveKeepsPoolInv
<1>9. ASSUME NEW c \in Clients, Expire(c) PROVE PoolInv'
  <2>1. Moves(c)
    BY <1>9, <1>t, <1>i DEF Moves, Expire, Return, Holders, Idle
  <2> QED BY <2>1, MoveKeepsPoolInv
<1>10. CASE UNCHANGED poolVars
  <2>1. Holders' = Holders /\ Doubles' = Doubles
    BY <1>10 DEF poolVars, Holders, Doubles
  <2> QED BY <1>10, <2>1 DEF poolVars, PoolInv, EveryConnectionIsHeld
<1> QED BY <1>1, <1>2, <1>3, <1>4, <1>5, <1>6, <1>7, <1>8, <1>9, <1>10 DEF PoolNext, ClientStep

\* The pool's inductive invariant holds in every reachable state.
THEOREM PoolInvariantHolds == PoolSpec => []PoolInv
<1>1. PoolInit => PoolInv
  BY PoolInitInv
<1>2. PoolInv /\ [PoolNext]_poolVars => PoolInv'
  BY PoolNextInv
<1> QED BY <1>1, <1>2, PTL DEF PoolSpec

\* The pool's variables keep their types, its bound included.
THEOREM PoolTypeCorrect == PoolSpec => []PoolTypeOK
<1>1. PoolInv => PoolTypeOK
  BY PoolAssumption DEF PoolInv, PoolTypeOK
<1> QED BY <1>1, PoolInvariantHolds, PTL

\* No connection is lost but to a failed UPDATE of UpdateEnrollmentStatus, and
\* none is given back twice.
THEOREM ConnectionsAreHeld == PoolSpec => []EveryConnectionIsHeld
<1>1. PoolInv => EveryConnectionIsHeld
  BY DEF PoolInv
<1> QED BY <1>1, PoolInvariantHolds, PTL

\* When nobody can go on, every connection that is not lost is held by a worker's
\* update that waits for a second one.
THEOREM UpdatesExhaust == PoolSpec => []OnlyUpdatesExhaust
<1>1. ASSUME PoolInv PROVE OnlyUpdatesExhaust
  <2> SUFFICES ASSUME Exhausted
               PROVE  Cardinality({c \in Clients : In(c, "second", {"update"})})
                        = MaxOpenConns - lost
    BY DEF OnlyUpdatesExhaust
  <2>1. Doubles = {}
    BY DEF Exhausted, Doubles
  <2>2. Holders = {c \in Clients : In(c, "second", {"update"})}
    BY <1>1 DEF Exhausted, Holders, In, PoolInv
  <2>3. Cardinality(Doubles) = 0
    BY <2>1, FS_EmptySet
  <2>4. Cardinality(Holders) \in Nat
    <3>1. Holders \subseteq Clients
      BY DEF Holders
    <3> QED BY <3>1, PoolAssumption, FS_Subset, FS_CardinalityType
  <2> QED BY <1>1, <2>2, <2>3, <2>4, PoolAssumption
          DEF Exhausted, PoolInv, EveryConnectionIsHeld
<1> QED BY <1>1, PoolInvariantHolds, PTL
=============================================================================
