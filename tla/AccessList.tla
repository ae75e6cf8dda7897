------------------------------ MODULE AccessList ------------------------------
(***************************************************************************)
(* Who may use the API: the wallets of the access table, or everyone when  *)
(* it is empty (internal/app/access.go), from a copy of the table that is  *)
(* kept for ten minutes (internal/service/access.go).                      *)
(***************************************************************************)
EXTENDS Naturals, FiniteSets

CONSTANTS
  Wallets,
  AccessTTL,     \* ticks that the copy is kept
  MaxChanges     \* bound: edits of the table in AccessTTL ticks

ASSUME AccessAssumption == AccessTTL \in Nat \ {0} /\ MaxChanges \in Nat

VARIABLES
  wallets,       \* the access table
  accessCopy,    \* the copy and the ticks it has left, 0 if there is none
  formerWallets  \* history: what the table was in the last AccessTTL ticks

accessVars == <<wallets, accessCopy, formerWallets>>

NoCopy == [list |-> {}, left |-> 0]

AccessInit ==
  /\ wallets \in SUBSET Wallets
  /\ accessCopy = NoCopy
  /\ formerWallets = {}

\* The middleware's decision.
Allowed(list, wallet) == list = {} \/ wallet \in list

\* GetWalletsWithAccess keeps what it read.
KeptLonger(list) == [list |-> list, left |-> AccessTTL + 1]        \* mutant
Kept(list) == [list |-> list, left |-> AccessTTL]

\* Somebody edits the table.
ChangeAccess ==
  /\ Cardinality(formerWallets) < MaxChanges
  /\ \E list \in SUBSET Wallets \ {wallets} : wallets' = list
  /\ formerWallets' = formerWallets \cup {[list |-> wallets, ticks |-> 0]}
  /\ UNCHANGED accessCopy

AccessTick ==
  /\ accessCopy' = IF accessCopy.left <= 1 THEN NoCopy
                   ELSE [accessCopy EXCEPT !.left = @ - 1]
  /\ formerWallets' = {[f EXCEPT !.ticks = @ + 1] :
                         f \in {g \in formerWallets : g.ticks < AccessTTL - 1}}
  /\ UNCHANGED wallets

\* What the table said within the life of a copy.
RecentLists == {wallets} \cup {f.list : f \in formerWallets}
=============================================================================
