--------------------------- MODULE VehicleLifecycle ---------------------------
(***************************************************************************)
(* What the onboarding of VINs promises a client that waits for its jobs:  *)
(* the vehicle and the synthetic device (SD) of a VIN are minted and       *)
(* burned in turn, and each mint and each burn is recorded in the VIN's    *)
(* row before the chain is asked for the next.  Onboarding implements      *)
(* this (OnboardingRefinement), and Telemetry, which reads the rows, is    *)
(* composed with it.                                                       *)
(***************************************************************************)
EXTENDS Naturals

CONSTANTS Vins

VARIABLES
  held,      \* VIN -> the tokens that live for it on the chain
  recorded,  \* VIN -> the tokens its row has, or Unknown
  minted     \* how many vehicles and how many SDs were ever minted

lifecycle == <<held, recorded, minted>>

Tokens == [known : BOOLEAN, veh : Nat, sd : Nat]
None    == [known |-> TRUE, veh |-> 0, sd |-> 0]
Unknown == [None EXCEPT !.known = FALSE]

LifecycleInit ==
  /\ held = [v \in Vins |-> None]
  /\ recorded = [v \in Vins |-> Unknown]
  /\ minted = [veh |-> 0, sd |-> 0]

\* The row of a VIN is made.
Learn(v) ==
  /\ recorded[v] = Unknown
  /\ recorded' = [recorded EXCEPT ![v] = None]
  /\ UNCHANGED <<held, minted>>

\* The chain gives and takes tokens of v only when its row is up to date.
OnChain(v, tokens) ==
  /\ recorded[v] = held[v]
  /\ held' = [held EXCEPT ![v] = tokens]
  /\ UNCHANGED recorded

Mint(v) ==
  /\ held[v].veh = 0
  /\ OnChain(v, [held[v] EXCEPT !.veh = minted.veh + 1, !.sd = minted.sd + 1])
  /\ minted' = [veh |-> minted.veh + 1, sd |-> minted.sd + 1]

MintSDAgain(v) ==
  /\ held[v].veh # 0 /\ held[v].sd = 0
  /\ OnChain(v, [held[v] EXCEPT !.sd = minted.sd + 1])
  /\ minted' = [minted EXCEPT !.sd = @ + 1]

BurnSD(v) ==
  /\ held[v].sd # 0
  /\ OnChain(v, [held[v] EXCEPT !.sd = 0])
  /\ UNCHANGED minted

BurnVehicle(v) ==
  /\ held[v].veh # 0 /\ held[v].sd = 0
  /\ OnChain(v, [held[v] EXCEPT !.veh = 0])
  /\ UNCHANGED minted

\* The worker saves what it did.
Record(v) ==
  /\ recorded[v] \notin {Unknown, held[v]}
  /\ recorded' = [recorded EXCEPT ![v] = held[v]]
  /\ UNCHANGED <<held, minted>>

LifecycleNext ==
  \E v \in Vins : \/ Learn(v) \/ Mint(v) \/ MintSDAgain(v)
                  \/ BurnSD(v) \/ BurnVehicle(v) \/ Record(v)

LifecycleSpec == LifecycleInit /\ [][LifecycleNext]_lifecycle
=============================================================================
