------------------------- MODULE OnboardingRefinement -------------------------
(***************************************************************************)
(* Onboarding implements VehicleLifecycle when clients wait for their      *)
(* jobs, handlers are faster than jobs, and nothing crashes or is lost.    *)
(***************************************************************************)
EXTENDS OnboardingProperties

TheOnly(ids) == IF ids = {} THEN 0 ELSE CHOOSE id \in ids : TRUE

\* The tokens that live for v, and those that its row names.
Held(v) ==
  [known |-> TRUE,
   veh |-> TheOnly({x.id : x \in {y \in vehicles : y.vin = v /\ LiveVehicle(y.id)}}),
   sd  |-> TheOnly({x.id : x \in {y \in sds : y.vin = v /\ LiveSD(y.id)}})]
Recorded(v) == [known |-> vins[v].present, veh |-> vins[v].veh, sd |-> vins[v].sd]

Lifecycle == INSTANCE VehicleLifecycle
  WITH held     <- [v \in Vins |-> Held(v)],
       recorded <- [v \in Vins |-> Recorded(v)],
       minted   <- [veh |-> seq.vehicle - 1, sd |-> seq.sd - 1]

\* The retries, the saves at many places of the workers and the upserts of
\* every column by the handlers amount to this: a VIN's tokens are minted and
\* burned in turn, and no job mints or burns before the row has the last mint
\* or burn (the deferred saves of onboard.go:196, onboard.go:325,
\* disconnect.go:157 and delete.go:115).
FollowsLifecycle == Lifecycle!LifecycleSpec
=============================================================================
