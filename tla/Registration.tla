----------------------------- MODULE Registration -----------------------------
(***************************************************************************)
(* RegisterVehicle (controllers/vehicle.go:178): the owner of a vehicle    *)
(* tells the oracle the VIN of it, composed with Onboarding, whose handlers*)
(* and workers write the same rows.  A request for a vehicle that is not   *)
(* on the chain or is somebody else's is refused before anything is read.  *)
(***************************************************************************)
EXTENDS Onboarding

CONSTANTS
  Registrants,   \* registrations in service at the same time: a bound
  Elsewhere      \* ids of vehicles that other applications have minted

VARIABLES
  external,      \* VINs whose row has them as its external_id
  registering    \* registrant -> registration in service, or its answer

registration == <<external, registering>>

\* lookup: the row is looked up.  upsert: the row is written.  200, 409, 500:
\* how the request was answered.
RegistrationPlaces == {"none", "lookup", "upsert", "200", "409", "500"}

Registering ==
  [at : RegistrationPlaces, vin : Vins, token : Nat, row : Row, broken : BOOLEAN]
NotRegistering ==
  [at |-> "none", vin |-> AnyVin, token |-> 0, row |-> NoRow, broken |-> FALSE]

RegistrationInit ==
  /\ Init
  /\ external = {}
  /\ registering = [g \in Registrants |-> NotRegistering]

\* FetchVehicleByTokenID finds the vehicle, and the wallet owns it.
OwnedVehicle(token) == LiveVehicle(token) \/ token \in Elsewhere

BeginRegistration(g, v, token) ==
  /\ registering[g].at = "none"
  /\ OwnedVehicle(token)
  /\ registering' = [registering EXCEPT ![g] =
       [NotRegistering EXCEPT !.at = "lookup", !.vin = v, !.token = token]]
  /\ UNCHANGED external

Answer(g, answer) == registering' = [registering EXCEPT ![g].at = answer]

\* Does the lookup by external_id find a row?
GetVehicleByExternalID(v) == v \in external

\* If not, it returns an error of its own, which is not the ErrVehicleNotFound
\* that the handler lets pass.
Lookup(g) ==
  LET v   == registering[g].vin
      row == vins[v]
      sd  == IdentitySDs(registering[g].token)
  IN  /\ registering[g].at = "lookup"
      /\ \/ ~GetVehicleByExternalID(v) /\ Answer(g, "500")
         \/ /\ GetVehicleByExternalID(v)
            /\ row.veh \notin {0, registering[g].token}
            /\ Answer(g, "409")
         \/ /\ GetVehicleByExternalID(v)
            /\ row.veh \in {0, registering[g].token}
            /\ registering' = [registering EXCEPT ![g].at = "upsert", ![g].row =
                 [row EXCEPT !.sd = IF sd = {} THEN @ ELSE CHOOSE id \in sd : TRUE,
                             !.dd = TRUE]]
      /\ UNCHANGED external

\* A failure of the database is answered with 500.
BreakRegistration(g) ==
  /\ registering[g].at \in {"lookup", "upsert"}
  /\ registering' = [registering EXCEPT ![g].at = "500", ![g].broken = TRUE]
  /\ UNCHANGED external

\* InsertOrUpdateVin writes the whole row.
RegisterVin(g) ==
  /\ registering[g].at = "upsert"
  /\ vins' = [vins EXCEPT ![registering[g].vin] = Upsert(@, registering[g].row)]
  /\ Answer(g, "200")
  /\ UNCHANGED <<external, jobs, requests, chain, seq, locked, failures>>

\* UpdateEnrollmentStatus and UpdateUnenrollmentStatus set and clear the
\* external_id of a row.
SetExternal ==
  /\ \E v \in {w \in Vins : vins[w].present} :
       external' = IF v \in external THEN external \ {v} ELSE external \cup {v}
  /\ UNCHANGED registering

RegistrationStep(g) ==
  \/ /\ UNCHANGED vars
     /\ \/ \E v \in Vins, token \in 1..MaxMints \cup Elsewhere :
             BeginRegistration(g, v, token)
        \/ Lookup(g) \/ BreakRegistration(g)
  \/ RegisterVin(g)

RegistrationNext ==
  \/ Next /\ UNCHANGED registration
  \/ SetExternal /\ UNCHANGED vars
  \/ \E g \in Registrants : RegistrationStep(g)

RegistrationSpec == RegistrationInit /\ [][RegistrationNext]_<<vars, registration>>

-----------------------------------------------------------------------------
(***************************************************************************)
(* vehicle.go:220: "if now found, we're still good, so fail only on other  *)
(* errors".  So when nothing breaks, the owner of a vehicle gets the VIN   *)
(* registered, unless its row names another vehicle.                       *)
(***************************************************************************)
OwnersCanRegister ==
  \A g \in Registrants : registering[g].at = "500" => registering[g].broken
=============================================================================
