------------------------------ MODULE VinRecords ------------------------------
(***************************************************************************)
(* A row of the vins table as a Go value (db/models/vins.go), and what the *)
(* ORM writes back of it.  veh and sd are vehicle_token_id and             *)
(* synthetic_token_id, 0 for NULL; token ids start at 1 on the chain.      *)
(* wallet is wallet_index, 0 for NULL (the sequence starts at 1); conn and *)
(* disc are connection_status and disconnection_status; dd says whether    *)
(* device_definition_id is set.  present is FALSE for a VIN with no row.   *)
(***************************************************************************)
EXTENDS OnboardingStatus

OperationStatus == {"null", "inQueue", "inProgress", "succeeded", "failed"}

Row == [present : BOOLEAN, status : StoredStatus, veh : Nat, sd : Nat, wallet : Nat,
        conn : OperationStatus, disc : OperationStatus, dd : BOOLEAN]

\* &dbmodels.Vin{Vin: vin, OnboardingStatus: status}
NewRow(status) ==
  [present |-> TRUE, status |-> status, veh |-> 0, sd |-> 0, wallet |-> 0,
   conn |-> "null", disc |-> "null", dd |-> FALSE]

NoRow == [NewRow(OnboardingStatusSubmitUnknown) EXCEPT !.present = FALSE]

\* The column lists the workers pass to record.Update.
AllColumnsNoWallet ==                             \* mutant
  {"status", "veh", "sd", "conn", "disc", "dd"}
AllColumns       == {"status", "veh", "sd", "wallet", "conn", "disc", "dd"}
StatusColumn     == {"status"}
EnrollColumns    == {"conn", "disc"}
SDColumnsNoWallet == {"status", "sd"}             \* mutant
SDColumns        == {"status", "sd", "wallet"}
VehicleColumns   == {"status", "veh"}
VehicleSDColumnsNoVehicle == {"status", "sd", "wallet"}  \* mutant
VehicleSDColumns == {"status", "veh", "sd", "wallet"}

\* UPDATE vins SET <columns of record> WHERE vin = ...: the row after it.
\* A VIN without a row is left without one: no row matches, and no error.
Update(row, record, columns) ==
  LET new(c) == row.present /\ c \in columns
  IN  [present |-> row.present,
       status  |-> IF new("status") THEN record.status ELSE row.status,
       veh     |-> IF new("veh")    THEN record.veh    ELSE row.veh,
       sd      |-> IF new("sd")     THEN record.sd     ELSE row.sd,
       wallet  |-> IF new("wallet") THEN record.wallet ELSE row.wallet,
       conn    |-> IF new("conn")   THEN record.conn   ELSE row.conn,
       disc    |-> IF new("disc")   THEN record.disc   ELSE row.disc,
       dd      |-> IF new("dd")     THEN record.dd     ELSE row.dd]

\* INSERT INTO vins, which fails on a VIN that has a row: see InsertVinRecord.
Insert(row, record) == IF row.present THEN row ELSE record

\* INSERT ... ON CONFLICT (vin) DO UPDATE SET of every other column: with
\* boil.Infer() also those that are NULL in the record.
Upsert(row, record) ==
  IF row.present THEN Update(row, record, AllColumns) ELSE record
=============================================================================
