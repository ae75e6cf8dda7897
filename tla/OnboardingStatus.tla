--------------------------- MODULE OnboardingStatus ---------------------------
(***************************************************************************)
(* The onboarding status codes of a VIN (internal/onboarding/status.go),   *)
(* the predicates the handlers and workers decide by, and the four gates   *)
(* of the submit handlers (internal/controllers).  Codes come in tens, one *)
(* per stage; the last digit is 0 unknown, 1 pending, 2 failure, 3 success. *)
(***************************************************************************)
EXTENDS Naturals

OnboardingStatusSubmitUnknown           == 0
OnboardingStatusDecodingUnknown         == 10
OnboardingStatusDecodingPending         == 11
OnboardingStatusDecodingFailure         == 12
OnboardingStatusDecodingSuccess         == 13
OnboardingStatusVendorValidationFailure == 22
OnboardingStatusVendorValidationSuccess == 23
OnboardingStatusMintSubmitUnknown       == 30
OnboardingStatusConnectFailure          == 42
OnboardingStatusConnectSuccess          == 43
OnboardingStatusMintFailure             == 52
OnboardingStatusMintSuccess             == 53
OnboardingStatusDisconnectSubmitUnknown == 60
OnboardingStatusDisconnectSubmitFailure == 62
OnboardingStatusDisconnectFailure       == 72
OnboardingStatusDisconnectSuccess       == 73
OnboardingStatusBurnSDFailure           == 82
OnboardingStatusBurnSDSuccess           == 83
OnboardingStatusDeleteSubmitUnknown     == 90
OnboardingStatusBurnVehicleFailure      == 102
OnboardingStatusBurnVehicleSuccess      == 103

\* The codes the program stores; the others of the table are only compared
\* with, shown, or held in a worker's memory between two saves.
StoredStatus ==
  {OnboardingStatusSubmitUnknown, OnboardingStatusDecodingUnknown,
   OnboardingStatusDecodingPending, OnboardingStatusDecodingFailure,
   OnboardingStatusDecodingSuccess, OnboardingStatusVendorValidationFailure,
   OnboardingStatusVendorValidationSuccess, OnboardingStatusMintSubmitUnknown,
   OnboardingStatusConnectFailure, OnboardingStatusConnectSuccess,
   OnboardingStatusMintFailure, OnboardingStatusMintSuccess,
   OnboardingStatusDisconnectSubmitUnknown, OnboardingStatusDisconnectFailure,
   OnboardingStatusDisconnectSuccess, OnboardingStatusBurnSDFailure,
   OnboardingStatusBurnSDSuccess, OnboardingStatusDeleteSubmitUnknown,
   OnboardingStatusBurnVehicleFailure, OnboardingStatusBurnVehicleSuccess}

-----------------------------------------------------------------------------
IsVerified(status)     == status >= OnboardingStatusVendorValidationSuccess
IsMinted(status)       == status = OnboardingStatusMintSuccess
IsDisconnected(status) == status = OnboardingStatusBurnSDSuccess
IsFailure(status)      == status % 10 = 2
IsPending(status)      == status > 0 /\ status < OnboardingStatusMintSuccess

IsMintPending(status) ==
  /\ status > OnboardingStatusMintSubmitUnknown
  /\ status < OnboardingStatusMintSuccess

IsDisconnectPending(status) ==
  /\ status > OnboardingStatusDisconnectSubmitUnknown
  /\ status < OnboardingStatusBurnSDSuccess
  /\ ~IsFailure(status)

IsDisconnectFailed(status) ==
  status \in {OnboardingStatusDisconnectSubmitFailure,
              OnboardingStatusBurnSDFailure,
              OnboardingStatusDisconnectFailure}

\* Unlike IsDisconnectPending, a failure code in the range counts as pending.
IsBurnPending(status) ==
  /\ status > OnboardingStatusDeleteSubmitUnknown
  /\ status < OnboardingStatusBurnVehicleSuccess

\* What the status handlers tell a client who asks for a kind of job.
StatusText(success, status, pending) ==
  IF success THEN "Success" ELSE IF IsFailure(status) THEN "Failure"
  ELSE IF pending THEN "Pending" ELSE "Unknown"

GetVerificationStatus(status) ==
  StatusText(IsVerified(status), status, IsPending(status))
GetMintStatus(status) ==
  StatusText(status = OnboardingStatusMintSuccess, status, IsPending(status))
GetDisconnectStatus(status) ==
  StatusText(status = OnboardingStatusBurnSDSuccess, status, IsDisconnectPending(status))
GetBurnStatus(status) ==
  StatusText(status = OnboardingStatusBurnVehicleSuccess, status, IsBurnPending(status))

-----------------------------------------------------------------------------
(* The gates: may a row in this status, with this connection status, be    *)
(* given a job of the kind?                                                *)

canSubmitVerificationJob(status) ==
  ~IsVerified(status) /\ (IsFailure(status) \/ ~IsPending(status))

canSubmitMintingJobOnce(status, conn) ==  \* mutant: a failed mint is pending
  LET pending == IsMintPending(status) \/ IsDisconnectPending(status)
  IN  \/ IsMinted(status) /\ conn = "failed"
      \/ (~IsMinted(status) \/ IsDisconnected(status)) /\ ~pending

canSubmitMintingJob(status, conn) ==
  LET pending == IsMintPending(status) \/ IsDisconnectPending(status)
  IN  \/ IsMinted(status) /\ conn = "failed"
      \/ /\ ~IsMinted(status) \/ IsDisconnected(status)
         /\ IsFailure(status) \/ ~pending

canSubmitDisconnectJob(status) ==
  /\ IsMinted(status) \/ IsDisconnectFailed(status)
  /\ ~IsDisconnectPending(status)

canSubmitDeleteJob(status) ==
  /\ IsDisconnected(status) \/ IsFailure(status)
  /\ ~IsBurnPending(status)
=============================================================================
