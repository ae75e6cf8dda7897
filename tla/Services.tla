------------------------------- MODULE Services -------------------------------
(***************************************************************************)
(* The clients of the other DIMO services and what they keep: verify jobs  *)
(* that decode a VIN with the developer token, and requests for mint data, *)
(* which pass the access check and read the device definition through the  *)
(* handlers' copy of it (internal/service/identity_api.go).                *)
(*                                                                         *)
(* Time passes in ticks.  A table read or an answer of the identity API    *)
(* takes seconds and a copy is kept for minutes: a tick does not come      *)
(* between a read and the copy that is made of it.                         *)
(***************************************************************************)
EXTENDS DeveloperToken, AccessList

CONSTANTS
  Jobs,            \* verify jobs
  Requests,        \* requests for mint data
  DefinitionTTL    \* ticks that an answer of the identity API is kept

ASSUME DefinitionAssumption == DefinitionTTL \in Nat \ {0}

VARIABLES
  jobs,            \* jobs[j]: where the job is, and the life of its token
  requests,        \* requests[r]: where the request is, and what it has read
  definition,      \* the copy of the device definition, and the ticks it has left
  lastEmpty        \* history: ticks since the identity API gave an empty answer

serviceVars == <<token, renewing, wallets, accessCopy, formerWallets,
                 jobs, requests, definition, lastEmpty>>

\* renew: in getNewToken.  decode: calls decode-vin.
JobPlaces == {"idle", "renew", "decode"}

\* read: reads the access table.  keep: has read it.  ask: is admitted.
\* fetch: asks the identity API.  set: has its answer.
RequestPlaces == {"idle", "read", "keep", "ask", "fetch", "set"}

\* The identity API answers with the definition or, also when its answer is an
\* error in the body, with one whose fields are all empty.
Answers == {"full", "empty"}

NoAnswer == [answer |-> "none", left |-> 0]
IdleJob  == [place |-> "idle", left |-> 0]
IdleRequest == [place |-> "idle", wallet |-> "none", list |-> {}, answer |-> "none"]

ServicesInit ==
  /\ TokenInit
  /\ AccessInit
  /\ jobs = [j \in Jobs |-> IdleJob]
  /\ requests = [r \in Requests |-> IdleRequest]
  /\ definition = NoAnswer
  /\ lastEmpty = DefinitionTTL

---------------------------- (* The verify jobs *) ----------------------------

Goes(j, place, left) == jobs' = [jobs EXCEPT ![j] = [place |-> place, left |-> left]]

\* DecodeVin gets the token that is kept.
DecodeWithToken(j) ==
  /\ jobs[j] = IdleJob
  /\ UseToken(j)
  /\ Goes(j, "decode", token.left)

\* DecodeVin waits for a new token.
RenewToken(j) ==
  /\ jobs[j] = IdleJob
  /\ BeginRenewal(j)
  /\ Goes(j, "renew", 0)

\* It gets one, or fails to and returns an error.
TokenRenewed(j) ==
  /\ jobs[j].place = "renew"
  /\ \/ EndRenewal(j, Fresh)   /\ Goes(j, "decode", Lifetime)
     \/ EndRenewal(j, NoToken) /\ Goes(j, "idle", 0)

\* decode-vin answers, or refuses: whichever, the token kept is not touched.
Decoded(j) ==
  /\ jobs[j].place = "decode"
  /\ Goes(j, "idle", 0)
  /\ UNCHANGED tokenVars

VerifyStep(j) ==
  /\ DecodeWithToken(j) \/ RenewToken(j) \/ TokenRenewed(j) \/ Decoded(j)
  /\ UNCHANGED <<wallets, accessCopy, formerWallets, requests, definition, lastEmpty>>

---------------------------- (* The requests *) -------------------------------

\* The middleware lets the request pass, or answers 403.
Decide(r, list, wallet) ==
  requests' = [requests EXCEPT ![r] =
    IF Allowed(list, wallet)
    THEN [IdleRequest EXCEPT !.place = "ask", !.wallet = wallet]
    ELSE IdleRequest]

\* A request arrives and finds a copy of the access table, or must read it.
Arrive(r, wallet) ==
  /\ requests[r] = IdleRequest
  /\ IF accessCopy.left > 0
     THEN Decide(r, accessCopy.list, wallet)
     ELSE requests' = [requests EXCEPT ![r].place = "read", ![r].wallet = wallet]
  /\ UNCHANGED <<accessVars, definition, lastEmpty>>

\* It reads the table; on an error of the database it is answered with 500.
ReadAccess(r) ==
  /\ requests[r].place = "read"
  /\ requests' = [requests EXCEPT ![r] =
       [@ EXCEPT !.place = "keep", !.list = wallets]]
  /\ UNCHANGED <<accessVars, definition, lastEmpty>>

FailRequest(r) ==
  /\ requests[r].place \in {"read", "fetch"}
  /\ requests' = [requests EXCEPT ![r] = IdleRequest]
  /\ UNCHANGED <<accessVars, definition, lastEmpty>>

\* It keeps the copy and uses it.
KeepAccess(r) ==
  /\ requests[r].place = "keep"
  /\ accessCopy' = Kept(requests[r].list)
  /\ Decide(r, requests[r].list, requests[r].wallet)
  /\ UNCHANGED <<wallets, formerWallets, definition, lastEmpty>>

\* GetDeviceDefinitionByID: the copy is served, an empty one as well.
AskDefinition(r) ==
  /\ requests[r].place = "ask"
  /\ requests' = [requests EXCEPT ![r] =
       IF definition.left > 0 THEN IdleRequest
       ELSE [IdleRequest EXCEPT !.place = "fetch"]]
  /\ UNCHANGED <<accessVars, definition, lastEmpty>>

\* FetchDeviceDefinitionByID: the identity API answers.
FetchDefinition(r) ==
  /\ requests[r].place = "fetch"
  /\ \E answer \in Answers :
       /\ requests' = [requests EXCEPT ![r] =
            [@ EXCEPT !.place = "set", !.answer = answer]]
       /\ lastEmpty' = IF answer = "empty" THEN 0 ELSE lastEmpty
  /\ UNCHANGED <<accessVars, definition>>

\* The answer is kept whatever it is, and served.
KeptAnswerLonger(answer) == [answer |-> answer, left |-> DefinitionTTL + 1]  \* mutant
KeptAnswer(answer) == [answer |-> answer, left |-> DefinitionTTL]

SetDefinition(r) ==
  /\ requests[r].place = "set"
  /\ definition' = KeptAnswer(requests[r].answer)
  /\ requests' = [requests EXCEPT ![r] = IdleRequest]
  /\ UNCHANGED <<accessVars, lastEmpty>>

RequestStep(r) ==
  /\ \/ \E wallet \in Wallets : Arrive(r, wallet)
     \/ ReadAccess(r) \/ KeepAccess(r) \/ FailRequest(r)
     \/ AskDefinition(r) \/ FetchDefinition(r) \/ SetDefinition(r)
  /\ UNCHANGED <<token, renewing, jobs>>

------------------------------ (* The rest *) ---------------------------------

EditAccess ==
  /\ ChangeAccess
  /\ UNCHANGED <<token, renewing, jobs, requests, definition, lastEmpty>>

Tick ==
  /\ \A r \in Requests : requests[r].place \notin {"keep", "set"}
  /\ TokenTick
  /\ AccessTick
  /\ jobs' = [j \in Jobs |-> [jobs[j] EXCEPT !.left = Older(@)]]
  /\ definition' = IF definition.left <= 1 THEN NoAnswer
                   ELSE [definition EXCEPT !.left = @ - 1]
  /\ lastEmpty' = IF lastEmpty = DefinitionTTL THEN lastEmpty ELSE lastEmpty + 1
  /\ UNCHANGED requests

ServicesNext ==
  \/ \E j \in Jobs : VerifyStep(j)
  \/ \E r \in Requests : RequestStep(r)
  \/ EditAccess
  \/ Tick

ServicesSpec == ServicesInit /\ [][ServicesNext]_serviceVars
=============================================================================
