-------------------------- MODULE ServicesProperties --------------------------
(***************************************************************************)
(* What must hold of the clients of the other services.                    *)
(***************************************************************************)
EXTENDS Services

\* The variables have their types.
ServicesTypeOK ==
  /\ token \in Token
  /\ renewing \subseteq Jobs
  /\ wallets \subseteq Wallets
  /\ accessCopy \in [list : SUBSET Wallets, left : 0..AccessTTL]
  /\ formerWallets \subseteq [list : SUBSET Wallets, ticks : 0..AccessTTL - 1]
  /\ jobs \in [Jobs -> [place : JobPlaces, left : 0..Lifetime]]
  /\ requests \in [Requests -> [place  : RequestPlaces,
                                wallet : Wallets \cup {"none"},
                                list   : SUBSET Wallets,
                                answer : Answers \cup {"none"}]]
  /\ definition \in [answer : Answers \cup {"none"}, left : 0..DefinitionTTL]
  /\ lastEmpty \in 0..DefinitionTTL

\* A token that a job calls with and that is still valid is the token kept: one
\* GetToken never replaces a token that another one has just handed out
\* (dimo_auth.go:45-58, the mutex is held over the two calls of the auth server).
OneValidToken ==
  \A j \in Jobs :
    jobs[j].place = "decode" /\ jobs[j].left > 0
      => token.kept /\ token.left = jobs[j].left

\* Whoever is admitted was allowed by the table within the life of the copy, also
\* when requests read the table and keep their copies in different orders
\* (access.go:30-57): a wallet that was removed is out after ten minutes.
AdmittedRecently ==
  [][\A r \in Requests :
       requests[r].place # "ask" /\ requests'[r].place = "ask"
         => \E list \in RecentLists : Allowed(list, requests'[r].wallet)]_serviceVars

\* An empty definition is served for mint data only while the identity API gave
\* an empty answer less than ten minutes ago (identity_api.go:143-161 keeps an
\* empty answer like any other): it does not outlive the copy.
EmptyOnlyRecently == definition.answer = "empty" => lastEmpty < DefinitionTTL

-----------------------------------------------------------------------------
(* The inductive invariant that the properties rest on.                    *)

\* Whoever is in getNewToken has the mutex alone and there is no token.
RenewalsExclude ==
  /\ \A j \in Jobs : j \in renewing <=> jobs[j].place = "renew"
  /\ \A i, j \in renewing : i = j
  /\ renewing # {} => token = NoToken

\* A copy of the table, and one that is about to be kept, expire before what
\* they were read from is too old.
CopySound ==
  accessCopy.left > 0 =>
    \/ accessCopy.list = wallets
    \/ \E f \in formerWallets :
         f.list = accessCopy.list /\ f.ticks + accessCopy.left <= AccessTTL

ReadsSound ==
  \A r \in Requests : requests[r].place = "keep" =>
    \/ requests[r].list = wallets
    \/ \E f \in formerWallets : f.list = requests[r].list /\ f.ticks = 0

\* So does an empty definition.
EmptySound ==
  /\ definition.answer = "empty" =>
       definition.left > 0 /\ lastEmpty + definition.left <= DefinitionTTL
  /\ \A r \in Requests :
       requests[r].place = "set" /\ requests[r].answer = "empty" => lastEmpty = 0

ServicesInv ==
  /\ ServicesTypeOK /\ OneValidToken /\ RenewalsExclude
  /\ CopySound /\ ReadsSound /\ EmptySound
=============================================================================
