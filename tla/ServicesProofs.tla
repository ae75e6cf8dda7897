---------------------------- MODULE ServicesProofs ----------------------------
(***************************************************************************)
(* Proofs of the safety properties of Services, for any jobs, requests and *)
(* wallets and any lifetimes.                                              *)
(***************************************************************************)
EXTENDS ServicesProperties, TLAPS

\* The first state.
LEMMA ServicesInitInv == ServicesInit => ServicesInv
<1> SUFFICES ASSUME ServicesInit PROVE ServicesInv
  OBVIOUS
<1> USE LifetimeAssumption, AccessAssumption, DefinitionAssumption
<1> USE DEF ServicesInit, TokenInit, AccessInit
<1>1. ServicesTypeOK
  BY DEF ServicesTypeOK, Token, NoToken, NoCopy, NoAnswer, IdleJob, IdleRequest,
    JobPlaces, RequestPlaces, Answers
<1>2. OneValidToken /\ RenewalsExclude
  BY DEF OneValidToken, RenewalsExclude, IdleJob
<1>3. CopySound /\ ReadsSound /\ EmptySound
  BY DEF CopySound, ReadsSound, EmptySound, NoCopy, NoAnswer, IdleRequest
<1> QED BY <1>1, <1>2, <1>3 DEF ServicesInv

-----------------------------------------------------------------------------
(* The verify jobs: whoever has the mutex is alone, and no job calls with  *)
(* a valid token meanwhile.                                                *)

LEMMA VerifyStepKeepsInv ==
  ASSUME ServicesInv, NEW j \in Jobs, VerifyStep(j)
  PROVE  ServicesInv'
<1> USE LifetimeAssumption DEF ServicesInv
<1>1. UNCHANGED <<wallets, accessCopy, formerWallets, requests, definition, lastEmpty>>
  BY DEF VerifyStep
<1>2. CopySound' /\ ReadsSound' /\ EmptySound'
  BY <1>1 DEF CopySound, ReadsSound, EmptySound
<1>3. /\ token \in Token /\ renewing \subseteq Jobs
      /\ jobs \in [Jobs -> [place : JobPlaces, left : 0..Lifetime]]
  BY DEF ServicesTypeOK
<1>4. ASSUME /\ token' \in Token /\ renewing' \subseteq Jobs
             /\ jobs' \in [Jobs -> [place : JobPlaces, left : 0..Lifetime]]
      PROVE  ServicesTypeOK'
  BY <1>1, <1>4 DEF ServicesTypeOK
<1>5. CASE DecodeWithToken(j)
  <2>1. /\ token' = token /\ renewing' = renewing /\ renewing = {} /\ token.kept
        /\ jobs' = [jobs EXCEPT ![j] = [place |-> "decode", left |-> token.left]]
    BY <1>5 DEF DecodeWithToken, UseToken, Valid, Goes, tokenVars
  <2>2. ServicesTypeOK'
    BY <1>3, <1>4, <2>1 DEF Token, JobPlaces
  <2>3. OneValidToken'
    BY <1>3, <2>1 DEF OneValidToken
  <2>4. RenewalsExclude'
    BY <1>3, <2>1 DEF RenewalsExclude
  <2> QED BY <1>2, <2>2, <2>3, <2>4
<1>6. CASE RenewToken(j)
  <2>1. /\ token' = NoToken /\ renewing' = {j} /\ renewing = {}
        /\ jobs' = [jobs EXCEPT ![j] = [place |-> "renew", left |-> 0]]
        /\ ~(token.kept /\ token.left > 0)
    BY <1>6 DEF RenewToken, BeginRenewal, Valid, Goes
  <2>2. ServicesTypeOK'
    BY <1>3, <1>4, <2>1 DEF Token, NoToken, JobPlaces
  <2>3. OneValidToken'
    BY <1>3, <2>1 DEF OneValidToken
  <2>4. RenewalsExclude'
    BY <1>3, <2>1 DEF RenewalsExclude
  <2> QED BY <1>2, <2>2, <2>3, <2>4
<1>7. CASE TokenRenewed(j)
  <2>1. PICK new \in {Fresh, NoToken} :
          /\ j \in renewing /\ token' = new /\ renewing' = renewing \ {j}
          /\ jobs' = [jobs EXCEPT ![j] =
               IF new = Fresh THEN [place |-> "decode", left |-> Lifetime]
                              ELSE [place |-> "idle", left |-> 0]]
    <3>1. Fresh # NoToken
      BY DEF Fresh, NoToken
    <3>2. CASE EndRenewal(j, Fresh) /\ Goes(j, "decode", Lifetime)
      BY <3>1, <3>2 DEF EndRenewal, Goes
    <3>3. CASE EndRenewal(j, NoToken) /\ Goes(j, "idle", 0)
      BY <3>1, <3>3 DEF EndRenewal, Goes
    <3> QED BY <1>7, <3>2, <3>3 DEF TokenRenewed
  <2>2. renewing = {j} /\ token = NoToken
    BY <2>1 DEF RenewalsExclude
  <2>3. \A i \in Jobs : ~(jobs[i].place = "decode" /\ jobs[i].left > 0)
    BY <2>2 DEF OneValidToken, NoToken
  <2>4. ServicesTypeOK'
    <3> 0 \in 0..Lifetime /\ Lifetime \in 0..Lifetime
      BY LifetimeAssumption
    <3>1. token' \in Token
      <4>1. Fresh \in Token /\ NoToken \in Token
        BY DEF Token, Fresh, NoToken
      <4> QED BY <2>1, <4>1
    <3>2. renewing' \subseteq Jobs
      BY <1>3, <2>1
    <3>3. CASE new = Fresh
      BY <1>3, <1>4, <2>1, <3>1, <3>2, <3>3 DEF JobPlaces
    <3>4. CASE new # Fresh
      BY <1>3, <1>4, <2>1, <3>1, <3>2, <3>4 DEF JobPlaces
    <3> QED BY <3>3, <3>4
  <2>5. OneValidToken'
    BY <1>3, <2>1, <2>3 DEF OneValidToken, Fresh
  <2>6. RenewalsExclude'
    BY <1>3, <2>1, <2>2 DEF RenewalsExclude
  <2> QED BY <1>2, <2>4, <2>5, <2>6
<1>8. CASE Decoded(j)
  <2>1. /\ token' = token /\ renewing' = renewing /\ jobs[j].place = "decode"
        /\ jobs' = [jobs EXCEPT ![j] = [place |-> "idle", left |-> 0]]
    BY <1>8 DEF Decoded, Goes, tokenVars
  <2>2. ServicesTypeOK'
    BY <1>3, <1>4, <2>1 DEF JobPlaces
  <2>3. OneValidToken'
    BY <1>3, <2>1 DEF OneValidToken
  <2>4. RenewalsExclude'
    BY <1>3, <2>1 DEF RenewalsExclude
  <2> QED BY <1>2, <2>2, <2>3, <2>4
<1> QED BY <1>5, <1>6, <1>7, <1>8 DEF VerifyStep

-----------------------------------------------------------------------------
(* The requests: what they keep is as old as what they read.               *)

RequestType == [place  : RequestPlaces,
                wallet : Wallets \cup {"none"},
                list   : SUBSET Wallets,
                answer : Answers \cup {"none"}]

\* Wherever the middleware sends a request, it takes no list and no answer.
LEMMA DecideSends ==
  ASSUME requests \in [Requests -> RequestType], NEW r \in Requests,
         NEW list, NEW wallet \in Wallets \cup {"none"}, Decide(r, list, wallet)
  PROVE  \E new \in RequestType :
           /\ requests' = [requests EXCEPT ![r] = new]
           /\ new.place \in {"idle", "ask"}
           /\ new.place = "ask" => new.wallet = wallet /\ Allowed(list, wallet)
<1> DEFINE new == IF Allowed(list, wallet)
                  THEN [IdleRequest EXCEPT !.place = "ask", !.wallet = wallet]
                  ELSE IdleRequest
<1>1. requests' = [requests EXCEPT ![r] = new]
  BY DEF Decide
<1>2. new \in RequestType /\ new.place \in {"idle", "ask"}
  BY DEF IdleRequest, RequestType, RequestPlaces, Answers
<1>3. new.place = "ask" => new.wallet = wallet /\ Allowed(list, wallet)
  BY DEF IdleRequest
<1> HIDE DEF new
<1> QED BY <1>1, <1>2, <1>3

\* What a step of request r, which becomes new, does to the copies.
Keeps(r, new) ==
  /\ requests' = [requests EXCEPT ![r] = new]
  /\ token' = token /\ renewing' = renewing /\ jobs' = jobs
  /\ wallets' = wallets /\ formerWallets' = formerWallets
  /\ new.place = "keep" => new.list = wallets
  /\ new.place = "set" /\ new.answer = "empty" => lastEmpty' = 0
  /\ new.place = "ask" =>
       \/ accessCopy.left > 0 /\ Allowed(accessCopy.list, new.wallet)
       \/ requests[r].place = "keep" /\ Allowed(requests[r].list, new.wallet)
  /\ \/ accessCopy' = accessCopy
     \/ requests[r].place = "keep" /\ accessCopy' = Kept(requests[r].list)
  /\ \/ definition' = definition
     \/ requests[r].place = "set" /\ definition' = KeptAnswer(requests[r].answer)
  /\ \/ lastEmpty' = lastEmpty
     \/ definition' = definition /\ lastEmpty' = 0

\* Every step of a request is one of those.
LEMMA RequestMoves ==
  ASSUME ServicesTypeOK, NEW r \in Requests, RequestStep(r)
  PROVE  \E new \in RequestType : Keeps(r, new)
<1>1. requests \in [Requests -> RequestType]
  BY DEF ServicesTypeOK, RequestType
<1>2. token' = token /\ renewing' = renewing /\ jobs' = jobs
  BY DEF RequestStep
<1>3. IdleRequest \in RequestType /\ IdleRequest.place = "idle"
  BY DEF IdleRequest, RequestType, RequestPlaces, Answers
<1> DEFINE Same == /\ wallets' = wallets /\ accessCopy' = accessCopy
                   /\ formerWallets' = formerWallets
<1>4. ASSUME NEW wallet \in Wallets, Arrive(r, wallet)
      PROVE  \E new \in RequestType : Keeps(r, new)
  <2>1. Same /\ definition' = definition /\ lastEmpty' = lastEmpty
    BY <1>4 DEF Arrive, accessVars
  <2>2. CASE accessCopy.left > 0
    <3>1. Decide(r, accessCopy.list, wallet)
      BY <1>4, <2>2 DEF Arrive
    <3>2. PICK new \in RequestType :
            /\ requests' = [requests EXCEPT ![r] = new]
            /\ new.place \in {"idle", "ask"}
            /\ new.place = "ask" => new.wallet = wallet /\ Allowed(accessCopy.list, wallet)
      BY <1>1, <3>1, DecideSends
    <3>3. Keeps(r, new)
      BY <1>2, <2>1, <2>2, <3>2 DEF Keeps
    <3> QED BY <3>3
  <2>3. CASE ~(accessCopy.left > 0)
    <3> DEFINE new == [requests[r] EXCEPT !.place = "read", !.wallet = wallet]
    <3>1. requests' = [requests EXCEPT ![r] = new]
      <4>1. requests' = [requests EXCEPT ![r].place = "read", ![r].wallet = wallet]
        BY <1>4, <2>3 DEF Arrive
      <4> QED BY <1>1, <4>1
    <3>2. new \in RequestType /\ new.place = "read"
      BY <1>1 DEF RequestType, RequestPlaces
    <3> HIDE DEF new
    <3>3. Keeps(r, new)
      BY <1>2, <2>1, <3>1, <3>2 DEF Keeps
    <3> QED BY <3>2, <3>3
  <2> QED BY <2>2, <2>3
<1>5. CASE ReadAccess(r)
  <2> DEFINE new == [requests[r] EXCEPT !.place = "keep", !.list = wallets]
  <2>1. /\ requests' = [requests EXCEPT ![r] = new]
        /\ Same /\ definition' = definition /\ lastEmpty' = lastEmpty
    BY <1>5 DEF ReadAccess, accessVars
  <2>2. new \in RequestType /\ new.place = "keep" /\ new.list = wallets
    BY <1>1 DEF RequestType, RequestPlaces, ServicesTypeOK
  <2> HIDE DEF new
  <2>3. Keeps(r, new)
    BY <1>2, <2>1, <2>2 DEF Keeps
  <2> QED BY <2>2, <2>3
<1>6. CASE KeepAccess(r)
  <2>1. /\ requests[r].place = "keep" /\ accessCopy' = Kept(requests[r].list)
        /\ Decide(r, requests[r].list, requests[r].wallet)
        /\ wallets' = wallets /\ formerWallets' = formerWallets
        /\ definition' = definition /\ lastEmpty' = lastEmpty
    BY <1>6 DEF KeepAccess
  <2>2. requests[r].wallet \in Wallets \cup {"none"}
    BY <1>1 DEF RequestType
  <2>3. PICK new \in RequestType :
          /\ requests' = [requests EXCEPT ![r] = new]
          /\ new.place \in {"idle", "ask"}
          /\ new.place = "ask" => /\ new.wallet = requests[r].wallet
                                  /\ Allowed(requests[r].list, requests[r].wallet)
    BY <1>1, <2>1, <2>2, DecideSends
  <2>4. Keeps(r, new)
    BY <1>2, <2>1, <2>3 DEF Keeps
  <2> QED BY <2>4
<1>7. CASE FailRequest(r)
  <2>1. Keeps(r, IdleRequest)
    BY <1>2, <1>3, <1>7 DEF FailRequest, accessVars, Keeps
  <2> QED BY <1>3, <2>1
<1>8. CASE AskDefinition(r)
  <2> DEFINE new == IF definition.left > 0 THEN IdleRequest
                    ELSE [IdleRequest EXCEPT !.place = "fetch"]
  <2>1. /\ requests' = [requests EXCEPT ![r] = new]
        /\ Same /\ definition' = definition /\ lastEmpty' = lastEmpty
    BY <1>8 DEF AskDefinition, accessVars
  <2>2. new \in RequestType /\ new.place \in {"idle", "fetch"}
    BY DEF IdleRequest, RequestType, RequestPlaces, Answers
  <2> HIDE DEF new
  <2>3. Keeps(r, new)
    BY <1>2, <2>1, <2>2 DEF Keeps
  <2> QED BY <2>2, <2>3
<1>9. CASE FetchDefinition(r)
  <2>1. PICK answer \in Answers :
          /\ requests' = [requests EXCEPT ![r] =
               [requests[r] EXCEPT !.place = "set", !.answer = answer]]
          /\ lastEmpty' = IF answer = "empty" THEN 0 ELSE lastEmpty
    BY <1>9 DEF FetchDefinition
  <2>2. Same /\ definition' = definition
    BY <1>9 DEF FetchDefinition, accessVars
  <2> DEFINE new == [requests[r] EXCEPT !.place = "set", !.answer = answer]
  <2>3. new \in RequestType /\ new.place = "set" /\ new.answer = answer
    BY <1>1 DEF RequestType, RequestPlaces
  <2>4. requests' = [requests EXCEPT ![r] = new]
    BY <2>1
  <2> HIDE DEF new
  <2>5. Keeps(r, new)
    BY <1>2, <2>1, <2>2, <2>3, <2>4 DEF Keeps
  <2> QED BY <2>3, <2>5
<1>10. CASE SetDefinition(r)
  <2>1. Keeps(r, IdleRequest)
    BY <1>2, <1>3, <1>10 DEF SetDefinition, accessVars, Keeps
  <2> QED BY <1>3, <2>1
<1> QED BY <1>4, <1>5, <1>6, <1>7, <1>8, <1>9, <1>10 DEF RequestStep

LEMMA RequestStepKeepsInv ==
  ASSUME ServicesInv, NEW r \in Requests, RequestStep(r)
  PROVE  ServicesInv'
<1> USE AccessAssumption, DefinitionAssumption DEF ServicesInv
<1>1. PICK new \in RequestType : Keeps(r, new)
  BY RequestMoves
<1> USE <1>1 DEF Keeps
<1>2. /\ requests \in [Requests -> RequestType]
      /\ accessCopy \in [list : SUBSET Wallets, left : 0..AccessTTL]
      /\ definition \in [answer : Answers \cup {"none"}, left : 0..DefinitionTTL]
      /\ lastEmpty \in 0..DefinitionTTL
      /\ formerWallets \subseteq [list : SUBSET Wallets, ticks : 0..AccessTTL - 1]
  BY DEF ServicesTypeOK, RequestType
<1>3. requests[r].list \in SUBSET Wallets /\ requests[r].answer \in Answers \cup {"none"}
  BY <1>2 DEF RequestType
<1>4. /\ requests' \in [Requests -> RequestType] /\ requests'[r] = new
      /\ \A q \in Requests : q # r => requests'[q] = requests[q]
  BY <1>1, <1>2
<1>5. ServicesTypeOK'
  <2>1. accessCopy' \in [list : SUBSET Wallets, left : 0..AccessTTL]
    BY <1>1, <1>2, <1>3 DEF Kept
  <2>2. definition' \in [answer : Answers \cup {"none"}, left : 0..DefinitionTTL]
    BY <1>1, <1>2, <1>3 DEF KeptAnswer
  <2>3. lastEmpty' \in 0..DefinitionTTL
    BY <1>1, <1>2
  <2> QED BY <1>1, <1>4, <2>1, <2>2, <2>3 DEF ServicesTypeOK, RequestType
<1>6. OneValidToken' /\ RenewalsExclude'
  BY <1>1 DEF OneValidToken, RenewalsExclude
<1>7. CopySound'
  <2>1. CASE UNCHANGED accessCopy
    BY <1>1, <2>1 DEF CopySound
  <2>2. CASE requests[r].place = "keep" /\ accessCopy' = Kept(requests[r].list)
    <3>1. accessCopy'.list = requests[r].list /\ accessCopy'.left = AccessTTL
      BY <2>2 DEF Kept
    <3>2. \/ requests[r].list = wallets
          \/ \E f \in formerWallets : f.list = requests[r].list /\ f.ticks = 0
      BY <2>2 DEF ReadsSound
    <3> QED BY <1>1, <3>1, <3>2 DEF CopySound
  <2> QED BY <1>1, <2>1, <2>2
<1>8. ReadsSound'
  BY <1>1, <1>4 DEF ReadsSound
<1>9. EmptySound'
  <2>1. ASSUME definition'.answer = "empty"
        PROVE  definition'.left > 0 /\ lastEmpty' + definition'.left <= DefinitionTTL
    <3>1. CASE UNCHANGED definition
      BY <1>1, <1>2, <2>1, <3>1 DEF EmptySound
    <3>2. CASE requests[r].place = "set" /\ definition' = KeptAnswer(requests[r].answer)
      <4>1. requests[r].answer = "empty" /\ definition'.left = DefinitionTTL
        BY <2>1, <3>2 DEF KeptAnswer
      <4>2. lastEmpty = 0
        BY <3>2, <4>1 DEF EmptySound
      <4>3. lastEmpty' = 0
        BY <1>1, <4>2
      <4> QED BY <4>1, <4>3
    <3> QED BY <1>1, <3>1, <3>2
  <2>2. ASSUME NEW q \in Requests, requests'[q].place = "set", requests'[q].answer = "empty"
        PROVE  lastEmpty' = 0
    <3>1. CASE q = r
      BY <1>1, <1>4, <2>2, <3>1
    <3>2. CASE q # r
      <4>1. lastEmpty = 0
        BY <1>4, <2>2, <3>2 DEF EmptySound
      <4> QED BY <1>1, <4>1
    <3> QED BY <3>1, <3>2
  <2> QED BY <2>1, <2>2 DEF EmptySound
<1> QED BY <1>5, <1>6, <1>7, <1>8, <1>9

-----------------------------------------------------------------------------
(* Edits of the table, and time.                                           *)

LEMMA EditAccessKeepsInv == ServicesInv /\ EditAccess => ServicesInv'
<1> SUFFICES ASSUME ServicesInv, EditAccess PROVE ServicesInv'
  OBVIOUS
<1> USE AccessAssumption DEF ServicesInv
<1>1. /\ wallets' \in SUBSET Wallets
      /\ formerWallets' = formerWallets \cup {[list |-> wallets, ticks |-> 0]}
      /\ UNCHANGED <<accessCopy, token, renewing, jobs, requests, definition, lastEmpty>>
  BY DEF EditAccess, ChangeAccess
<1>2. ServicesTypeOK'
  BY <1>1 DEF ServicesTypeOK
<1>3. OneValidToken' /\ RenewalsExclude' /\ EmptySound'
  BY <1>1 DEF OneValidToken, RenewalsExclude, EmptySound
<1> DEFINE former == [list |-> wallets, ticks |-> 0]
<1>4. former \in formerWallets' /\ former.list = wallets /\ former.ticks = 0
  BY <1>1
<1>5. formerWallets \subseteq formerWallets'
  BY <1>1
<1> HIDE DEF former
<1>6. CopySound'
  <2> SUFFICES ASSUME accessCopy.left > 0
               PROVE  \E f \in formerWallets' :
                        /\ f.list = accessCopy.list
                        /\ f.ticks + accessCopy.left <= AccessTTL
    BY <1>1 DEF CopySound
  <2>1. CASE accessCopy.list = wallets
    <3>1. accessCopy.left \in 0..AccessTTL
      BY DEF ServicesTypeOK
    <3> QED BY <1>4, <2>1, <3>1
  <2>2. CASE accessCopy.list # wallets
    BY <1>5, <2>2 DEF CopySound
  <2> QED BY <2>1, <2>2
<1>7. ReadsSound'
  <2> SUFFICES ASSUME NEW r \in Requests, requests[r].place = "keep"
               PROVE  \E f \in formerWallets' :
                        f.list = requests[r].list /\ f.ticks = 0
    BY <1>1 DEF ReadsSound
  <2>1. CASE requests[r].list = wallets
    BY <1>4, <2>1
  <2>2. CASE requests[r].list # wallets
    BY <1>5, <2>2 DEF ReadsSound
  <2> QED BY <2>1, <2>2
<1> QED BY <1>2, <1>3, <1>6, <1>7

LEMMA TickKeepsInv == ServicesInv /\ Tick => ServicesInv'
<1> SUFFICES ASSUME ServicesInv, Tick PROVE ServicesInv'
  OBVIOUS
<1> USE LifetimeAssumption, AccessAssumption, DefinitionAssumption DEF ServicesInv
<1>1. /\ \A r \in Requests : requests[r].place \notin {"keep", "set"}
      /\ token' = [token EXCEPT !.left = Older(@)] /\ UNCHANGED renewing
      /\ jobs' = [j \in Jobs |-> [jobs[j] EXCEPT !.left = Older(@)]]
      /\ UNCHANGED <<requests, wallets>>
  BY DEF Tick, TokenTick, AccessTick
<1>2. /\ accessCopy' = IF accessCopy.left <= 1 THEN NoCopy
                       ELSE [accessCopy EXCEPT !.left = @ - 1]
      /\ formerWallets' = {[f EXCEPT !.ticks = @ + 1] :
                             f \in {g \in formerWallets : g.ticks < AccessTTL - 1}}
  BY DEF Tick, AccessTick
<1>3. /\ definition' = IF definition.left <= 1 THEN NoAnswer
                       ELSE [definition EXCEPT !.left = @ - 1]
      /\ lastEmpty' = IF lastEmpty = DefinitionTTL THEN lastEmpty ELSE lastEmpty + 1
  BY DEF Tick
<1>4. /\ token \in Token /\ renewing \subseteq Jobs
      /\ jobs \in [Jobs -> [place : JobPlaces, left : 0..Lifetime]]
      /\ accessCopy \in [list : SUBSET Wallets, left : 0..AccessTTL]
      /\ formerWallets \subseteq [list : SUBSET Wallets, ticks : 0..AccessTTL - 1]
      /\ definition \in [answer : Answers \cup {"none"}, left : 0..DefinitionTTL]
      /\ lastEmpty \in 0..DefinitionTTL
  BY DEF ServicesTypeOK
<1>5. \A n \in 0..Lifetime : Older(n) \in 0..Lifetime /\ (Older(n) > 0 => n > 0)
  BY DEF Older
<1>6. ServicesTypeOK'
  <2>1. token' \in Token
    BY <1>1, <1>4, <1>5 DEF Token
  <2>2. jobs' \in [Jobs -> [place : JobPlaces, left : 0..Lifetime]]
    BY <1>1, <1>4, <1>5
  <2>3. accessCopy' \in [list : SUBSET Wallets, left : 0..AccessTTL]
    BY <1>2, <1>4 DEF NoCopy
  <2>4. formerWallets' \subseteq [list : SUBSET Wallets, ticks : 0..AccessTTL - 1]
    BY <1>2, <1>4
  <2>5. definition' \in [answer : Answers \cup {"none"}, left : 0..DefinitionTTL]
    BY <1>3, <1>4 DEF NoAnswer
  <2>6. lastEmpty' \in 0..DefinitionTTL
    BY <1>3, <1>4
  <2> QED BY <1>1, <2>1, <2>2, <2>3, <2>4, <2>5, <2>6 DEF ServicesTypeOK
<1>7. OneValidToken'
  <2> SUFFICES ASSUME NEW j \in Jobs, jobs'[j].place = "decode", jobs'[j].left > 0
               PROVE  token'.kept /\ token'.left = jobs'[j].left
    BY DEF OneValidToken
  <2>1. jobs[j].place = "decode" /\ jobs'[j].left = Older(jobs[j].left)
    BY <1>1, <1>4
  <2>2. jobs[j].left > 0
    BY <1>4, <1>5, <2>1
  <2>3. token.kept /\ token.left = jobs[j].left
    BY <2>1, <2>2 DEF OneValidToken
  <2>4. token'.kept = token.kept /\ token'.left = Older(token.left)
    BY <1>1, <1>4 DEF Token
  <2> QED BY <2>1, <2>3, <2>4
<1>8. RenewalsExclude'
  <2>1. \A j \in Jobs : jobs'[j].place = jobs[j].place
    BY <1>1, <1>4
  <2>2. token = NoToken => token' = NoToken
    BY <1>1 DEF NoToken, Older
  <2> QED BY <1>1, <2>1, <2>2 DEF RenewalsExclude
<1>9. CopySound'
  <2> SUFFICES ASSUME accessCopy'.left > 0
               PROVE  \/ accessCopy'.list = wallets
                      \/ \E f \in formerWallets' :
                           /\ f.list = accessCopy'.list
                           /\ f.ticks + accessCopy'.left <= AccessTTL
    BY <1>1 DEF CopySound
  <2>1. /\ accessCopy.left > 1 /\ accessCopy'.list = accessCopy.list
        /\ accessCopy'.left = accessCopy.left - 1
    BY <1>2, <1>4 DEF NoCopy
  <2>2. CASE accessCopy.list = wallets
    BY <2>1, <2>2
  <2>3. CASE \E f \in formerWallets :
               f.list = accessCopy.list /\ f.ticks + accessCopy.left <= AccessTTL
    <3>1. PICK f \in formerWallets :
            f.list = accessCopy.list /\ f.ticks + accessCopy.left <= AccessTTL
      BY <2>3
    <3>2. f.ticks \in Nat /\ f.ticks < AccessTTL - 1
      BY <1>4, <2>1, <3>1
    <3> DEFINE older == [f EXCEPT !.ticks = @ + 1]
    <3>3. older \in formerWallets'
      BY <1>2, <3>2
    <3>4. older.list = f.list /\ older.ticks = f.ticks + 1
      BY <1>4
    <3> HIDE DEF older
    <3> QED BY <1>4, <2>1, <3>1, <3>2, <3>3, <3>4
  <2> QED BY <1>4, <2>1, <2>2, <2>3 DEF CopySound
<1>10. ReadsSound'
  BY <1>1 DEF ReadsSound
<1>11. EmptySound'
  <2>1. ASSUME definition'.answer = "empty"
        PROVE  definition'.left > 0 /\ lastEmpty' + definition'.left <= DefinitionTTL
    <3>1. /\ definition.left > 1 /\ definition.answer = "empty"
          /\ definition'.left = definition.left - 1
      BY <1>3, <1>4, <2>1 DEF NoAnswer
    <3>2. lastEmpty + definition.left <= DefinitionTTL
      BY <3>1 DEF EmptySound
    <3> QED BY <1>3, <1>4, <3>1, <3>2
  <2> QED BY <1>1, <2>1 DEF EmptySound
<1> QED BY <1>6, <1>7, <1>8, <1>9, <1>10, <1>11

-----------------------------------------------------------------------------
(* The specification.                                                      *)

LEMMA ServicesNextInv == ServicesInv /\ [ServicesNext]_serviceVars => ServicesInv'
<1> SUFFICES ASSUME ServicesInv, [ServicesNext]_serviceVars PROVE ServicesInv'
  OBVIOUS
<1>1. CASE ServicesNext
  BY <1>1, VerifyStepKeepsInv, RequestStepKeepsInv, EditAccessKeepsInv, TickKeepsInv
    DEF ServicesNext
<1>2. CASE UNCHANGED serviceVars
  BY <1>2 DEF serviceVars, ServicesInv, ServicesTypeOK, OneValidToken, RenewalsExclude,
    CopySound, ReadsSound, EmptySound
<1> QED BY <1>1, <1>2

\* The inductive invariant holds.
THEOREM ServicesInvariantHolds == ServicesSpec => []ServicesInv
<1> QED BY ServicesInitInv, ServicesNextInv, PTL DEF ServicesSpec

\* The variables have their types, and no copy outlives its time (Services).
THEOREM ServicesTypeCorrect == ServicesSpec => []ServicesTypeOK
<1>1. ServicesInv => ServicesTypeOK
  BY DEF ServicesInv
<1> QED BY <1>1, ServicesInvariantHolds, PTL

\* GetToken never replaces a token that is still valid (dimo_auth.go:45).
THEOREM TokensAreKept == ServicesSpec => []OneValidToken
<1>1. ServicesInv => OneValidToken
  BY DEF ServicesInv
<1> QED BY <1>1, ServicesInvariantHolds, PTL

\* An empty definition is served for as long as a copy lives at most
\* (identity_api.go:143).
THEOREM EmptyDefinitionsExpire == ServicesSpec => []EmptyOnlyRecently
<1>1. ServicesInv => EmptyOnlyRecently
  BY DefinitionAssumption DEF ServicesInv, ServicesTypeOK, EmptySound, EmptyOnlyRecently
<1> QED BY <1>1, ServicesInvariantHolds, PTL

\* Whoever is admitted was allowed by the table within the life of a copy, in
\* whatever order requests read the table and keep what they read (access.go:30).
THEOREM AdmissionsAreRecent == ServicesSpec => AdmittedRecently
<1> DEFINE Admissions ==
      \A r \in Requests :
        requests[r].place # "ask" /\ requests'[r].place = "ask"
          => \E list \in RecentLists : Allowed(list, requests'[r].wallet)
<1>1. ASSUME ServicesInv, ServicesNext PROVE Admissions
  <2> SUFFICES ASSUME NEW r \in Requests,
                      requests[r].place # "ask", requests'[r].place = "ask"
               PROVE  \E list \in RecentLists : Allowed(list, requests'[r].wallet)
    OBVIOUS
  <2>1. requests \in [Requests -> RequestType]
    BY <1>1 DEF ServicesInv, ServicesTypeOK, RequestType
  <2>2. RequestStep(r)
    <3>1. requests' # requests
      OBVIOUS
    <3>2. PICK q \in Requests : RequestStep(q)
      BY <1>1, <3>1 DEF ServicesNext, VerifyStep, EditAccess, Tick
    <3>3. \E new \in RequestType : requests' = [requests EXCEPT ![q] = new]
      BY <1>1, <3>2, RequestMoves DEF ServicesInv, Keeps
    <3> QED BY <2>1, <3>2, <3>3
  <2>3. PICK new \in RequestType : Keeps(r, new)
    BY <1>1, <2>2, RequestMoves DEF ServicesInv
  <2>4. requests'[r] = new
    BY <2>1, <2>3 DEF Keeps
  <2>5. CASE accessCopy.left > 0 /\ Allowed(accessCopy.list, new.wallet)
    <3>1. accessCopy.list \in RecentLists
      BY <1>1, <2>5 DEF ServicesInv, CopySound, RecentLists
    <3> QED BY <2>4, <2>5, <3>1
  <2>6. CASE requests[r].place = "keep" /\ Allowed(requests[r].list, new.wallet)
    <3>1. requests[r].list \in RecentLists
      BY <1>1, <2>6 DEF ServicesInv, ReadsSound, RecentLists
    <3> QED BY <2>4, <2>6, <3>1
  <2> QED BY <2>3, <2>4, <2>5, <2>6 DEF Keeps
<1>2. ServicesInv /\ [ServicesNext]_serviceVars => [Admissions]_serviceVars
  BY <1>1
<1> QED BY <1>2, ServicesInvariantHolds, PTL DEF ServicesSpec, AdmittedRecently
=============================================================================
