--------------------------- MODULE LifecycleProofs ---------------------------
(***************************************************************************)
(* Onboarding implements VehicleLifecycle for clients that wait for their  *)
(* jobs, when nothing fails.  By SInv, the tokens that live for a VIN are  *)
(* those of the worker's copy while a worker has the VIN in hand, and      *)
(* those of its row otherwise; so each step is followed on the copies and  *)
(* the rows alone.                                                         *)
(***************************************************************************)
EXTENDS SerialProofs

\* What a row or a copy of it says of the tokens.
TokensOf(row) == [known |-> TRUE, veh |-> row.veh, sd |-> row.sd]

LEMMA TheOnlyOne ==
  ASSUME NEW id
  PROVE  TheOnly({}) = 0 /\ TheOnly({id}) = id
BY DEF TheOnly

\* A sound copy that names the live tokens of a VIN says what is held for it.
LEMMA HeldIsNamed ==
  ASSUME ChainFits, NEW v \in Vins, NEW row, Names(v, row),
         Sound(v, row, vehicles, sds)
  PROVE  Held(v) = TokensOf(row)
<1> DEFINE live    == {x.id : x \in {y \in vehicles : y.vin = v /\ LiveVehicle(y.id)}}
           liveSDs == {x.id : x \in {y \in sds : y.vin = v /\ LiveSD(y.id)}}
<1>1. live = IF row.veh = 0 THEN {} ELSE {row.veh}
  <2>1. \A id \in live : id = row.veh /\ id # 0
    BY DEF Names, ChainFits
  <2>2. ASSUME row.veh # 0 PROVE row.veh \in live
    <3>1. PICK x : x \in vehicles /\ x.vin = v /\ x.id = row.veh
      <4>1. [id |-> row.veh, vin |-> v] \in vehicles
        BY <2>2 DEF Sound
      <4> QED
        BY <4>1
    <3> QED
      BY <3>1 DEF Names
  <2> QED
    BY <2>1, <2>2
<1>2. liveSDs = IF row.sd = 0 THEN {} ELSE {row.sd}
  <2>1. \A id \in liveSDs : id = row.sd /\ id # 0
    BY DEF Names, ChainFits
  <2>2. ASSUME row.sd # 0 PROVE row.sd \in liveSDs
    <3>1. PICK x : x \in sds /\ x.vin = v /\ x.id = row.sd
      BY <2>2 DEF Sound
    <3> QED
      BY <3>1 DEF Names
  <2> QED
    BY <2>1, <2>2
<1>3. TheOnly(live) = row.veh /\ TheOnly(liveSDs) = row.sd
  BY <1>1, <1>2, TheOnlyOne
<1> QED
  BY <1>3 DEF Held, TokensOf

\* Whoever works on a VIN knows what is held for it.
LEMMA HeldInHand ==
  ASSUME IInv, SInv, NEW j \in Jobs, Running(j), NEW v, v = jobs[j].vin
  PROVE  v \in Vins /\ Held(v) = TokensOf(jobs[j].record)
<1>1. v \in Vins /\ Working(jobs[j])
  BY Alone DEF IInv
<1>2. Names(v, jobs[j].record) /\ Sound(v, jobs[j].record, vehicles, sds)
  BY <1>1 DEF Working, IInv, JobsSound
<1> QED
  BY <1>1, <1>2, HeldIsNamed DEF SInv

\* What the two of them and the rows say of the tokens that live.
HeldTracked ==
  /\ \A j \in Jobs : Running(j) => Held(jobs[j].vin) = TokensOf(jobs[j].record)
  /\ \A v \in Vins : (\A j \in Jobs : Running(j) => jobs[j].vin # v)
                       => Held(v) = TokensOf(vins[v])

LEMMA HeldIsTracked == IInv /\ SInv => HeldTracked
<1>1. ASSUME IInv, SInv, NEW v \in Vins, \A j \in Jobs : Running(j) => jobs[j].vin # v
      PROVE  Held(v) = TokensOf(vins[v])
  BY <1>1, HeldIsNamed DEF IInv, RowsSound, SInv, RowFits
<1> QED
  BY <1>1, HeldInHand DEF HeldTracked

-----------------------------------------------------------------------------
(* Steps.                                                                  *)

\* The steps of the lifecycle, as they are seen by one VIN: its tokens h and
\* what is recorded of them, r, before and after, and the tokens minted.
Quiescent(h, hh, r, rr) == hh = h /\ rr = r
Learns(h, hh, r, rr)    == /\ r = [known |-> FALSE, veh |-> 0, sd |-> 0]
                           /\ rr = [known |-> TRUE, veh |-> 0, sd |-> 0]
                           /\ hh = h
Records(h, hh, r, rr)   == r.known /\ hh = h /\ rr = h

\* A step that touches one VIN, and mints nothing, follows the lifecycle if
\* that VIN sees nothing, or its row made, or its row brought up to date.
LEMMA OneVinFollows ==
  ASSUME NEW v \in Vins,
         \A w \in Vins \ {v} : Held(w)' = Held(w) /\ Recorded(w)' = Recorded(w),
         seq'.vehicle = seq.vehicle, seq'.sd = seq.sd,
         \/ Quiescent(Held(v), Held(v)', Recorded(v), Recorded(v)')
         \/ Learns(Held(v), Held(v)', Recorded(v), Recorded(v)')
         \/ Records(Held(v), Held(v)', Recorded(v), Recorded(v)')
  PROVE  [Lifecycle!LifecycleNext]_(Lifecycle!lifecycle)
<1> DEFINE held     == [w \in Vins |-> Held(w)]
           recorded == [w \in Vins |-> Recorded(w)]
           minted   == [veh |-> seq.vehicle - 1, sd |-> seq.sd - 1]
<1>1. minted' = minted
  OBVIOUS
<1>2. CASE Quiescent(Held(v), Held(v)', Recorded(v), Recorded(v)')
  <2>1. held' = held /\ recorded' = recorded
    BY <1>2 DEF Quiescent
  <2> QED
    BY <1>1, <2>1 DEF Lifecycle!lifecycle
<1>3. CASE Learns(Held(v), Held(v)', Recorded(v), Recorded(v)')
  <2>1. held' = held
    BY <1>3 DEF Learns
  <2>2. recorded' = [recorded EXCEPT ![v] = [known |-> TRUE, veh |-> 0, sd |-> 0]]
    BY <1>3 DEF Learns
  <2>3. recorded[v] = [known |-> FALSE, veh |-> 0, sd |-> 0]
    BY <1>3 DEF Learns
  <2>4. Lifecycle!Learn(v)
    BY <1>1, <2>1, <2>2, <2>3 DEF Lifecycle!Learn, Lifecycle!Unknown, Lifecycle!None
  <2> QED
    BY <2>4 DEF Lifecycle!LifecycleNext
<1>4. CASE Records(Held(v), Held(v)', Recorded(v), Recorded(v)')
  <2>1. held' = held
    BY <1>4 DEF Records
  <2>2. recorded' = [recorded EXCEPT ![v] = held[v]]
    BY <1>4 DEF Records
  <2>3. CASE recorded[v] = held[v]
    <3>1. recorded' = recorded
      BY <2>2, <2>3
    <3> QED
      BY <1>1, <2>1, <3>1 DEF Lifecycle!lifecycle
  <2>4. CASE recorded[v] # held[v]
    <3>1. recorded[v] # Lifecycle!Unknown
      BY <1>4 DEF Records, Lifecycle!Unknown, Lifecycle!None
    <3>2. Lifecycle!Record(v)
      BY <1>1, <2>1, <2>2, <2>4, <3>1 DEF Lifecycle!Record
    <3> QED
      BY <3>2 DEF Lifecycle!LifecycleNext
  <2> QED
    BY <2>3, <2>4
<1> QED
  BY <1>2, <1>3, <1>4

\* Mints and burns as the VIN sees them: what was held was recorded, nothing
\* is recorded of what is held now, and the counters move as far as they do.
LEMMA ChainFollows ==
  ASSUME TypeOK, NEW v \in Vins,
         \A w \in Vins \ {v} : Held(w)' = Held(w) /\ Recorded(w)' = Recorded(w),
         Recorded(v) = Held(v), Recorded(v)' = Recorded(v),
         NEW veh, NEW sd, Held(v) = [known |-> TRUE, veh |-> veh, sd |-> sd],
         \/ /\ veh = 0
            /\ Held(v)' = [known |-> TRUE, veh |-> seq.vehicle, sd |-> seq.sd]
            /\ seq'.vehicle = seq.vehicle + 1 /\ seq'.sd = seq.sd + 1
         \/ /\ veh # 0 /\ sd = 0
            /\ Held(v)' = [known |-> TRUE, veh |-> veh, sd |-> seq.sd]
            /\ seq'.vehicle = seq.vehicle /\ seq'.sd = seq.sd + 1
         \/ /\ sd # 0
            /\ Held(v)' = [known |-> TRUE, veh |-> veh, sd |-> 0]
            /\ seq'.vehicle = seq.vehicle /\ seq'.sd = seq.sd
         \/ /\ veh # 0 /\ sd = 0
            /\ Held(v)' = [known |-> TRUE, veh |-> 0, sd |-> 0]
            /\ seq'.vehicle = seq.vehicle /\ seq'.sd = seq.sd
  PROVE  [Lifecycle!LifecycleNext]_(Lifecycle!lifecycle)
<1> DEFINE h        == [known |-> TRUE, veh |-> veh, sd |-> sd]
           held     == [w \in Vins |-> Held(w)]
           recorded == [w \in Vins |-> Recorded(w)]
           minted   == [veh |-> seq.vehicle - 1, sd |-> seq.sd - 1]
<1>1. recorded' = recorded /\ recorded[v] = held[v] /\ held[v] = h
  OBVIOUS
<1>2. seq.vehicle \in Nat /\ seq.sd \in Nat
  BY DEF TypeOK
<1>3. held' = [held EXCEPT ![v] = Held(v)']
  OBVIOUS
<1>10. PICK g : g = held[v]
  OBVIOUS
<1>11. g = [known |-> TRUE, veh |-> veh, sd |-> sd]
  BY <1>1, <1>10
<1>12. ASSUME NEW x
       PROVE  /\ [g EXCEPT !.sd = x] = [known |-> TRUE, veh |-> veh, sd |-> x]
              /\ [g EXCEPT !.veh = x] = [known |-> TRUE, veh |-> x, sd |-> sd]
  <2>1. [g EXCEPT !.sd = x] = [known |-> TRUE, veh |-> veh, sd |-> x]
    <3>1. PICK t : t = [g EXCEPT !.sd = x]
      OBVIOUS
    <3>2. t.known = TRUE /\ t.veh = veh /\ t.sd = x
      BY <1>11, <3>1
    <3>3. t \in [known : {TRUE}, veh : {veh}, sd : {x}]
      BY <1>11, <3>1
    <3>4. t = [known |-> TRUE, veh |-> veh, sd |-> x]
      BY <3>2, <3>3
    <3> QED
      BY <3>1, <3>4
  <2>2. [g EXCEPT !.veh = x] = [known |-> TRUE, veh |-> x, sd |-> sd]
    <3>1. PICK t : t = [g EXCEPT !.veh = x]
      OBVIOUS
    <3>2. t.known = TRUE /\ t.veh = x /\ t.sd = sd
      BY <1>11, <3>1
    <3>3. t \in [known : {TRUE}, veh : {x}, sd : {sd}]
      BY <1>11, <3>1
    <3>4. t = [known |-> TRUE, veh |-> x, sd |-> sd]
      BY <3>2, <3>3
    <3> QED
      BY <3>1, <3>4
  <2> QED
    BY <2>1, <2>2
<1>9. ASSUME NEW x, Held(v)' = x PROVE held' = [held EXCEPT ![v] = x]
  BY <1>3, <1>9
<1>4. minted.veh + 1 = seq.vehicle /\ minted.sd + 1 = seq.sd
  BY <1>2
<1>5. CASE /\ veh = 0
           /\ Held(v)' = [known |-> TRUE, veh |-> seq.vehicle, sd |-> seq.sd]
           /\ seq'.vehicle = seq.vehicle + 1 /\ seq'.sd = seq.sd + 1
  <2>1. minted' = [veh |-> minted.veh + 1, sd |-> minted.sd + 1]
    BY <1>2, <1>5
  <2>5. [g EXCEPT !.veh = minted.veh + 1, !.sd = minted.sd + 1]
          = [known |-> TRUE, veh |-> seq.vehicle, sd |-> seq.sd]
    <3>1. PICK t : t = [g EXCEPT !.veh = minted.veh + 1, !.sd = minted.sd + 1]
      OBVIOUS
    <3>2. t.known = TRUE /\ t.veh = seq.vehicle /\ t.sd = seq.sd
      BY <1>4, <1>11, <3>1
    <3>3. t \in [known : {TRUE}, veh : {seq.vehicle}, sd : {seq.sd}]
      BY <1>4, <1>11, <3>1
    <3>4. t = [known |-> TRUE, veh |-> seq.vehicle, sd |-> seq.sd]
      BY <3>2, <3>3
    <3> QED
      BY <3>1, <3>4
  <2>2. Held(v)' = [g EXCEPT !.veh = minted.veh + 1, !.sd = minted.sd + 1]
    BY <1>5, <2>5
  <2>3. held' = [held EXCEPT ![v] = [held[v] EXCEPT !.veh = minted.veh + 1,
                                                    !.sd = minted.sd + 1]]
    BY <1>9, <1>10, <2>2
  <2>4. Lifecycle!Mint(v)
    BY <1>1, <1>5, <2>1, <2>3 DEF Lifecycle!Mint, Lifecycle!OnChain
  <2> QED
    BY <2>4 DEF Lifecycle!LifecycleNext
<1>6. CASE /\ veh # 0 /\ sd = 0
           /\ Held(v)' = [known |-> TRUE, veh |-> veh, sd |-> seq.sd]
           /\ seq'.vehicle = seq.vehicle /\ seq'.sd = seq.sd + 1
  <2>1. minted' = [minted EXCEPT !.sd = @ + 1]
    BY <1>2, <1>6
  <2>2. held' = [held EXCEPT ![v] = [held[v] EXCEPT !.sd = minted.sd + 1]]
    <3>1. Held(v)' = [g EXCEPT !.sd = minted.sd + 1]
      BY <1>12, <1>4, <1>6
    <3> QED
      BY <1>9, <1>10, <3>1
  <2>3. Lifecycle!MintSDAgain(v)
    BY <1>1, <1>6, <2>1, <2>2 DEF Lifecycle!MintSDAgain, Lifecycle!OnChain
  <2> QED
    BY <2>3 DEF Lifecycle!LifecycleNext
<1>7. CASE /\ sd # 0
           /\ Held(v)' = [known |-> TRUE, veh |-> veh, sd |-> 0]
           /\ seq'.vehicle = seq.vehicle /\ seq'.sd = seq.sd
  <2>1. minted' = minted
    BY <1>7
  <2>2. held' = [held EXCEPT ![v] = [held[v] EXCEPT !.sd = 0]]
    <3>1. Held(v)' = [g EXCEPT !.sd = 0]
      BY <1>12, <1>7
    <3> QED
      BY <1>9, <1>10, <3>1
  <2>3. Lifecycle!BurnSD(v)
    BY <1>1, <1>7, <2>1, <2>2 DEF Lifecycle!BurnSD, Lifecycle!OnChain
  <2> QED
    BY <2>3 DEF Lifecycle!LifecycleNext
<1>8. CASE /\ veh # 0 /\ sd = 0
           /\ Held(v)' = [known |-> TRUE, veh |-> 0, sd |-> 0]
           /\ seq'.vehicle = seq.vehicle /\ seq'.sd = seq.sd
  <2>1. minted' = minted
    BY <1>8
  <2>2. held' = [held EXCEPT ![v] = [held[v] EXCEPT !.veh = 0]]
    <3>1. Held(v)' = [g EXCEPT !.veh = 0]
      BY <1>12, <1>8
    <3> QED
      BY <1>9, <1>10, <3>1
  <2>3. Lifecycle!BurnVehicle(v)
    BY <1>1, <1>8, <2>1, <2>2 DEF Lifecycle!BurnVehicle, Lifecycle!OnChain
  <2> QED
    BY <2>3 DEF Lifecycle!LifecycleNext
<1> QED
  BY <1>5, <1>6, <1>7, <1>8

-----------------------------------------------------------------------------
(* What a worker's step looks like from the VINs.                          *)

\* A step of the worker of j, or of what hands j to it, in which it has v in
\* hand, and nothing else moves; and the tokens that whoever has v in hand
\* knows of, before or after it.
Works(j, v) ==
  /\ Pending(j) /\ v = jobs[j].vin
  /\ \A i \in Jobs \ {j} : jobs'[i] = jobs[i]
  /\ Running(j)' => jobs'[j].vin = v
  /\ \A w \in Vins \ {v} : vins'[w] = vins[w]
Knows(j, v, veh, sd) ==
  /\ Running(j) => jobs[j].record.veh = veh /\ jobs[j].record.sd = sd
  /\ ~Running(j) => vins[v].veh = veh /\ vins[v].sd = sd

\* The other VINs see nothing of it.
LEMMA OthersSeeNothing ==
  ASSUME HeldTracked, HeldTracked', NEW j \in Jobs, NEW v \in Vins, Works(j, v)
  PROVE  \A w \in Vins \ {v} : Held(w)' = Held(w) /\ Recorded(w)' = Recorded(w)
<1> SUFFICES ASSUME NEW w \in Vins \ {v}
             PROVE  Held(w)' = Held(w) /\ Recorded(w)' = Recorded(w)
  OBVIOUS
<1>1. Recorded(w)' = Recorded(w)
  BY DEF Recorded, Works
<1>2. CASE \E i \in Jobs : Running(i) /\ jobs[i].vin = w
  <2>1. PICK i \in Jobs : Running(i) /\ jobs[i].vin = w
    BY <1>2
  <2>2. jobs'[i] = jobs[i] /\ Running(i)'
    BY <2>1 DEF Running, Pending, Works
  <2>3. Held(w) = TokensOf(jobs[i].record)
    BY <2>1 DEF HeldTracked
  <2>4. (Held(w) = TokensOf(jobs[i].record))'
    BY <2>1, <2>2 DEF HeldTracked
  <2> QED
    BY <1>1, <2>2, <2>3, <2>4 DEF TokensOf
<1>3. CASE \A i \in Jobs : Running(i) => jobs[i].vin # w
  <2>1. Held(w) = TokensOf(vins[w])
    BY <1>3 DEF HeldTracked
  <2>2. \A i \in Jobs : (Running(i) => jobs[i].vin # w)'
    BY <1>3 DEF Running, Pending, Works
  <2>3. (Held(w) = TokensOf(vins[w]))'
    BY <2>2 DEF HeldTracked
  <2> QED
    BY <1>1, <2>1, <2>3 DEF TokensOf, Works
<1> QED
  BY <1>2, <1>3

\* Nobody else has it in hand, so what is held is what its worker knows.
LEMMA HeldIsKnown ==
  ASSUME SInv, HeldTracked, HeldTracked', NEW j \in Jobs, NEW v \in Vins, Works(j, v),
         NEW veh, NEW sd
  PROVE  /\ Knows(j, v, veh, sd) => Held(v) = [known |-> TRUE, veh |-> veh, sd |-> sd]
         /\ Knows(j, v, veh, sd)'
              => Held(v)' = [known |-> TRUE, veh |-> veh, sd |-> sd]
<1>1. \A i \in Jobs \ {j} : Running(i) => jobs[i].vin # v
  BY DEF SInv, OneAtATime, Works, Running
<1>2. \A i \in Jobs \ {j} : Running(i)' => jobs'[i].vin # v
  BY <1>1 DEF Works, Running, Pending
<1>3. ASSUME Knows(j, v, veh, sd)
      PROVE  Held(v) = [known |-> TRUE, veh |-> veh, sd |-> sd]
  <2>1. CASE Running(j)
    <3>1. Held(v) = TokensOf(jobs[j].record)
      BY <2>1 DEF HeldTracked, Works
    <3> QED
      BY <1>3, <2>1, <3>1 DEF TokensOf, Knows
  <2>2. CASE ~Running(j)
    <3>1. Held(v) = TokensOf(vins[v])
      BY <1>1, <2>2 DEF HeldTracked
    <3> QED
      BY <1>3, <2>2, <3>1 DEF TokensOf, Knows
  <2> QED
    BY <2>1, <2>2
<1>4. ASSUME Knows(j, v, veh, sd)'
      PROVE  Held(v)' = [known |-> TRUE, veh |-> veh, sd |-> sd]
  <2>1. CASE Running(j)'
    <3>1. jobs'[j].vin = v
      BY <2>1 DEF Works
    <3>2. Held(v)' = TokensOf(jobs'[j].record)
      BY <2>1, <3>1 DEF HeldTracked, TokensOf
    <3> QED
      BY <1>4, <2>1, <3>2 DEF TokensOf, Knows
  <2>2. CASE ~Running(j)'
    <3>1. Held(v)' = TokensOf(vins'[v])
      BY <1>2, <2>2 DEF HeldTracked, TokensOf
    <3> QED
      BY <1>4, <2>2, <3>1 DEF TokensOf, Knows
  <2> QED
    BY <2>1, <2>2
<1> QED
  BY <1>3, <1>4

\* A worker that goes on knowing the same tokens, and leaves the row's as they
\* are, or makes the row, or saves what it knows.
LEMMA TableFollows ==
  ASSUME TypeOK, TypeOK', SInv, HeldTracked, HeldTracked', NEW j \in Jobs,
         NEW v \in Vins, Works(j, v), NEW veh, NEW sd,
         Knows(j, v, veh, sd), Knows(j, v, veh, sd)',
         seq'.vehicle = seq.vehicle, seq'.sd = seq.sd,
         \/ /\ vins'[v].present = vins[v].present
            /\ vins'[v].veh = vins[v].veh /\ vins'[v].sd = vins[v].sd
         \/ /\ ~vins[v].present /\ vins[v].veh = 0 /\ vins[v].sd = 0
            /\ vins'[v].present /\ vins'[v].veh = 0 /\ vins'[v].sd = 0
         \/ /\ vins[v].present /\ vins'[v].present
            /\ vins'[v].veh = veh /\ vins'[v].sd = sd
  PROVE  [Lifecycle!LifecycleNext]_(Lifecycle!lifecycle)
<1>1. \A w \in Vins \ {v} : Held(w)' = Held(w) /\ Recorded(w)' = Recorded(w)
  BY OthersSeeNothing
<1>2. /\ Held(v) = [known |-> TRUE, veh |-> veh, sd |-> sd]
      /\ Held(v)' = [known |-> TRUE, veh |-> veh, sd |-> sd]
  BY HeldIsKnown
<1>3. vins[v].present \in BOOLEAN /\ vins'[v].present \in BOOLEAN
  BY DEF TypeOK, Row
<1>4. CASE /\ vins'[v].present = vins[v].present
           /\ vins'[v].veh = vins[v].veh /\ vins'[v].sd = vins[v].sd
  <2>1. Recorded(v)' = Recorded(v)
    BY <1>4 DEF Recorded
  <2>2. Quiescent(Held(v), Held(v)', Recorded(v), Recorded(v)')
    BY <1>2, <2>1 DEF Quiescent
  <2> QED
    BY <1>1, <2>2, OneVinFollows
<1>5. CASE /\ ~vins[v].present /\ vins[v].veh = 0 /\ vins[v].sd = 0
           /\ vins'[v].present /\ vins'[v].veh = 0 /\ vins'[v].sd = 0
  <2>1. /\ Recorded(v) = [known |-> FALSE, veh |-> 0, sd |-> 0]
        /\ Recorded(v)' = [known |-> TRUE, veh |-> 0, sd |-> 0]
    BY <1>3, <1>5 DEF Recorded
  <2>2. Learns(Held(v), Held(v)', Recorded(v), Recorded(v)')
    BY <1>2, <2>1 DEF Learns
  <2> QED
    BY <1>1, <2>2, OneVinFollows
<1>6. CASE /\ vins[v].present /\ vins'[v].present
           /\ vins'[v].veh = veh /\ vins'[v].sd = sd
  <2>1. Recorded(v).known /\ Recorded(v)' = [known |-> TRUE, veh |-> veh, sd |-> sd]
    BY <1>3, <1>6 DEF Recorded
  <2>2. Records(Held(v), Held(v)', Recorded(v), Recorded(v)')
    BY <1>2, <2>1 DEF Records
  <2> QED
    BY <1>1, <2>2, OneVinFollows
<1> QED
  BY <1>4, <1>5, <1>6

\* A worker that mints or burns: the row is up to date, and stays as it is.
LEMMA MintOrBurnFollows ==
  ASSUME TypeOK, SInv, HeldTracked, HeldTracked', NEW j \in Jobs, NEW v \in Vins,
         Works(j, v), NEW veh, NEW sd, Knows(j, v, veh, sd),
         NEW veh2, NEW sd2, Knows(j, v, veh2, sd2)',
         vins' = vins, vins[v].present, vins[v].veh = veh, vins[v].sd = sd,
         \/ /\ veh = 0 /\ veh2 = seq.vehicle /\ sd2 = seq.sd
            /\ seq'.vehicle = seq.vehicle + 1 /\ seq'.sd = seq.sd + 1
         \/ /\ veh # 0 /\ sd = 0 /\ veh2 = veh /\ sd2 = seq.sd
            /\ seq'.vehicle = seq.vehicle /\ seq'.sd = seq.sd + 1
         \/ /\ sd # 0 /\ veh2 = veh /\ sd2 = 0
            /\ seq'.vehicle = seq.vehicle /\ seq'.sd = seq.sd
         \/ /\ veh # 0 /\ sd = 0 /\ veh2 = 0 /\ sd2 = 0
            /\ seq'.vehicle = seq.vehicle /\ seq'.sd = seq.sd
  PROVE  [Lifecycle!LifecycleNext]_(Lifecycle!lifecycle)
<1>1. \A w \in Vins \ {v} : Held(w)' = Held(w) /\ Recorded(w)' = Recorded(w)
  BY OthersSeeNothing
<1>2. /\ Held(v) = [known |-> TRUE, veh |-> veh, sd |-> sd]
      /\ Held(v)' = [known |-> TRUE, veh |-> veh2, sd |-> sd2]
  BY HeldIsKnown
<1>3. Recorded(v)' = Recorded(v)
  BY DEF Recorded
<1>4. vins[v].present = TRUE
  BY DEF TypeOK, Row
<1>5. Recorded(v) = [known |-> TRUE, veh |-> veh, sd |-> sd]
  BY <1>4 DEF Recorded
<1> QED
  BY <1>1, <1>2, <1>3, <1>5, ChainFollows

-----------------------------------------------------------------------------
(* The steps of the workers.                                               *)

LEMMA PutWorks ==
  ASSUME TypeOK, NEW j \in Jobs, NEW v \in Vins, Pending(j), v = jobs[j].vin,
         NEW job, Put(j, job), job.at \notin {"none", "available", "ended"} => job.vin = v,
         \A w \in Vins \ {v} : vins'[w] = vins[w]
  PROVE  Works(j, v)
<1>1. jobs'[j] = job /\ \A i \in Jobs \ {j} : jobs'[i] = jobs[i]
  BY Puts
<1> QED
  BY <1>1 DEF Works, Running, Pending

\* A worker that does not run a job after it, but for another attempt of it,
\* or that runs it with the record rec.
LEMMA PutKnows ==
  ASSUME TypeOK, NEW j \in Jobs, NEW v \in Vins, NEW veh, NEW sd, NEW job, Put(j, job),
         \/ /\ job.at \in {"none", "available", "ended"}
            /\ vins'[v].veh = veh /\ vins'[v].sd = sd
         \/ /\ job.at \notin {"none", "available", "ended"}
            /\ job.record.veh = veh /\ job.record.sd = sd
  PROVE  Knows(j, v, veh, sd)'
<1>1. jobs'[j] = job
  BY Puts
<1> QED
  BY <1>1 DEF Knows, Running, Pending

LEMMA MoveWorks ==
  ASSUME TypeOK, NEW j \in Jobs, NEW v \in Vins, Pending(j), v = jobs[j].vin,
         NEW place, place \notin {"none", "available", "ended"}, NEW rec, Move(j, place, rec),
         \A w \in Vins \ {v} : vins'[w] = vins[w]
  PROVE  Works(j, v) /\ Knows(j, v, rec.veh, rec.sd)'
BY Moves DEF Works, Knows, Running, Pending

\* Work begins, or ends at once.
LEMMA StartFollows ==
  ASSUME SerialClients, TypeOK, TypeOK', SInv, HeldTracked, HeldTracked', NEW j \in Jobs,
         NEW kind, NEW place, place \notin {"none", "available", "ended"},
         StartOrEnd(j, kind, place)
  PROVE  [Lifecycle!LifecycleNext]_(Lifecycle!lifecycle)
<1>1. /\ jobs[j].at = "available" /\ vins' = vins /\ seq' = seq
      /\ \/ Put(j, Started(j, place, vins[jobs[j].vin]))
         \/ Put(j, Completed)
  BY DEF StartOrEnd, Start
<1>2. Pending(j) /\ ~Running(j) /\ jobs[j] \in Job
  BY <1>1 DEF Pending, Running, TypeOK
<1>3. PICK v \in Vins : v = jobs[j].vin
  BY <1>2 DEF Job
<1>4. PICK veh, sd : veh = vins[v].veh /\ sd = vins[v].sd
  OBVIOUS
<1>5. PICK job : /\ Put(j, job)
                 /\ job = Started(j, place, vins[v]) \/ job = Completed
  BY <1>1, <1>3
<1>6. CASE job = Started(j, place, vins[v])
  <2>1. job.at = place /\ job.record = vins[v] /\ job.vin = v
    BY <1>2, <1>3, <1>6 DEF Started, Job
  <2>2. Works(j, v) /\ Knows(j, v, veh, sd)'
    BY <1>1, <1>2, <1>3, <1>4, <1>5, <2>1, PutWorks, PutKnows
  <2>3. Knows(j, v, veh, sd)
    BY <1>2, <1>4 DEF Knows
  <2> QED
    BY <1>1, <2>2, <2>3, TableFollows
<1>7. CASE job = Completed
  <2>1. job.at = "ended"
    BY <1>7, Leaves
  <2>2. Works(j, v) /\ Knows(j, v, veh, sd)'
    BY <1>1, <1>2, <1>3, <1>4, <1>5, <2>1, PutWorks, PutKnows
  <2>3. Knows(j, v, veh, sd)
    BY <1>2, <1>4 DEF Knows
  <2> QED
    BY <1>1, <2>2, <2>3, TableFollows
<1> QED
  BY <1>5, <1>6, <1>7

\* A worker saves what it knows, or saves none of the token columns, and goes
\* on with the same tokens or leaves Work.
LEMMA SaveFollows ==
  ASSUME TypeOK, TypeOK', SInv, HeldTracked, HeldTracked', failures' = 0, NEW j \in Jobs,
         Running(j), NEW v \in Vins, v = jobs[j].vin, vins[v].present,
         NEW rec, rec.veh = jobs[j].record.veh, rec.sd = jobs[j].record.sd,
         NEW saved, NEW columns, Save(j, saved, columns), UNCHANGED seq,
         NEW new, new = Update(vins[v], saved, columns),
         new.veh = rec.veh, new.sd = rec.sd,
         NEW job, Put(j, job),
         \/ job.at \in {"none", "available", "ended"}
         \/ /\ job.at \notin {"none", "available", "ended"}
            /\ job.vin = v /\ job.record = rec
  PROVE  [Lifecycle!LifecycleNext]_(Lifecycle!lifecycle)
<1>1. /\ vins'[v] = Update(vins[v], saved, columns)
      /\ \A w \in Vins \ {v} : vins'[w] = vins[w]
  BY SaveSaves
<1>2. PICK veh, sd : veh = rec.veh /\ sd = rec.sd
  OBVIOUS
<1>6. new.present
  BY Saved
<1>3. vins'[v].present /\ vins'[v].veh = veh /\ vins'[v].sd = sd
  BY <1>1, <1>2, <1>6
<1>4. Works(j, v) /\ Knows(j, v, veh, sd)'
  BY <1>1, <1>2, <1>3, PutWorks, PutKnows DEF Running
<1>5. Knows(j, v, veh, sd)
  BY <1>2 DEF Knows
<1> QED
  BY <1>3, <1>4, <1>5, TableFollows

LEMMA VerifyFollows ==
  ASSUME SerialClients, TypeOK, TypeOK', SInv, HeldTracked, HeldTracked', failures' = 0,
         NEW j \in Jobs, VerifyStep(j)
  PROVE  [Lifecycle!LifecycleNext]_(Lifecycle!lifecycle)
<1>1. PICK v \in Vins : v = jobs[j].vin
  BY DEF TypeOK, Job
<1>2. jobs[j] \in Job
  BY DEF TypeOK
<1>3. CASE StartVerify(j)
  <2>1. CASE StartOrEnd(j, "verify", "decode")
    BY <2>1, StartFollows
  <2>2. CASE /\ ~vins[v].present /\ Start(j, "verify")
             /\ Put(j, Started(j, "insert", NewRow(OnboardingStatusDecodingUnknown)))
    <3>1. /\ jobs[j].at = "available" /\ MayStart(j) /\ vins' = vins /\ seq' = seq
      BY <2>2 DEF Start
    <3>2. RowFits(v) /\ Pending(j) /\ ~Running(j)
      BY <1>1, <3>1, Starters DEF Running
    <3>3. vins[v].veh = 0 /\ vins[v].sd = 0
      BY <2>2, <3>2, Fits DEF RowFits
    <3>4. PICK job : job = Started(j, "insert", NewRow(OnboardingStatusDecodingUnknown))
      OBVIOUS
    <3>5. /\ job.at = "insert" /\ job.vin = v
          /\ job.record.veh = 0 /\ job.record.sd = 0
      BY <1>1, <1>2, <3>4 DEF Started, Job, NewRow
    <3>6. Works(j, v) /\ Knows(j, v, 0, 0)'
      BY <1>1, <2>2, <3>1, <3>2, <3>4, <3>5, PutWorks, PutKnows
    <3>7. Knows(j, v, 0, 0)
      BY <3>2, <3>3 DEF Knows
    <3> QED
      BY <3>1, <3>6, <3>7, TableFollows
  <2> QED
    BY <1>1, <1>3, <2>1, <2>2 DEF StartVerify
<1>4. CASE jobs[j].at \in VerifyPlaces
  <2>1. Running(j) /\ Pending(j)
    BY <1>4 DEF VerifyPlaces, Running, Pending
  <2>2. PICK rec : rec = jobs[j].record
    OBVIOUS
  <2>3. /\ rec.present /\ rec.veh = 0 /\ rec.sd = 0
        /\ jobs[j].at = "insert" <=> ~vins[v].present
    BY <1>1, <1>4, <2>1, <2>2, Alone, Verifying
  <2>4. CASE InsertVinRecord(j)
    <3>1. /\ jobs[j].at = "insert" /\ ~vins[v].present /\ seq' = seq
          /\ vins' = [vins EXCEPT ![v] = Insert(vins[v], rec)]
          /\ Move(j, "decode", rec)
      BY <1>1, <2>2, <2>3, <2>4, FailsNot DEF InsertVinRecord
    <3>2. vins'[v] = rec /\ \A w \in Vins \ {v} : vins'[w] = vins[w]
      BY <3>1 DEF Insert, TypeOK
    <3>4. vins[v].veh = 0 /\ vins[v].sd = 0
      BY <1>1, <1>4, <2>1, <2>2, <2>3, <3>1, Alone DEF Working, Behind
    <3>5. Works(j, v) /\ Knows(j, v, 0, 0)'
      BY <1>1, <2>1, <2>3, <3>1, <3>2, MoveWorks
    <3>6. Knows(j, v, 0, 0)
      BY <2>1, <2>2, <2>3 DEF Knows
    <3> QED
      BY <2>3, <3>1, <3>2, <3>4, <3>5, <3>6, TableFollows
  <2>5. ASSUME NEW new, new.veh = rec.veh, new.sd = rec.sd, vins[v].present,
               Save(j, new, AllColumns), UNCHANGED seq,
               \/ \E place \in {"decoding", "validate"} : Move(j, place, new)
               \/ Put(j, Errored(jobs[j]))
               \/ Put(j, Completed)
        PROVE  [Lifecycle!LifecycleNext]_(Lifecycle!lifecycle)
    <3>1. PICK row : row = Update(vins[v], new, AllColumns)
      OBVIOUS
    <3>2. row.veh = new.veh /\ row.sd = new.sd
      BY <2>5, <3>1, Saved
    <3>3. PICK job : /\ Put(j, job)
                     /\ \/ job.at \in {"available", "ended"}
                        \/ /\ job.at \in {"decoding", "validate"}
                           /\ job.vin = v /\ job.record = new
      <4>1. CASE \E place \in {"decoding", "validate"} : Move(j, place, new)
        <5>1. PICK place \in {"decoding", "validate"} : Move(j, place, new)
          BY <4>1
        <5>2. PICK job : job = [jobs[j] EXCEPT !.at = place, !.record = new]
          OBVIOUS
        <5>3. job.at = place /\ job.vin = v /\ job.record = new
          BY <1>1, <1>2, <5>2 DEF Job
        <5> QED
          BY <5>1, <5>2, <5>3 DEF Move
      <4>2. CASE Put(j, Errored(jobs[j])) \/ Put(j, Completed)
        BY <4>2, Leaves
      <4> QED
        BY <2>5, <4>1, <4>2
    <3>4. new.veh = jobs[j].record.veh /\ new.sd = jobs[j].record.sd
      BY <2>2, <2>5
    <3> QED
      BY <1>1, <2>1, <2>5, <3>1, <3>2, <3>3, <3>4, SaveFollows
  <2>6. CASE StartDecode(j)
    <3> DEFINE decoded == rec.status >= OnboardingStatusDecodingSuccess /\ rec.dd
               status  == IF decoded THEN OnboardingStatusDecodingSuccess
                          ELSE OnboardingStatusDecodingPending
               place   == IF decoded THEN "validate" ELSE "decoding"
    <3>2. PICK new : new = [rec EXCEPT !.status = status]
      OBVIOUS
    <3>1. /\ jobs[j].at = "decode" /\ Save(j, new, AllColumns) /\ Move(j, place, new)
          /\ place \in {"decoding", "validate"}
      BY <2>2, <2>6, <3>2 DEF StartDecode
    <3>3. new.veh = rec.veh /\ new.sd = rec.sd
      BY <2>2, <3>2, OtherStatus
    <3> QED
      BY <2>3, <2>5, <2>6, <3>1, <3>2, <3>3 DEF StartDecode
  <2>7. CASE DecodeVin(j)
    <3>1. PICK ok, bad :
            /\ ok = [rec EXCEPT !.dd = TRUE, !.status = OnboardingStatusDecodingSuccess]
            /\ bad = [rec EXCEPT !.status = OnboardingStatusDecodingFailure]
      OBVIOUS
    <3>2. /\ jobs[j].at = "decoding" /\ UNCHANGED seq
          /\ \/ Save(j, ok, AllColumns) /\ Move(j, "validate", ok)
             \/ Save(j, bad, AllColumns) /\ Put(j, Errored(jobs[j]))
      BY <2>2, <2>7, <3>1 DEF DecodeVin
    <3>3. rec \in Row
      BY <1>2, <2>2 DEF Job
    <3>4. ok.veh = rec.veh /\ ok.sd = rec.sd
      BY <3>1, <3>3 DEF Row
    <3>5. bad.veh = rec.veh /\ bad.sd = rec.sd
      BY <3>1, <3>3 DEF Row
    <3> QED
      BY <2>3, <2>5, <3>2, <3>4, <3>5
  <2>8. CASE Validate(j)
    <3>1. PICK status :
            /\ jobs[j].at = "validate" /\ UNCHANGED seq
            /\ Save(j, [rec EXCEPT !.status = status], AllColumns)
            /\ Put(j, Errored(jobs[j])) \/ Put(j, Completed)
      BY <2>2, <2>8 DEF Validate
    <3>2. PICK new : new = [rec EXCEPT !.status = status]
      OBVIOUS
    <3>3. new.veh = rec.veh /\ new.sd = rec.sd
      BY <2>2, <3>2, OtherStatus
    <3> QED
      BY <2>3, <2>5, <3>1, <3>2, <3>3
  <2> QED
    BY <1>4, <2>4, <2>6, <2>7, <2>8, <1>3 DEF VerifyStep
<1>5. StartVerify(j) \/ jobs[j].at \in VerifyPlaces
  BY DEF VerifyStep, InsertVinRecord, StartDecode, DecodeVin, Validate, VerifyPlaces
<1> QED
  BY <1>3, <1>4, <1>5

\* The three ways in which the other workers go on: with a save, with the last
\* save, and without one.
LEMMA SaveMoveFollows ==
  ASSUME TypeOK, TypeOK', SInv, HeldTracked, HeldTracked', failures' = 0, NEW j \in Jobs,
         Running(j), NEW v \in Vins, v = jobs[j].vin, vins[v].present,
         NEW rec, rec.veh = jobs[j].record.veh, rec.sd = jobs[j].record.sd,
         NEW saved, NEW columns, Save(j, saved, columns), UNCHANGED seq,
         Update(vins[v], saved, columns).veh = rec.veh,
         Update(vins[v], saved, columns).sd = rec.sd,
         NEW place, place \notin {"none", "available", "ended"}, Move(j, place, rec)
  PROVE  [Lifecycle!LifecycleNext]_(Lifecycle!lifecycle)
<1>1. PICK job : job = [jobs[j] EXCEPT !.at = place, !.record = rec]
  OBVIOUS
<1>2. jobs[j] \in Job
  BY DEF TypeOK
<1>3. job.at = place /\ job.vin = v /\ job.record = rec
  BY <1>1, <1>2 DEF Job
<1>4. Put(j, job)
  BY <1>1 DEF Move
<1> QED
  BY <1>3, <1>4, SaveFollows

LEMMA SaveEndFollows ==
  ASSUME TypeOK, TypeOK', SInv, HeldTracked, HeldTracked', failures' = 0, NEW j \in Jobs,
         Running(j), NEW v \in Vins, v = jobs[j].vin, vins[v].present,
         NEW saved, NEW columns, Save(j, saved, columns), UNCHANGED seq,
         Update(vins[v], saved, columns).veh = jobs[j].record.veh,
         Update(vins[v], saved, columns).sd = jobs[j].record.sd,
         Put(j, Completed) \/ Put(j, Errored(jobs[j]))
  PROVE  [Lifecycle!LifecycleNext]_(Lifecycle!lifecycle)
<1>1. PICK job : Put(j, job) /\ job.at \in {"available", "ended"}
  BY Leaves
<1>2. PICK rec : rec = jobs[j].record
  OBVIOUS
<1> QED
  BY <1>1, <1>2, SaveFollows

LEMMA MoveFollows ==
  ASSUME TypeOK, TypeOK', SInv, HeldTracked, HeldTracked', NEW j \in Jobs,
         Running(j), NEW v \in Vins, v = jobs[j].vin, UNCHANGED <<vins, seq>>,
         NEW rec, rec.veh = jobs[j].record.veh, rec.sd = jobs[j].record.sd,
         NEW place, place \notin {"none", "available", "ended"}, Move(j, place, rec)
  PROVE  [Lifecycle!LifecycleNext]_(Lifecycle!lifecycle)
<1>1. PICK veh, sd : veh = rec.veh /\ sd = rec.sd
  OBVIOUS
<1>2. Works(j, v) /\ Knows(j, v, veh, sd)'
  BY <1>1, MoveWorks DEF Running
<1>3. Knows(j, v, veh, sd)
  BY <1>1 DEF Knows
<1> QED
  BY <1>2, <1>3, TableFollows

LEMMA ConnectFollows ==
  ASSUME TypeOK, TypeOK', SInv, HeldTracked, HeldTracked', failures' = 0, NEW j \in Jobs,
         ConnectToVendor(j) \/ SaveConnect(j)
  PROVE  [Lifecycle!LifecycleNext]_(Lifecycle!lifecycle)
<1>1. PICK v \in Vins : v = jobs[j].vin
  BY DEF TypeOK, Job
<1>2. PICK rec : rec = jobs[j].record
  OBVIOUS
<1>3. Running(j) /\ jobs[j].at \in {"connect", "saveConnect"}
  BY DEF ConnectToVendor, SaveConnect, Running, Pending
<1>4. vins[v].present /\ rec.veh = vins[v].veh /\ rec.sd = vins[v].sd /\ rec \in Row
  <2>1. jobs[j].at \in OnboardPlaces
    BY <1>3 DEF OnboardPlaces
  <2> QED
    BY <1>1, <1>2, <1>3, <2>1, Alone, Onboarders DEF TypeOK, Job
<1>5. CASE ConnectToVendor(j)
  <2>1. PICK conn : conn = Connected(rec)
    OBVIOUS
  <2>2. PICK failed : failed = [rec EXCEPT !.status = OnboardingStatusConnectFailure]
    OBVIOUS
  <2>3. PICK done : done = [conn EXCEPT !.status = OnboardingStatusConnectSuccess]
    OBVIOUS
  <2>4. ~Fail("lostWrite")
    BY DEF Fail, TypeOK
  <2>5. /\ UNCHANGED seq
        /\ \/ Move(j, "saveConnect", failed) /\ UNCHANGED vins
           \/ Save(j, conn, EnrollColumns) /\ Move(j, "saveConnect", done)
    BY <1>2, <1>5, <2>1, <2>2, <2>3, <2>4 DEF ConnectToVendor
  <2>6. failed.veh = rec.veh /\ failed.sd = rec.sd
    BY <1>2, <2>2, OtherStatus
  <2>7. done.veh = rec.veh /\ done.sd = rec.sd
    BY <1>4, <2>1, <2>3 DEF Connected, Row
  <2>8. /\ Update(vins[v], conn, EnrollColumns).veh = vins[v].veh
        /\ Update(vins[v], conn, EnrollColumns).sd = vins[v].sd
    BY <1>4, Saved
  <2>9. CASE Move(j, "saveConnect", failed) /\ UNCHANGED vins
    BY <1>1, <1>2, <1>3, <2>5, <2>6, <2>9, MoveFollows
  <2>10. CASE Save(j, conn, EnrollColumns) /\ Move(j, "saveConnect", done)
    BY <1>1, <1>2, <1>3, <1>4, <2>5, <2>7, <2>8, <2>10, SaveMoveFollows
  <2> QED
    BY <2>5, <2>9, <2>10
<1>6. CASE SaveConnect(j)
  <2>1. /\ Save(j, rec, StatusColumn) /\ UNCHANGED seq
        /\ \/ Put(j, Errored(jobs[j]))
           \/ \E place \in {"wallet", "finish"} : Move(j, place, rec)
    BY <1>2, <1>6 DEF SaveConnect
  <2>2. /\ Update(vins[v], rec, StatusColumn).veh = vins[v].veh
        /\ Update(vins[v], rec, StatusColumn).sd = vins[v].sd
    BY <1>4, Saved
  <2>3. CASE Put(j, Errored(jobs[j]))
    BY <1>1, <1>2, <1>3, <1>4, <2>1, <2>2, <2>3, SaveEndFollows
  <2>4. CASE \E place \in {"wallet", "finish"} : Move(j, place, rec)
    BY <1>1, <1>2, <1>3, <1>4, <2>1, <2>2, <2>4, SaveMoveFollows
  <2> QED
    BY <2>1, <2>3, <2>4
<1> QED
  BY <1>5, <1>6

LEMMA MintFollows ==
  ASSUME TypeOK, TypeOK', SInv, HeldTracked, HeldTracked', failures' = 0, NEW j \in Jobs,
         TakeWalletIndex(j) \/ MintVehicleWithSD(j) \/ MintSD(j)
  PROVE  [Lifecycle!LifecycleNext]_(Lifecycle!lifecycle)
<1>1. PICK v \in Vins : v = jobs[j].vin
  BY DEF TypeOK, Job
<1>2. PICK rec : rec = jobs[j].record
  OBVIOUS
<1>3. Running(j) /\ jobs[j].at \in {"wallet", "mint"} /\ vins' = vins
  BY DEF TakeWalletIndex, MintVehicleWithSD, MintSD, Running, Pending
<1>4. /\ vins[v].present /\ rec.veh = vins[v].veh /\ rec.sd = vins[v].sd
      /\ rec.sd = 0 /\ rec \in Row
  <2>1. jobs[j].at \in OnboardPlaces
    BY <1>3 DEF OnboardPlaces
  <2> QED
    BY <1>1, <1>2, <1>3, <2>1, Alone, Onboarders DEF OnboardFits, TypeOK, Job
<1>5. ~Fail("lostAnswer")
  BY DEF Fail, TypeOK
<1>6. PICK veh : veh = rec.veh /\ Knows(j, v, veh, 0)
  BY <1>2, <1>3, <1>4 DEF Knows
<1>7. CASE MintFailed(j) /\ seq' = seq
  <2>1. PICK failed : failed = [rec EXCEPT !.status = OnboardingStatusMintFailure]
    OBVIOUS
  <2>2. failed.veh = rec.veh /\ failed.sd = rec.sd
    BY <1>2, <2>1, OtherStatus
  <2>3. \E place \in {"saveVehicle", "saveSD"} : Move(j, place, failed)
    BY <1>2, <1>7, <2>1 DEF MintFailed, SavePlace
  <2> QED
    BY <1>1, <1>2, <1>3, <1>7, <2>2, <2>3, MoveFollows
<1>8. CASE Put(j, [jobs[j] EXCEPT !.at = "mint", !.index = NextWalletIndex])
           /\ seq' = [seq EXCEPT !.wallet = @ + 1]
  <2>1. PICK job : job = [jobs[j] EXCEPT !.at = "mint", !.index = NextWalletIndex]
    OBVIOUS
  <2>2. job.at = "mint" /\ job.vin = v /\ job.record = rec
    BY <1>1, <1>2, <2>1 DEF TypeOK, Job
  <2>3. Works(j, v) /\ Knows(j, v, veh, 0)'
    BY <1>1, <1>3, <1>4, <1>6, <1>8, <2>1, <2>2, PutWorks, PutKnows DEF Running
  <2>4. seq'.vehicle = seq.vehicle /\ seq'.sd = seq.sd
    BY <1>8 DEF TypeOK
  <2> QED
    BY <1>3, <1>6, <2>3, <2>4, TableFollows
<1>9. CASE /\ rec.veh = 0
           /\ seq' = [seq EXCEPT !.vehicle = @ + 1, !.sd = @ + 1]
           /\ Move(j, "saveVehicle",
                   [rec EXCEPT !.status = OnboardingStatusMintSuccess,
                               !.veh = seq.vehicle, !.sd = seq.sd,
                               !.wallet = jobs[j].index])
  <2>1. PICK new : new = [rec EXCEPT !.status = OnboardingStatusMintSuccess,
                                     !.veh = seq.vehicle, !.sd = seq.sd,
                                     !.wallet = jobs[j].index]
    OBVIOUS
  <2>2. new.veh = seq.vehicle /\ new.sd = seq.sd
    BY <1>4, <2>1 DEF Row
  <2>3. PICK veh2, sd2 : veh2 = new.veh /\ sd2 = new.sd
    OBVIOUS
  <2>4. Works(j, v) /\ Knows(j, v, new.veh, new.sd)'
    BY <1>1, <1>3, <1>9, <2>1, MoveWorks DEF Running
  <2>5. Knows(j, v, veh2, sd2)'
    BY <2>3, <2>4
  <2>6. seq'.vehicle = seq.vehicle + 1 /\ seq'.sd = seq.sd + 1
    BY <1>9 DEF TypeOK
  <2>7. /\ veh = 0 /\ vins[v].veh = veh /\ vins[v].sd = 0
        /\ veh2 = seq.vehicle /\ sd2 = seq.sd
    BY <1>4, <1>6, <1>9, <2>2, <2>3
  <2> QED
    BY <1>3, <1>4, <1>6, <2>4, <2>5, <2>6, <2>7, MintOrBurnFollows
<1>10. CASE /\ rec.veh # 0
            /\ seq' = [seq EXCEPT !.sd = @ + 1]
            /\ Move(j, "saveSD",
                    [rec EXCEPT !.status = OnboardingStatusMintSuccess,
                                !.sd = seq.sd, !.wallet = jobs[j].index])
  <2>1. PICK new : new = [rec EXCEPT !.status = OnboardingStatusMintSuccess,
                                     !.sd = seq.sd, !.wallet = jobs[j].index]
    OBVIOUS
  <2>2. new.veh = rec.veh /\ new.sd = seq.sd
    BY <1>4, <2>1 DEF Row
  <2>3. PICK veh2, sd2 : veh2 = new.veh /\ sd2 = new.sd
    OBVIOUS
  <2>4. Works(j, v) /\ Knows(j, v, new.veh, new.sd)'
    BY <1>1, <1>3, <1>10, <2>1, MoveWorks DEF Running
  <2>5. Knows(j, v, veh2, sd2)'
    BY <2>3, <2>4
  <2>6. seq'.vehicle = seq.vehicle /\ seq'.sd = seq.sd + 1
    BY <1>10 DEF TypeOK
  <2> QED
    BY <1>3, <1>4, <1>6, <1>10, <2>2, <2>3, <2>4, <2>5, <2>6, MintOrBurnFollows
<1>11. CASE TakeWalletIndex(j)
  BY <1>7, <1>8, <1>11 DEF TakeWalletIndex
<1>12. CASE MintVehicleWithSD(j)
  BY <1>2, <1>5, <1>7, <1>9, <1>12 DEF MintVehicleWithSD
<1>13. CASE MintSD(j)
  BY <1>2, <1>5, <1>7, <1>10, <1>13 DEF MintSD
<1> QED
  BY <1>11, <1>12, <1>13

LEMMA SaveMintFollows ==
  ASSUME TypeOK, TypeOK', SInv, HeldTracked, HeldTracked', failures' = 0, NEW j \in Jobs,
         SaveMintedVehicle(j) \/ SaveMintedSD(j) \/ FinishOnboard(j)
  PROVE  [Lifecycle!LifecycleNext]_(Lifecycle!lifecycle)
<1>1. PICK v \in Vins : v = jobs[j].vin
  BY DEF TypeOK, Job
<1>2. PICK rec : rec = jobs[j].record
  OBVIOUS
<1>3. Running(j) /\ jobs[j].at \in {"saveVehicle", "saveSD", "finish"}
  BY DEF SaveMintedVehicle, SaveMintedSD, FinishOnboard, Running, Pending
<1>4. /\ vins[v].present
      /\ jobs[j].at = "saveSD" => rec.veh = vins[v].veh
      /\ jobs[j].at = "finish" => rec.veh = vins[v].veh /\ rec.sd = vins[v].sd
  <2>1. jobs[j].at \in OnboardPlaces
    BY <1>3 DEF OnboardPlaces
  <2> QED
    BY <1>1, <1>2, <1>3, <2>1, Alone, Onboarders DEF OnboardFits
<1>5. CASE SaveMintedVehicle(j)
  <2>1. /\ Save(j, rec, VehicleSDColumns) /\ UNCHANGED seq
        /\ Move(j, "finish", rec) \/ Put(j, Errored(jobs[j]))
    BY <1>2, <1>5 DEF SaveMintedVehicle
  <2>2. /\ Update(vins[v], rec, VehicleSDColumns).veh = rec.veh
        /\ Update(vins[v], rec, VehicleSDColumns).sd = rec.sd
    BY <1>4, Saved
  <2> QED
    BY <1>1, <1>2, <1>3, <1>4, <2>1, <2>2, SaveMoveFollows, SaveEndFollows
<1>6. CASE SaveMintedSD(j)
  <2>1. /\ jobs[j].at = "saveSD" /\ Save(j, rec, SDColumns) /\ UNCHANGED seq
        /\ Put(j, Completed)
    BY <1>2, <1>6 DEF SaveMintedSD
  <2>2. /\ Update(vins[v], rec, SDColumns).veh = rec.veh
        /\ Update(vins[v], rec, SDColumns).sd = rec.sd
    BY <1>4, <2>1, Saved
  <2> QED
    BY <1>1, <1>2, <1>3, <1>4, <2>1, <2>2, SaveEndFollows
<1>7. CASE FinishOnboard(j)
  <2>1. PICK new : new = [rec EXCEPT !.status = OnboardingStatusMintSuccess]
    OBVIOUS
  <2>2. /\ jobs[j].at = "finish" /\ Save(j, new, StatusColumn) /\ UNCHANGED seq
        /\ Put(j, Completed)
    BY <1>2, <1>7, <2>1 DEF FinishOnboard
  <2>3. /\ Update(vins[v], new, StatusColumn).veh = rec.veh
        /\ Update(vins[v], new, StatusColumn).sd = rec.sd
    BY <1>4, <2>2, Saved
  <2> QED
    BY <1>1, <1>2, <1>3, <1>4, <2>2, <2>3, SaveEndFollows
<1> QED
  BY <1>5, <1>6, <1>7

LEMMA OnboardFollows ==
  ASSUME SerialClients, TypeOK, TypeOK', SInv, HeldTracked, HeldTracked', failures' = 0,
         NEW j \in Jobs, OnboardStep(j)
  PROVE  [Lifecycle!LifecycleNext]_(Lifecycle!lifecycle)
<1>1. CASE StartOnboard(j)
  BY <1>1, StartFollows DEF StartOnboard
<1> QED
  BY <1>1, ConnectFollows, MintFollows, SaveMintFollows DEF OnboardStep

LEMMA DisconnectFollows ==
  ASSUME TypeOK, TypeOK', SInv, BurnersBurn, HeldTracked, HeldTracked', failures' = 0,
         NEW j \in Jobs, DisconnectFromVendor(j) \/ SaveDisconnect(j)
  PROVE  [Lifecycle!LifecycleNext]_(Lifecycle!lifecycle)
<1>1. PICK v \in Vins : v = jobs[j].vin
  BY DEF TypeOK, Job
<1>2. PICK rec : rec = jobs[j].record
  OBVIOUS
<1>3. Running(j) /\ jobs[j].at \in BurnPlaces /\ jobs[j].at \notin Behind
  BY DEF DisconnectFromVendor, SaveDisconnect, Running, Pending, BurnPlaces, Behind
<1>4. vins[v].present /\ rec.veh = vins[v].veh /\ rec.sd = vins[v].sd /\ rec \in Row
  BY <1>1, <1>2, <1>3, Burners DEF TypeOK, Job
<1>5. CASE DisconnectFromVendor(j)
  <2>1. PICK disc : disc = Disconnected(rec)
    OBVIOUS
  <2>2. PICK failed : failed = [rec EXCEPT !.status = OnboardingStatusDisconnectFailure]
    OBVIOUS
  <2>3. PICK done : done = [disc EXCEPT !.status = OnboardingStatusDisconnectSuccess]
    OBVIOUS
  <2>4. ~Fail("lostWrite")
    BY DEF Fail, TypeOK
  <2>5. /\ UNCHANGED seq
        /\ \/ Move(j, "saveDisconnect", failed) /\ UNCHANGED vins
           \/ Save(j, disc, EnrollColumns) /\ Move(j, "saveDisconnect", done)
    BY <1>2, <1>5, <2>1, <2>2, <2>3, <2>4 DEF DisconnectFromVendor
  <2>6. failed.veh = rec.veh /\ failed.sd = rec.sd
    BY <1>2, <2>2, OtherStatus
  <2>7. done.veh = rec.veh /\ done.sd = rec.sd
    BY <1>4, <2>1, <2>3 DEF Disconnected, Row
  <2>8. /\ Update(vins[v], disc, EnrollColumns).veh = vins[v].veh
        /\ Update(vins[v], disc, EnrollColumns).sd = vins[v].sd
    BY <1>4, Saved
  <2>9. CASE Move(j, "saveDisconnect", failed) /\ UNCHANGED vins
    BY <1>1, <1>2, <1>3, <2>5, <2>6, <2>9, MoveFollows
  <2>10. CASE Save(j, disc, EnrollColumns) /\ Move(j, "saveDisconnect", done)
    BY <1>1, <1>2, <1>3, <1>4, <2>5, <2>7, <2>8, <2>10, SaveMoveFollows
  <2> QED
    BY <2>5, <2>9, <2>10
<1>6. CASE SaveDisconnect(j)
  <2>1. /\ Save(j, rec, StatusColumn) /\ UNCHANGED seq
        /\ Put(j, Errored(jobs[j])) \/ Put(j, Completed) \/ Move(j, "lock", rec)
    BY <1>2, <1>6 DEF SaveDisconnect
  <2>2. /\ Update(vins[v], rec, StatusColumn).veh = vins[v].veh
        /\ Update(vins[v], rec, StatusColumn).sd = vins[v].sd
    BY <1>4, Saved
  <2> QED
    BY <1>1, <1>2, <1>3, <1>4, <2>1, <2>2, SaveMoveFollows, SaveEndFollows
<1> QED
  BY <1>5, <1>6

\* An operation is refused, or burns the one token that the row gave it.
LEMMA SendFollows ==
  ASSUME TypeOK, TypeOK', SInv, BurnersBurn, HeldTracked, HeldTracked', failures' = 0,
         NEW j \in Jobs, SendBurnOperation(j)
  PROVE  [Lifecycle!LifecycleNext]_(Lifecycle!lifecycle)
<1>1. PICK v \in Vins : v = jobs[j].vin
  BY DEF TypeOK, Job
<1>2. PICK rec : rec = jobs[j].record
  OBVIOUS
<1>3. PICK kind : kind = jobs[j].kind
  OBVIOUS
<1>4. PICK failed : failed = BurnFailed(jobs[j])
  OBVIOUS
<1>5. PICK done : done = BurnDone(jobs[j])
  OBVIOUS
<1>6. ~Fail("lostAnswer") /\ ~Fail("burnResult")
  BY DEF Fail, TypeOK
<1>7. /\ jobs[j].at = "burn" /\ UNCHANGED <<vins, seq>>
      /\ Move(j, "unlock", failed) \/ Move(j, "unlock", done)
  BY <1>4, <1>5, <1>6 DEF SendBurnOperation
<1>8. jobs[j].at \in BurnPlaces /\ jobs[j].at \notin Behind /\ Running(j)
  BY <1>7 DEF BurnPlaces, Behind, Running, Pending
<1>9. /\ kind \in {"disconnect", "delete"} /\ vins[v].present
      /\ rec.veh = vins[v].veh /\ rec.sd = vins[v].sd /\ rec \in Row
      /\ kind = "disconnect" => rec.sd # 0
      /\ kind = "delete" => rec.veh # 0 /\ rec.sd = 0
  BY <1>1, <1>2, <1>3, <1>8, Burners DEF DeleteFits, DisconnectFits, BurnKinds, TypeOK, Job
<1>10. PICK veh, sd : veh = rec.veh /\ sd = rec.sd
  OBVIOUS
<1>11. Knows(j, v, veh, sd)
  BY <1>2, <1>8, <1>10 DEF Knows
<1>12. CASE Move(j, "unlock", failed)
  <2>1. failed.veh = rec.veh /\ failed.sd = rec.sd
    BY <1>2, <1>4, <1>9 DEF BurnFailed, Row
  <2> QED
    BY <1>1, <1>2, <1>7, <1>8, <1>12, <2>1, MoveFollows
<1>13. CASE Move(j, "unlock", done)
  <2>1. PICK veh2, sd2 : veh2 = done.veh /\ sd2 = done.sd
    OBVIOUS
  <2>2. Works(j, v) /\ Knows(j, v, done.veh, done.sd)'
    BY <1>1, <1>7, <1>8, <1>13, MoveWorks DEF Running
  <2>3. Knows(j, v, veh2, sd2)'
    BY <2>1, <2>2
  <2>4. \/ kind = "disconnect" /\ veh2 = veh /\ sd2 = 0
        \/ kind = "delete" /\ veh2 = 0 /\ sd2 = sd
    BY <1>2, <1>3, <1>5, <1>9, <1>10, <2>1 DEF BurnDone, Row
  <2> QED
    BY <1>7, <1>9, <1>10, <1>11, <2>2, <2>3, <2>4, MintOrBurnFollows
<1> QED
  BY <1>7, <1>12, <1>13

LEMMA BurnFollows ==
  ASSUME SerialClients, TypeOK, TypeOK', SInv, BurnersBurn, HeldTracked, HeldTracked',
         failures' = 0, NEW j \in Jobs, BurnStep(j)
  PROVE  [Lifecycle!LifecycleNext]_(Lifecycle!lifecycle)
<1>1. PICK v \in Vins : v = jobs[j].vin
  BY DEF TypeOK, Job
<1>2. PICK rec : rec = jobs[j].record
  OBVIOUS
<1>3. CASE StartDisconnect(j) \/ StartDelete(j)
  BY <1>3, StartFollows DEF StartDisconnect, StartDelete
<1>4. CASE Lock(j) \/ UnlockBurn(j)
  <2>1. UNCHANGED <<vins, seq>> /\ (Move(j, "burn", rec) \/ Move(j, "saveBurn", rec))
    BY <1>2, <1>4 DEF Lock, UnlockBurn, Unlock
  <2>2. Running(j)
    BY <1>4 DEF Lock, UnlockBurn, Running, Pending
  <2> QED
    BY <1>1, <1>2, <2>1, <2>2, MoveFollows
<1>5. ~UnlockTwice(j)
  <2>1. "unlockTwice" \in BurnPlaces
    BY DEF BurnPlaces
  <2> QED
    BY <2>1, Burners DEF UnlockTwice
<1>6. CASE SaveBurn(j)
  <2>1. PICK columns : columns = IF jobs[j].kind = "disconnect" THEN SDColumns
                                                                ELSE VehicleColumns
    OBVIOUS
  <2>2. /\ jobs[j].at = "saveBurn" /\ Save(j, rec, columns) /\ Put(j, Completed)
        /\ UNCHANGED seq
    BY <1>2, <1>6, <2>1 DEF SaveBurn
  <2>3. jobs[j].at \in BurnPlaces /\ jobs[j].at \in Behind
    BY <2>2 DEF BurnPlaces, Behind
  <2>4. /\ Running(j) /\ jobs[j].kind \in {"disconnect", "delete"} /\ vins[v].present
        /\ jobs[j].kind = "disconnect" => rec.veh = vins[v].veh
        /\ jobs[j].kind = "delete" => rec.sd = vins[v].sd
    BY <1>1, <1>2, <2>3, Burners DEF DisconnectFits, DeleteFits, BurnKinds
  <2>5. /\ Update(vins[v], rec, columns).veh = rec.veh
        /\ Update(vins[v], rec, columns).sd = rec.sd
    BY <2>1, <2>4, Saved
  <2> QED
    BY <1>1, <1>2, <2>2, <2>4, <2>5, SaveEndFollows
<1> QED
  BY <1>3, <1>4, <1>5, <1>6, DisconnectFollows, SendFollows DEF BurnStep

-----------------------------------------------------------------------------
(* The handlers' steps.                                                    *)

\* A handler moves no running job and no token of a row, so no VIN sees any of
\* its steps, but that its row was made.
LEMMA HeldThroughHandlers ==
  ASSUME HeldTracked, HeldTracked',
         \A j \in Jobs : /\ Running(j)' <=> Running(j)
                         /\ Running(j) => jobs'[j] = jobs[j],
         NEW v \in Vins, vins'[v].veh = vins[v].veh, vins'[v].sd = vins[v].sd
  PROVE  Held(v)' = Held(v)
<1>1. CASE \E i \in Jobs : Running(i) /\ jobs[i].vin = v
  <2>1. PICK i \in Jobs : Running(i) /\ jobs[i].vin = v
    BY <1>1
  <2>2. jobs'[i] = jobs[i] /\ Running(i)'
    BY <2>1
  <2>3. Held(v) = TokensOf(jobs[i].record)
    BY <2>1 DEF HeldTracked
  <2>4. (Held(v) = TokensOf(jobs[i].record))'
    BY <2>1, <2>2 DEF HeldTracked
  <2> QED
    BY <2>2, <2>3, <2>4 DEF TokensOf
<1>2. CASE \A i \in Jobs : Running(i) => jobs[i].vin # v
  <2>1. Held(v) = TokensOf(vins[v])
    BY <1>2 DEF HeldTracked
  <2>2. \A i \in Jobs : (Running(i) => jobs[i].vin # v)'
    BY <1>2
  <2>3. (Held(v) = TokensOf(vins[v]))'
    BY <2>2 DEF HeldTracked
  <2> QED
    BY <2>1, <2>3 DEF TokensOf
<1> QED
  BY <1>1, <1>2

LEMMA IdleFollows ==
  ASSUME HeldTracked, HeldTracked', UNCHANGED <<vins, seq>>,
         \A j \in Jobs : /\ Running(j)' <=> Running(j)
                         /\ Running(j) => jobs'[j] = jobs[j]
  PROVE  [Lifecycle!LifecycleNext]_(Lifecycle!lifecycle)
<1>1. \A v \in Vins : Held(v)' = Held(v)
  BY HeldThroughHandlers
<1>2. \A v \in Vins : Recorded(v)' = Recorded(v)
  BY DEF Recorded
<1> QED
  BY <1>1, <1>2 DEF Lifecycle!lifecycle

LEMMA SubmitFollows ==
  ASSUME TypeOK, HeldTracked, HeldTracked', NEW r \in Requests,
         BeginRequest(r) \/ RereadMinted(r) \/ SubmitJob(r)
  PROVE  [Lifecycle!LifecycleNext]_(Lifecycle!lifecycle)
<1>1. UNCHANGED <<vins, seq>>
  BY DEF BeginRequest, RereadMinted, SubmitJob
<1>2. CASE UNCHANGED jobs
  BY <1>1, <1>2, IdleFollows DEF Running, Pending
<1>3. ASSUME NEW j \in Jobs, NEW job, NextJob(j), Put(j, job), job.at = "available"
      PROVE  [Lifecycle!LifecycleNext]_(Lifecycle!lifecycle)
  <2>1. jobs'[j] = job /\ \A i \in Jobs \ {j} : jobs'[i] = jobs[i]
    BY <1>3 DEF Put, TypeOK
  <2>2. ~Running(j) /\ ~Running(j)'
    BY <1>3, <2>1 DEF NextJob, Running, Pending
  <2>3. \A i \in Jobs \ {j} : Running(i)' <=> Running(i)
    BY <2>1 DEF Running, Pending
  <2> QED
    BY <1>1, <2>1, <2>2, <2>3, IdleFollows
<1>4. ASSUME NEW kind, NEW v, NEW op PROVE Available(kind, v, op, 0).at = "available"
  BY DEF Available
<1> QED
  BY <1>2, <1>3, <1>4 DEF BeginRequest, RereadMinted, SubmitJob

\* The upsert makes the row of an unknown VIN, and leaves the tokens of the
\* others as they are, for the handler's copy has those of the row.
LEMMA UpsertFollows ==
  ASSUME TypeOK, BatchesLast, SInv, HeldTracked, HeldTracked', failures' = 0,
         NEW r \in Requests, UpsertVin(r)
  PROVE  [Lifecycle!LifecycleNext]_(Lifecycle!lifecycle)
<1>1. PICK v : v = Head(requests[r].batch)
  OBVIOUS
<1>2. PICK new : new = Upsert(vins[v], Copy(r, v))
  OBVIOUS
<1>3. ~Fail("lostWrite")
  BY DEF Fail, TypeOK
<1>4. /\ requests[r].at = "upsert" /\ UNCHANGED <<jobs, seq>>
      /\ vins' = [vins EXCEPT ![v] = new]
  BY <1>1, <1>2, <1>3 DEF UpsertVin
<1>5. v \in Vins /\ InBatch(r, v) /\ requests[r].kind \in Kinds
  BY <1>1, <1>4, HeadInBatch
<1>6. \A j \in Jobs : Running(j) => jobs[j].vin # v
  BY <1>5 DEF SInv, OneAtATime, Running
<1>7. RowFits(v)
  BY <1>5, <1>6 DEF SInv
<1>8. new.veh = vins[v].veh /\ new.sd = vins[v].sd
  BY <1>2, <1>5, <1>7, UpsertFits
<1>9. vins'[v] = new /\ \A w \in Vins \ {v} : vins'[w] = vins[w]
  BY <1>4, <1>5 DEF TypeOK
<1>10. \A j \in Jobs : (Running(j)' <=> Running(j)) /\ jobs'[j] = jobs[j]
  BY <1>4 DEF Running, Pending
<1>11. \A w \in Vins : Held(w)' = Held(w)
  BY <1>8, <1>9, <1>10, HeldThroughHandlers
<1>12. \A w \in Vins \ {v} : Recorded(w)' = Recorded(w)
  BY <1>9 DEF Recorded
<1>13. new.present
  <2>1. PICK copy : copy = Copy(r, v)
    OBVIOUS
  <2>2. CASE vins[v].present
    BY <1>2, <2>2, Saved DEF Upsert
  <2>3. CASE ~vins[v].present
    <3>1. ~requests[r].rows[v].present
      BY <1>5, <2>3 DEF SInv, CopiesCurrent, Alike
    <3> QED
      BY <1>2, <2>3, <3>1 DEF Upsert, Copy, NewRow
  <2> QED
    BY <2>2, <2>3
<1>14. CASE vins[v].present
  <2>1. vins[v].present = TRUE /\ new.present = TRUE
    BY <1>5, <1>9, <1>13, <1>14 DEF Upsert, Update, TypeOK, Row
  <2>2. Recorded(v)' = Recorded(v)
    BY <1>8, <1>9, <2>1 DEF Recorded
  <2>3. Quiescent(Held(v), Held(v)', Recorded(v), Recorded(v)')
    BY <1>5, <1>11, <2>2 DEF Quiescent
  <2> QED
    BY <1>4, <1>5, <1>11, <1>12, <2>3, OneVinFollows
<1>15. CASE ~vins[v].present
  <2>1. vins[v].veh = 0 /\ vins[v].sd = 0
    BY <1>7, <1>15, Fits DEF RowFits
  <2>2. vins[v].present = FALSE
    BY <1>5, <1>15 DEF TypeOK, Row
  <2>3. new.present = TRUE
    BY <1>13
  <2>4. /\ Recorded(v) = [known |-> FALSE, veh |-> 0, sd |-> 0]
        /\ Recorded(v)' = [known |-> TRUE, veh |-> 0, sd |-> 0]
    BY <1>8, <1>9, <2>1, <2>2, <2>3 DEF Recorded
  <2>5. Learns(Held(v), Held(v)', Recorded(v), Recorded(v)')
    BY <1>5, <1>11, <2>4 DEF Learns
  <2> QED
    BY <1>4, <1>5, <1>11, <1>12, <2>5, OneVinFollows
<1> QED
  BY <1>14, <1>15

-----------------------------------------------------------------------------
(* The refinement.                                                         *)

LEMMA NextFollows ==
  ASSUME SerialClients, IInv, TypeOK', SInv, HeldTracked, HeldTracked', failures' = 0,
         [Next]_vars
  PROVE  [Lifecycle!LifecycleNext]_(Lifecycle!lifecycle)
<1>1. TypeOK /\ BurnersBurn /\ BatchesLast
  BY DEF IInv
<1>2. ASSUME NEW j \in Jobs, WorkerStep(j)
      PROVE  [Lifecycle!LifecycleNext]_(Lifecycle!lifecycle)
  BY <1>1, <1>2, VerifyFollows, OnboardFollows, BurnFollows, NeverFatal DEF WorkerStep
<1>3. ASSUME NEW r \in Requests, BeginRequest(r) \/ HandlerStep(r)
      PROVE  [Lifecycle!LifecycleNext]_(Lifecycle!lifecycle)
  BY <1>1, <1>3, SubmitFollows, UpsertFollows DEF HandlerStep
<1>4. ~Crash /\ ~ReadFails
  BY <1>1, FailsNot DEF Crash, ReadFails, WorkerReadFails, HandlerReadFails
<1>5. CASE UNCHANGED vars
  BY <1>5, IdleFollows DEF vars, Running, Pending
<1> QED
  BY <1>2, <1>3, <1>4, <1>5 DEF Next

LEMMA InitFollows ==
  ASSUME Minted = <<>>, Verified = {}
  PROVE  Init => Lifecycle!LifecycleInit
<1> SUFFICES ASSUME Init PROVE Lifecycle!LifecycleInit
  OBVIOUS
<1>1. DOMAIN Minted = {} /\ Len(Minted) = 0
  OBVIOUS
<1>2. vehicles = {} /\ sds = {} /\ seq.vehicle = 1 /\ seq.sd = 1
  BY <1>1 DEF Init
<1>3. \A v \in Vins : Held(v) = [known |-> TRUE, veh |-> 0, sd |-> 0]
  BY <1>2, TheOnlyOne DEF Held
<1>4. \A v \in Vins : vins[v] = NoRow
  BY <1>1 DEF Init, StartRow
<1>5. \A v \in Vins : Recorded(v) = [known |-> FALSE, veh |-> 0, sd |-> 0]
  <2>1. PICK new : new = NewRow(OnboardingStatusSubmitUnknown)
    OBVIOUS
  <2>2. PICK row : row = NoRow
    OBVIOUS
  <2>3. row.present = FALSE /\ row.veh = 0 /\ row.sd = 0
    BY <2>1, <2>2 DEF NoRow, NewRow
  <2> QED
    BY <1>4, <2>2, <2>3 DEF Recorded
<1> QED
  BY <1>2, <1>3, <1>5 DEF Lifecycle!LifecycleInit, Lifecycle!None, Lifecycle!Unknown

\* Where clients wait and nothing fails, each step of the workers and of the
\* handlers is a step of the lifecycle or leaves it as it is: the chain is
\* asked for a VIN's tokens only when its row has the last ones, whatever the
\* tables were when the program started.
THEOREM StepsFollowLifecycle ==
  ASSUME SerialClients, Failures = {}
  PROVE  Spec => [][Lifecycle!LifecycleNext]_(Lifecycle!lifecycle)
<1> DEFINE Calm == failures = 0
           Follows == [Lifecycle!LifecycleNext]_(Lifecycle!lifecycle)
<1>1. ASSUME IInv, IInv', SerialInv, HeldTracked, HeldTracked', Calm, Calm', [Next]_vars
      PROVE  Follows
  BY <1>1, NextFollows DEF IInv, SerialInv
<1>2. IInv /\ SerialInv /\ Calm => HeldTracked
  BY HeldIsTracked DEF SerialInv
<1>3. Spec => []Calm
  BY NoFailures
<1>4. Spec => [](IInv /\ SerialInv /\ Calm)
  <2> HIDE DEF Calm
  <2> QED
    BY <1>3, InvariantHolds, SerialInvariantHolds, PTL
<1>5. Spec => []HeldTracked
  <2> HIDE DEF Calm
  <2> QED
    BY <1>2, <1>4, PTL
<1> QED
  <2> HIDE DEF Calm
  <2> QED
    BY <1>1, <1>4, <1>5, PTL DEF Spec

\* The onboarding of VINs keeps the lifecycle's promise, from an empty table
\* and an empty chain on.
THEOREM FollowsTheLifecycle ==
  ASSUME SerialClients, Failures = {}, Minted = <<>>, Verified = {}
  PROVE  Spec => FollowsLifecycle
<1>1. Init => Lifecycle!LifecycleInit
  BY InitFollows
<1>2. Spec => [][Lifecycle!LifecycleNext]_(Lifecycle!lifecycle)
  BY StepsFollowLifecycle
<1> QED
  BY <1>1, <1>2, PTL DEF Spec, FollowsLifecycle, Lifecycle!LifecycleSpec
=============================================================================
