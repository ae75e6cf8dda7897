----------------------------- MODULE MCOnboarding -----------------------------
(***************************************************************************)
(* Values for the constants of Onboarding that a .cfg file cannot write.   *)
(***************************************************************************)
EXTENDS SerialInvariant, OnboardingRefinement

NoneMinted == <<>>
AllMinted  == CHOOSE s \in [1..Cardinality(Vins) -> Vins] :
                \A i, k \in DOMAIN s : s[i] = s[k] => i = k

\* Of the VINs that do not begin verified, one that begins minted.
FirstMinted == <<CHOOSE v \in Vins \ Verified : TRUE>>

\* All but one VIN begin minted.
AllButOneMinted ==
  LET last == CHOOSE v \in Vins : TRUE
      minted == Vins \ {last}
  IN  CHOOSE s \in [1..Cardinality(minted) -> minted] :
        \A i, k \in DOMAIN s : s[i] = s[k] => i = k
=============================================================================
