-------------------------------- MODULE MCPool --------------------------------
(***************************************************************************)
(* The instance of ConnectionPool that TLC checks: two workers, a handler  *)
(* and the operations consumer share the pool; a worker of all kinds of    *)
(* jobs also verifies and takes indexes.                                   *)
(***************************************************************************)
EXTENDS PoolProperties

CONSTANTS w1, w2, h1, k1

Callers == {w1, w2, h1, k1}
UsesOf  == [c \in Callers |->
              CASE c = w1 -> {"update", "index", "verify"}
                [] c = w2 -> {"update"}
                [] c = h1 -> {"service"}
                [] c = k1 -> {"enroll"}]
=============================================================================
