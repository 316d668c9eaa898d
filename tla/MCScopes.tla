------------------------------ MODULE MCScopes ------------------------------
(* Instances of ScopeMachine for TLC: families of subroutines, by how many *)
(* statements of each kind they have (the kinds not named: none).          *)
EXTENDS ScopeMachine

Family(counts) ==
  [s \in Statements |-> IF s \in DOMAIN counts THEN counts[s] ELSE 0]

Programs ==
  { Family([declare |-> 2, if |-> 1, eval |-> 1, loop |-> 1, jump |-> 1]),
    Family([declare |-> 3, plain |-> 2, if |-> 1]),
    Family([declare |-> 1, if |-> 1, loop |-> 1, switch |-> 1, case |-> 1, jump |-> 1]),
    Family([call |-> 1, eval |-> 1, if |-> 2, logical |-> 2]),
    Family([loop |-> 2, switch |-> 1, case |-> 2, jump |-> 2]) }

NestedEvals      == { Family([call |-> 2, eval |-> 2]) }
LoopsWithTemps   == { Family([declare |-> 1, loop |-> 1]) }
LogicalOperators == { Family([declare |-> 3, if |-> 1, logical |-> 1, plain |-> 1]) }
SwitchVariables  == { Family([declare |-> 3, switch |-> 1, case |-> 1, if |-> 1, jump |-> 1]) }
=============================================================================
