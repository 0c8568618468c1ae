------------------------------ MODULE MCServe ------------------------------
(***************************************************************************)
(* An instance of ServeTimeline: two mints, a rise and a fall, a mint that *)
(* graduates.  Between two stamps there is room for an order's row and its *)
(* fill, and an order may also outlast the next stamp.                     *)
(***************************************************************************)
EXTENDS ServeTimeline

At(mint, ts, price, complete) ==
  [mint |-> mint, ts |-> ts, price |-> price, complete |-> complete]
MCRecording ==
  <<At("a", 1, 10, FALSE), At("a", 4, 20, FALSE), At("b", 4, 10, FALSE),
    At("a", 6, 12, FALSE), At("b", 6, 10, TRUE)>>
MCPasses == [s \in RuleSets |-> IF s = "s1" THEN {1, 3} ELSE {1, 2, 4}]
MCExitCfg == [s \in RuleSets |->
  IF s = "s1" THEN [stop |-> 30, profit |-> 0, trail |-> 35, hold |-> 0]
              ELSE [stop |-> 0, profit |-> 50, trail |-> 0, hold |-> 4]]
=============================================================================
