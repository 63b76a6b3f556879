---------------------------- MODULE MCLoadBalance ----------------------------
(* An instance of LoadBalance for TLC: one service, and a name without      *)
(* configuration that has a rule of its own before it.                      *)
EXTENDS LoadBalance, TLC

CONSTANTS idx, bad, update, register, stray

OneServiceMax == idx :> 4
OneServiceRules == << <<update, bad>>, <<update, idx>>, <<register, bad>> >>

=============================================================================
