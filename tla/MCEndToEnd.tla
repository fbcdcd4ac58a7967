---------------------------- MODULE MCEndToEnd -----------------------------
(* Quotas of 1 or 2 pods, cut to what is used whenever that is less.        *)
EXTENDS EndToEnd

CONSTANTS n1, c1, c2

SameBound(x) == [cpu |-> x, memory |-> x]
CutToUse(value) ==
  <<[method |-> "cpu", value |-> value, target |-> 0],
    [method |-> "memory", value |-> value, target |-> 0]>>
MCQuotas == [hard : 1 .. 2, used : 0 .. 2, ready : {TRUE}]
MCScaler == [min |-> SameBound(1), max |-> SameBound(2), up |-> CutToUse(100), down |-> CutToUse(100)]
MCDefaults == [min |-> SameBound(1), max |-> SameBound(2)]
=============================================================================
