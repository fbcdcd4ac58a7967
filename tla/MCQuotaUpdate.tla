--------------------------- MODULE MCQuotaUpdate ---------------------------
(* Quotas of 1 or 2 pods.  With the value 100 only events raise a quota,    *)
(* and it is cut to what is used.                                           *)
EXTENDS QuotaUpdate

CONSTANTS n1, c1, c2

MCCalls == {c1, c2}

SameBound(x) == [cpu |-> x, memory |-> x]
CutToUse(value) ==
  <<[method |-> "cpu", value |-> value, target |-> 0],
    [method |-> "memory", value |-> value, target |-> 0]>>
MCQuotas ==
  {[hard |-> 1, used |-> 1, ready |-> TRUE], [hard |-> 1, used |-> 0, ready |-> FALSE]}
MCOneQuota == {[hard |-> 1, used |-> 1, ready |-> TRUE]}

MCScaler == [min |-> SameBound(1), max |-> SameBound(2), up |-> CutToUse(100), down |-> CutToUse(100)]
MCDefaults == [min |-> SameBound(1), max |-> SameBound(2)]

=============================================================================
