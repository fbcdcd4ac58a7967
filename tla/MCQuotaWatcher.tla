-------------------------- MODULE MCQuotaWatcher ---------------------------
(* One quota beside the default one, and a quota-denied event beside an     *)
(* event that waits for the ticker.                                         *)
EXTENDS QuotaWatcher

MCOtherNames == {"team-quota"}
MCUserRefs == {"", "resource-quota", "team-quota"}
MCPodEvents == {"denied", "failed"}
MCImmediate == {"denied"}
=============================================================================
