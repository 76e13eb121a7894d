---------------------------- MODULE MCCloudProbe ----------------------------
(* Two cases; one error that is tried twice and one that is not tried again. *)
EXTENDS CloudProbe

MCCode   == {"provider_busy", "provider_fatal"}
MCBudget == [provider_busy |-> 2, provider_fatal |-> 1]
=============================================================================
