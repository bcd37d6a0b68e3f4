--------------------------- MODULE MCRecoveryBoot ---------------------------
(* RecoveryBoot with one request of each kind the header of recovery.cpp   *)
(* names, with and without --send_intent where it matters.                 *)
EXTENDS RecoveryBoot

FactoryReset == [NoCommand EXCEPT !.wipe_data = TRUE, !.send_intent = TRUE]
WipeCacheOnly == [NoCommand EXCEPT !.wipe_cache = TRUE]
OtaInstall == [NoCommand EXCEPT !.pkg = "cache"]
OtaAndWipe == [NoCommand EXCEPT !.pkg = "cache", !.wipe_cache = TRUE]
IntentOnly == [NoCommand EXCEPT !.send_intent = TRUE]

MCCommands == {FactoryReset, WipeCacheOnly, OtaInstall, OtaAndWipe, IntentOnly}
MCReset == {FactoryReset}
=============================================================================
