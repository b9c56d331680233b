-------------------------- MODULE MCActivitySession --------------------------
(***************************************************************************)
(* Small instances of ActivitySession: ann and bob take turns, each with   *)
(* one client; eve is no participant.                                      *)
(***************************************************************************)
EXTENDS ActivitySession, TLC

CONSTANTS annTab, bobTab, eveTab

MCActor == (annTab :> "ann") @@ (bobTab :> "bob") @@ (eveTab :> "eve")
MCOrder == <<"ann", "bob">>
=============================================================================
