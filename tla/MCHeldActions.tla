---------------------------- MODULE MCHeldActions ----------------------------
(***************************************************************************)
(* Small instances of HeldActions.  One user owns the trajectory: ann, with *)
(* an agent of hers in session s1.  She may decide from session s2; a      *)
(* decision from s1 or by the agent itself must be refused.  Bob is an     *)
(* administrator, and his agent an intruder on ann's trajectory.           *)
(***************************************************************************)
EXTENDS HeldActions, TLC

CONSTANTS agent, agent2, intruder, annS1, annS2, bob, platform

\* The sign-ins and agents of the instances.
MCId ==
  (agent    :> [kind |-> "agent", actor |-> "a1",  user |-> "ann", session |-> "s1"]) @@
  (agent2   :> [kind |-> "agent", actor |-> "a1",  user |-> "ann", session |-> "s3"]) @@
  (intruder :> [kind |-> "agent", actor |-> "b1",  user |-> "bob", session |-> "s4"]) @@
  (platform :> [kind |-> "agent", actor |-> "cron", user |-> NoUser, session |-> NoSession]) @@
  (annS1    :> [kind |-> "user",  actor |-> "ann", user |-> "ann", session |-> "s1"]) @@
  (annS2    :> [kind |-> "user",  actor |-> "ann", user |-> "ann", session |-> "s2"]) @@
  (bob      :> [kind |-> "user",  actor |-> "bob", user |-> "bob", session |-> "s5"])

\* Requests, proposal ids and versions are only ever compared for equality.
Symmetry == Permutations(Calls) \cup Permutations(ProposalIds)
              \cup Permutations(Deciders) \cup Permutations(Versions)
=============================================================================
