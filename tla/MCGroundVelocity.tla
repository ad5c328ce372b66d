-------------------------- MODULE MCGroundVelocity --------------------------
(***************************************************************************)
(* GroundVelocityEnv for TLC: the user's extras are for another link than  *)
(* the torso.  Those for the torso do what RandomPush does.                *)
(***************************************************************************)
EXTENDS GroundVelocityEnv

MCExtraLinks == [n \in 1 .. MaxEntries |-> Links \ {torso}]

=============================================================================
