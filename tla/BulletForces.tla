---------------------------- MODULE BulletForces ----------------------------
(***************************************************************************)
(* What a simulated spine does with the key "bullet" of the actions it is  *)
(* sent: Spine merges each action into its working dictionary, which only  *)
(* a reset clears, and BulletInterface keeps the external forces it reads  *)
(* there, link by link, until others replace them (upkie/cpp/spine/        *)
(* Spine.cpp, upkie/cpp/actuation/BulletInterface.cpp).  A force is a      *)
(* number, and 0 is for none: the dictionary does not name the link, or    *)
(* the interface has no force to apply to it.  Names that are not those of *)
(* Links are ignored, with a warning, and left out.                        *)
(***************************************************************************)
EXTENDS Integers

CONSTANT Links

VARIABLES
    working_bullet,     \* forces in the action of the working dictionary
    external_forces     \* external_forces_, which all cycles apply

bullet_vars == <<working_bullet, external_forces>>

NoForces == [link \in Links |-> 0]

BulletTypeOK == {working_bullet, external_forces} \subseteq [Links -> Int]

BulletInit == working_bullet = NoForces /\ external_forces = NoForces

\* Dictionary::update merges nested dictionaries: it leaves the links that the
\* new one does not name.
update(forces) ==
    [link \in Links |->
        IF forces[link] # 0 THEN forces[link] ELSE working_bullet[link]]

process_forces(forces) ==
    [link \in Links |->
        IF forces[link] # 0 THEN forces[link] ELSE external_forces[link]]

\* All substeps of a step process the same dictionary.
ServeStep(forces) ==
    /\ working_bullet' = update(forces)
    /\ external_forces' = process_forces(working_bullet')

\* The action is cleared, the forces are not: the cycles of a reset apply them.
ServeReset ==
    /\ working_bullet' = NoForces
    /\ UNCHANGED external_forces

=============================================================================
