------------------------------- MODULE Mirror -------------------------------
(***************************************************************************)
(* What a copy of zones kept elsewhere promises.  The records of a zone    *)
(* are a version, counted from 1; 0 is a zone not there yet.  The copy may *)
(* lag and may skip versions, but it never holds what the original never   *)
(* held, never goes back, and gives a zone up only when the original is    *)
(* over.  What was read before that may still arrive after.                *)
(***************************************************************************)
EXTENDS Integers

CONSTANT Copied      \* the zones

VARIABLES original, copy, over   \* over: zones whose original is gone for good

mirror == <<original, copy, over>>

MirrorInit == original = [z \in Copied |-> 0] /\ copy = [z \in Copied |-> 0] /\ over = {}

Change(z) ==
    /\ z \notin over
    /\ original' = [original EXCEPT ![z] = @ + 1]
    /\ UNCHANGED <<copy, over>>

Remove(z) ==
    /\ original[z] > 0 /\ over' = over \cup {z} /\ UNCHANGED <<original, copy>>

Copy(z) ==
    /\ \E v \in copy[z] .. original[z] : copy' = [copy EXCEPT ![z] = v]
    /\ UNCHANGED <<original, over>>

Forget(z) ==
    /\ z \in over /\ copy' = [copy EXCEPT ![z] = 0] /\ UNCHANGED <<original, over>>

MirrorNext == \E z \in Copied : Change(z) \/ Remove(z) \/ Copy(z) \/ Forget(z)

MirrorSpec == MirrorInit /\ [][MirrorNext]_mirror

=============================================================================
