----------------------------- MODULE Publication -----------------------------
(***************************************************************************)
(* What the read mirror promises its readers: for each family of a device  *)
(* one published read, replaced only by a later one, and none of a source  *)
(* that the device no longer has.  The second promise has one exception,   *)
(* which is named here so that nothing else hides in it: a run that        *)
(* reloaded the device row after its read knows the new generation and     *)
(* publishes the old read under it.                                        *)
(***************************************************************************)
EXTENDS Naturals

CONSTANTS Families

VARIABLES
  epoch,      \* the generation of the device's source mapping
  shown,      \* per family the read that is shown
  reloaded    \* a run that has read has since reloaded the device row

vars == <<epoch, shown>>

Nothing == [at |-> 0, src |-> 0]

Init == epoch = 1 /\ shown = [f \in Families |-> Nothing]

\* A later read takes the place of the one shown: of the present source, or by a
\* run that reloaded the device.
Replace(f) ==
  \E src \in 1 .. epoch :
    /\ src = epoch \/ reloaded
    /\ shown'[f].at \in Nat /\ shown'[f].at > shown[f].at
    /\ shown' = [shown EXCEPT ![f] = [at |-> shown'[f].at, src |-> src]]
    /\ UNCHANGED epoch

\* The mapping changes and nothing of the old source stays.
Invalidate == epoch' = epoch + 1 /\ shown' = [f \in Families |-> Nothing]

Next == Invalidate \/ \E f \in Families : Replace(f)

Spec == Init /\ [][Next]_vars
=============================================================================
