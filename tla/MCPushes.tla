------------------------------ MODULE MCPushes ------------------------------
(***************************************************************************)
(* The write side for TLC: the projection and its generations (Projection) *)
(* and the handlers of every family (IntentFamilies) side by side.  A      *)
(* behaviour stays within one scope: the streams it uses, the contents it  *)
(* sends and how many pushes and generations, or the families, while the   *)
(* other module keeps its initial state.                                   *)
(***************************************************************************)
EXTENDS Projection

CONSTANTS Sections, Unrepresentable

VARIABLES scope, section, focus, rows, auth, sent, jobs, found, halt

fVars == <<section, focus, rows, auth, sent, jobs, found, halt>>

F == INSTANCE IntentFamilies

Scope(streams, bodies, pushes, generations) ==
  [streams |-> streams, bodies |-> bodies, pushes |-> pushes, gens |-> generations]

\* One row, with a scalar that may be unset or without; or two rows.
Scalars == {b \in [Keys -> 0 .. 2] : b["k2"] = 0}
TwoRows == [Keys -> 0 .. 1]
OneRow == Scalars \cap TwoRows
AllBodies == [Keys -> 0 .. 2]
OwnSections == [s \in Streams |-> s]

\* A direct stream over three pushes, and with several rows; the promotion chain
\* with scalars, and over three generations; the two streams together.
Direct == Scope({"vlan"}, Scalars, 3, 2)
SeveralRows == Scope({"vlan"}, TwoRows, 2, 2)
Promotion == Scope({"interface"}, Scalars, 2, 2)
LongChain == Scope({"interface"}, OneRow, 2, 3)
Together == Scope({"vlan", "interface"}, OneRow, 2, 2)

\* The handlers of every family, with the projection at rest.
Handlers == Scope({}, {}, 0, 0)

FamilyAtRest ==
  /\ section = "none" /\ focus = "none" /\ rows = <<>> /\ auth = <<>> /\ sent = {} /\ jobs = <<>>
  /\ found = <<>> /\ halt = "no"

PushesInit ==
  /\ Init
  /\ \/ scope \in {Direct, SeveralRows, Promotion, LongChain, Together} /\ FamilyAtRest
     \/ scope = Handlers /\ auto = FALSE /\ F!Init

\* The streams that may still get a push.
Pushed == IF Accepted < scope.pushes THEN scope.streams ELSE {}

PushesNext ==
  \/ /\ scope # Handlers
     /\ Operator(scope.streams) \/ Runtime(Pushed, scope.bodies)
     /\ Len(gens') <= scope.gens
     /\ History
     /\ UNCHANGED <<fVars, scope>>
  \/ scope = Handlers /\ F!Next /\ UNCHANGED <<vars, scope>>

PushesSpec == PushesInit /\ [][PushesNext]_<<vars, fVars, scope>>

\* NSO's document holds nothing that the stored intent no longer emits, save the
\* comparisons the handlers do not make.
NothingDroppedStays == scope = Handlers => F!NothingDroppedStays

\* The guard refuses a push for no key that the rows it replaced had named.
RefusedOnlyForMadeUp == scope = Handlers => F!RefusedOnlyForMadeUp
=============================================================================
