---------------------------- MODULE MCReadMirror ----------------------------
(***************************************************************************)
(* Instances of ReadMirror for TLC.                                        *)
(***************************************************************************)
EXTENDS ReadMirror

\* One engine family and the attributes.
Order == <<"attrs", "bgp">>
Poll(f) == [kind |-> "poll", fams |-> <<f>>]
Drift == [kind |-> "drift", fams |-> <<"attrs">>]
Sync == [kind |-> "sweep", fams |-> <<"attrs", "bgp">>]

PollsAndSyncs == {Poll("bgp"), Sync, Drift}

\* One read may find a reader that does not cover the section; each succeeds or fails.
ServedByRead == <<{"ok", "error", "partial"}, {"ok", "error"}>>

\* Tasks are interchangeable, and so are the entries of a section.
MirrorSymmetry == Permutations(Readers) \cup Permutations(UNION Bodies)
=============================================================================
