---------------------------- MODULE MCSwarmFleet ----------------------------
(***************************************************************************)
(* Two vehicles, v and w, and two formations that exchange their slots: a   *)
(* mix of both puts two vehicles into one slot.                             *)
(***************************************************************************)
EXTENDS SwarmFleet

CONSTANTS v, w, a, b, s, t

MCMembers == <<v, w>>
MCFormations == {[n \in {v, w} |-> IF n = v THEN a ELSE b],
                 [n \in {v, w} |-> IF n = v THEN b ELSE a]}
=============================================================================
