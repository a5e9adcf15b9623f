------------------------- MODULE MCFlightModeManager -------------------------
(***************************************************************************)
(* Modes with a task of each kind, a mode without one, and the external      *)
(* mode. Without a position no autonomous task starts; without an altitude   *)
(* nothing does but the last two.                                            *)
(***************************************************************************)
EXTENDS FlightModeManager

NoPosition == {"Auto", "AutoFollowTarget", "Orbit", "ManualPosition", "ManualAccelerationSlow"}
NoAltitude == NoPosition \cup {"Transition", "ManualAltitude", "AltitudeCruise"}

MCFailures == {{}, NoPosition, NoAltitude, NoAltitude \cup {"Descend"}}
=============================================================================
