---------------------------- MODULE MCWorkspace ----------------------------
(* A small instance of Workspace for TLC.                                  *)
EXTENDS Workspace, TLC

CONSTANTS river, hill, app

\* The caller's token is for the first sub-account; it may name both.
MCTokenOf == (app :> river)

\* Two hours that meet, and a double hour over both.
Hour(n) == [start |-> n, end |-> n + 1]
MCSlots == {Hour(1), Hour(2), [start |-> 1, end |-> 3]}
MCOffer == {Hour(1), Hour(2)}
=============================================================================
