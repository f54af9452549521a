------------------------------ MODULE Navigation ------------------------------
(***************************************************************************)
(* The map of the program: which window the touch can go to after which.   *)
(* Each component knows a part of it; the windows it does not know, seen   *)
(* from there, are elsewhere.                                              *)
(***************************************************************************)
CONSTANTS Known, Elsewhere

VARIABLE shown   \* the window that gets the touch, as the component sees it

\* An application that finds no file leaves the desktop to what is below it: a lock
\* window, the list of songs that was left there, or nothing.
Ways == {
    <<"lock", "unlock">>, <<"unlock", "lock">>, <<"unlock", "setpw">>, <<"setpw", "lock">>,
    <<"unlock", "desktop">>, <<"desktop", "mask">>, <<"mask", "lock">>,
    <<"desktop", "list">>, <<"list", "player">>, <<"player", "list">>, <<"list", "desktop">>,
    <<"desktop", "thumbs">>, <<"thumbs", "viewer">>, <<"viewer", "thumbs">>,
    <<"thumbs", "desktop">>,
    <<"desktop", "time">>, <<"time", "desktop">>,
    <<"desktop", "lock">>, <<"desktop", "none">> }

View(window) == IF window \in Known THEN window ELSE Elsewhere

Init == shown = View("lock")

Next == \E way \in Ways : shown = View(way[1]) /\ shown' = View(way[2])

Restart == shown' = View("lock")

Spec == Init /\ [][Next]_shown

\* for a component that power cuts are part of
SpecWithRestarts == Init /\ [][Next \/ Restart]_shown
=============================================================================
