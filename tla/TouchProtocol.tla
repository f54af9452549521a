---------------------------- MODULE TouchProtocol ----------------------------
(***************************************************************************)
(* What a program may expect of LVGL's touch events: at most one object is *)
(* pressed at a time; RELEASED goes to the pressed object only, CLICKED to *)
(* the object just released only, once, and nothing is pressed in between. *)
(* An object that is deleted, or loses the press, drops out of the story.  *)
(***************************************************************************)
CONSTANTS Objects, None

VARIABLES
    pressed,    \* objects told PRESSED and waiting for the end of it
    released    \* the object told RELEASED that may still be clicked

Init == pressed = {} /\ released = None

\* the callback of an event may delete its receiver at once
Press(o) ==
    /\ pressed = {} /\ released = None
    /\ pressed' \in {{o}, {}}
    /\ UNCHANGED released

Release(o) ==
    /\ pressed = {o} /\ pressed' = {}
    /\ released' \in {o, None}

Click ==
    /\ released # None /\ released' = None
    /\ pressed = {} /\ UNCHANGED pressed

DropOut ==
    /\ pressed' \in SUBSET pressed
    /\ released' \in {released, None}

Next == (\E o \in Objects : Press(o) \/ Release(o)) \/ Click \/ DropOut

Spec == Init /\ [][Next]_<<pressed, released>>
=============================================================================
