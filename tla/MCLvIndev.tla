------------------------------ MODULE MCLvIndev ------------------------------
(* A window with a button in it and a mask beside it, like the desktop.       *)
EXTENDS LvIndev, TLC

CONSTANTS screen, window, button, mask

MCBelow ==
    screen :> {screen, window, button, mask} @@ window :> {window, button}
      @@ button :> {button} @@ mask :> {mask}
=============================================================================
