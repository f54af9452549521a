---------------------------- MODULE PasswordStore ----------------------------
(***************************************************************************)
(* What the lock screen promises to the owner of the device.  A closed     *)
(* door asks for a password, opens only where one was asked for, and is    *)
(* closed again.  A new password is set at the closed door.  The password  *)
(* asked for is always one that was set; it is the latest one while that   *)
(* is kept, that is, while its file was written and read without a failure *)
(* and no power cut came too early.                                        *)
(***************************************************************************)
CONSTANTS Passwords, Default

VARIABLES
    door,     \* "closed", "asking" or "open"
    secret,   \* the password asked for
    latest,   \* the password set last
    wasSet,      \* every password that was set
    kept      \* nothing happened to the latest password

vars == <<door, secret, latest, wasSet, kept>>

Init == /\ door = "closed" /\ secret = Default
        /\ latest = Default /\ wasSet = {Default} /\ kept = TRUE

\* a failure while the file is read may lose the latest password, to an older one
Ask == /\ door = "closed" /\ door' = "asking"
       /\ kept' => kept
       /\ secret' \in wasSet
       /\ kept' => secret' = latest
       /\ UNCHANGED <<latest, wasSet>>

Open == /\ door = "asking" /\ door' = "open"
        /\ UNCHANGED <<secret, latest, wasSet, kept>>

Close == /\ door \in {"asking", "open"} /\ door' = "closed"
         /\ UNCHANGED <<secret, latest, wasSet, kept>>

\* the new password is not kept before it is written
Set(w) == /\ door = "closed" /\ kept' = FALSE
          /\ secret' = w /\ latest' = w /\ wasSet' = wasSet \cup {w}
          /\ UNCHANGED door

\* the latest password is written
Keep == /\ door = "closed" /\ secret = latest
        /\ kept' = TRUE
        /\ UNCHANGED <<door, secret, latest, wasSet>>

\* power goes off and on, or a write begins
Interrupt == /\ door' = "closed"
             /\ secret' \in {secret, Default}
             /\ kept' => kept
             /\ UNCHANGED <<latest, wasSet>>

Next == Ask \/ Open \/ Close \/ (\E w \in Passwords : Set(w)) \/ Keep \/ Interrupt

Spec == Init /\ [][Next]_vars
=============================================================================
