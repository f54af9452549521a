----------------------------- MODULE LockScreen -----------------------------
(***************************************************************************)
(* The lock screen of src/src/screen.c: the window that asks for the       *)
(* password, the one that sets a new password, and the file the password   *)
(* is kept in.                                                             *)
(*                                                                         *)
(* save_password opens the file for writing, which empties it, and writes  *)
(* the password when it closes it; either call may fail, and save_password *)
(* then says nothing.  load_password takes any file it cannot open for a   *)
(* missing one.  What the program reads back is the page cache (variable   *)
(* file); what a power cycle leaves is the disk, to which the kernel       *)
(* copies the cache when it likes.  The code never calls fsync.            *)
(***************************************************************************)
EXTENDS Integers, Sequences

CONSTANTS
    Digits,            \* the keys of the keypad
    PASSWORD_LENGTH,
    DefaultPassword,   \* "1234"
    Missing            \* there is no password file

IsPassword(w) == w \in Seq(Digits) /\ Len(w) = PASSWORD_LENGTH

ASSUME LengthAssumption == PASSWORD_LENGTH \in Nat \ {0}
ASSUME DefaultAssumption == IsPassword(DefaultPassword)
ASSUME MissingAssumption == Missing \notin Seq(Digits)

VARIABLES
    pc,                \* "idle", or "write": between fopen and fclose
    screen,            \* the window on top
    stored_password,
    input_password,
    new_password,
    confirm_password,
    password_step,     \* 0: type the new password, 1: type it again
    file,              \* the password file, as the program reads it
    disk,              \* the password file, as a power cycle leaves it
    \* History, not in the code:
    lastSet,           \* the password the user set last
    chosen,            \* every password the user ever typed twice
    mishap             \* since then a save or a load failed, or power was cut too early

entryVars == <<input_password, new_password, confirm_password, password_step>>
historyVars == <<lastSet, chosen, mishap>>
vars == <<pc, screen, stored_password, entryVars, file, disk, historyVars>>

IsEntry(w) == w \in Seq(Digits) /\ Len(w) <= PASSWORD_LENGTH

TypeOK ==
    /\ pc \in {"idle", "write"}
    /\ screen \in {"lock", "unlock", "setpw", "desktop", "dark"}
    /\ IsEntry(stored_password)
    /\ IsEntry(input_password)
    /\ IsEntry(new_password)
    /\ IsEntry(confirm_password)
    /\ password_step \in {0, 1}
    /\ file = Missing \/ IsEntry(file)
    /\ disk = Missing \/ IsEntry(disk)
    /\ IsPassword(lastSet)
    /\ \A w \in chosen : IsPassword(w)
    /\ mishap \in BOOLEAN

Init ==
    /\ pc = "idle" /\ screen = "lock"
    /\ stored_password = DefaultPassword
    /\ input_password = <<>> /\ new_password = <<>> /\ confirm_password = <<>>
    /\ password_step = 0
    /\ file = Missing /\ disk = Missing
    /\ lastSet = DefaultPassword /\ chosen = {DefaultPassword} /\ mishap = FALSE

-----------------------------------------------------------------------------
(* Definitions named X_... are mutants: X with a plausible slip, used only to *)
(* see that a property notices it.                                           *)
Typed_NoLimit(buffer, d) == Append(buffer, d)

\* a digit key, on a buffer of PASSWORD_LENGTH + 1 characters
Typed(buffer, d) ==
    IF Len(buffer) < PASSWORD_LENGTH THEN Append(buffer, d) ELSE buffer

\* the DEL key
Deleted(buffer) == SubSeq(buffer, 1, Len(buffer) - 1)

Loaded_AlwaysMemory == stored_password

\* load_password from a file there is: fgets of an empty one reads nothing
Loaded == IF file = <<>> THEN stored_password ELSE file

\* fopen of save_password: the file is empty now, or could not be opened
OpenForWriting(next) ==
    \/ file' = <<>> /\ pc' = "write" /\ UNCHANGED screen
    \/ UNCHANGED file /\ pc' = "idle" /\ screen' = next

\* UnlockScreen after a swipe: load_password, which goes back to the default if the
\* file is missing or cannot be opened; then the window with an empty input
OpenUnlock ==
    /\ pc = "idle" /\ screen = "lock"
    /\ \/ /\ file # Missing
          /\ stored_password' = Loaded
          /\ screen' = "unlock"
          /\ UNCHANGED <<pc, file, mishap>>
       \/ /\ stored_password' = DefaultPassword
          /\ OpenForWriting("unlock")
          /\ mishap' = (mishap \/ file # Missing)
    /\ input_password' = IF pc' = "idle" THEN <<>> ELSE input_password
    /\ UNCHANGED <<new_password, confirm_password, password_step, disk, lastSet, chosen>>

UnlockKeypad_FirstDigit(d) ==
    /\ pc = "idle" /\ screen = "unlock"
    /\ LET input == Typed(input_password, d) IN
        \/ /\ Len(input) < PASSWORD_LENGTH
           /\ input_password' = input /\ UNCHANGED screen
        \/ /\ Len(input) = PASSWORD_LENGTH /\ Head(input) = Head(stored_password)
           /\ input_password' = input /\ screen' = "desktop"
    /\ UNCHANGED <<pc, stored_password, new_password, confirm_password,
                   password_step, file, disk, historyVars>>

\* unlock_keypad_event_cb: the last digit opens the desktop or clears the input
UnlockKeypad(d) ==
    /\ pc = "idle" /\ screen = "unlock"
    /\ LET input == Typed(input_password, d) IN
        \/ /\ Len(input) < PASSWORD_LENGTH
           /\ input_password' = input /\ UNCHANGED screen
        \/ /\ Len(input) = PASSWORD_LENGTH /\ input = stored_password
           /\ input_password' = input /\ screen' = "desktop"
        \/ /\ Len(input) = PASSWORD_LENGTH /\ input # stored_password
           /\ input_password' = <<>> /\ UNCHANGED screen
    /\ UNCHANGED <<pc, stored_password, new_password, confirm_password,
                   password_step, file, disk, historyVars>>

Cancel ==
    /\ pc = "idle" /\ screen = "unlock" /\ screen' = "lock"
    /\ UNCHANGED <<pc, stored_password, entryVars, file, disk, historyVars>>

\* forgot_btn_event_cb: SetPasswordScreen
Forgot ==
    /\ pc = "idle" /\ screen = "unlock" /\ screen' = "setpw"
    /\ new_password' = <<>> /\ confirm_password' = <<>> /\ password_step' = 0
    /\ UNCHANGED <<pc, stored_password, input_password, file, disk, historyVars>>

\* set_password_keypad_event_cb in step 0: a digit or DEL
TypeNew ==
    /\ pc = "idle" /\ screen = "setpw" /\ password_step = 0
    /\ new_password' \in {Deleted(new_password)} \cup {Typed(new_password, d) : d \in Digits}
    /\ password_step' = IF Len(new_password') = PASSWORD_LENGTH THEN 1 ELSE 0
    /\ UNCHANGED <<pc, screen, stored_password, input_password, confirm_password,
                   file, disk, historyVars>>

\* and in step 1
TypeAgain ==
    /\ pc = "idle" /\ screen = "setpw" /\ password_step = 1
    /\ confirm_password' \in
            {Deleted(confirm_password)} \cup {Typed(confirm_password, d) : d \in Digits}
    /\ UNCHANGED <<pc, screen, stored_password, input_password, new_password,
                   password_step, file, disk, historyVars>>

Complete == password_step = 1 /\ Len(confirm_password) = PASSWORD_LENGTH

Matches_NoCompare == Complete

\* the condition under which the Save button saves
Matches == Complete /\ new_password = confirm_password

\* confirm_set_password_btn_event_cb, the passwords agree
Save ==
    /\ pc = "idle" /\ screen = "setpw" /\ Matches
    /\ stored_password' = new_password
    /\ OpenForWriting("lock")
    /\ mishap' = (mishap \/ pc' = "idle")
    /\ lastSet' = new_password
    /\ chosen' = chosen \cup (IF new_password = confirm_password THEN {new_password} ELSE {})
    /\ UNCHANGED <<entryVars, disk>>

\* and they do not: from the start
Mismatch ==
    /\ pc = "idle" /\ screen = "setpw" /\ Complete /\ ~ Matches
    /\ new_password' = <<>> /\ confirm_password' = <<>> /\ password_step' = 0
    /\ UNCHANGED <<pc, screen, stored_password, input_password, file, disk, historyVars>>

\* set_password_back_btn_event_cb
SetPasswordBack ==
    /\ pc = "idle" /\ screen = "setpw" /\ screen' = "lock"
    /\ UNCHANGED <<pc, stored_password, entryVars, file, disk, historyVars>>

\* fprintf and fclose of save_password, which write or fail; then the rest of the
\* handler: UnlockScreen from "lock", the Save button from "setpw"
WriteAndClose ==
    /\ pc = "write" /\ pc' = "idle"
    /\ file' \in {stored_password, file}
    /\ \/ /\ screen = "lock"
          /\ screen' = "unlock" /\ input_password' = <<>> /\ UNCHANGED mishap
       \/ /\ screen = "setpw"
          /\ screen' = "lock" /\ UNCHANGED input_password
          /\ mishap' = (file' # stored_password)
    /\ UNCHANGED <<stored_password, new_password, confirm_password, password_step,
                   disk, lastSet, chosen>>

\* desktop_long_press_timer_cb, then a click on the black mask
Blackout ==
    /\ pc = "idle" /\ screen = "desktop" /\ screen' = "dark"
    /\ UNCHANGED <<pc, stored_password, entryVars, file, disk, historyVars>>

WakeUp ==
    /\ pc = "idle" /\ screen = "dark" /\ screen' = "lock"
    /\ UNCHANGED <<pc, stored_password, entryVars, file, disk, historyVars>>

\* an application that finds no file deletes the desktop and opens no window: the lock
\* window below gets the touch, unless an application cleaned the screen before
NoFile ==
    /\ pc = "idle" /\ screen = "desktop" /\ screen' = "lock"
    /\ UNCHANGED <<pc, stored_password, entryVars, file, disk, historyVars>>

-----------------------------------------------------------------------------
(* The environment. *)

\* the kernel writes the page cache back
WriteBack ==
    /\ disk' = file
    /\ UNCHANGED <<pc, screen, stored_password, entryVars, file, historyVars>>

\* power off and on, at any moment: the program starts from its initial values
PowerCycle ==
    /\ pc' = "idle" /\ screen' = "lock"
    /\ stored_password' = DefaultPassword
    /\ input_password' = <<>> /\ new_password' = <<>> /\ confirm_password' = <<>>
    /\ password_step' = 0
    /\ file' = disk
    /\ mishap' = (mishap \/ pc = "write" \/ disk # file)
    /\ UNCHANGED <<disk, lastSet, chosen>>

Next ==
    \/ OpenUnlock \/ Cancel \/ Forgot
    \/ \E d \in Digits : UnlockKeypad(d)
    \/ TypeNew \/ TypeAgain \/ Save \/ Mismatch \/ SetPasswordBack
    \/ WriteAndClose
    \/ Blackout \/ WakeUp \/ NoFile
    \/ WriteBack \/ PowerCycle

Spec == Init /\ [][Next]_vars

-----------------------------------------------------------------------------
(* Safety. *)

\* The password in effect can always be typed, and so can one a later load_password
\* will read: whatever fails and whenever power is cut, the user is not locked out
\* by an empty or a half-typed password.
NeverLockedOut ==
    /\ IsPassword(stored_password)
    /\ \A content \in {file, disk} : content \in {Missing, <<>>} \/ IsPassword(content)

\* The two entries of the set-password window are in step: the confirmation starts
\* only after a complete password, and a new first entry begins without a rest of
\* the confirmation of an earlier try.
EntriesInStep ==
    screen = "setpw" =>
        /\ password_step = 1 <=> Len(new_password) = PASSWORD_LENGTH
        /\ password_step = 0 => confirm_password = <<>>

\* The desktop is open, or black, only after exactly the password in effect was typed
OpenedByPassword == screen \in {"desktop", "dark"} => input_password = stored_password

\* A password is in effect, in the file or on the disk only if the user typed it
\* twice in a row in the set-password window, or it is the default: neither a
\* failed save nor a power cut makes up another one.
OnlyChosenPasswords ==
    /\ stored_password \in chosen
    /\ {file, disk} \subseteq {Missing, <<>>} \cup chosen

\* Unless a save or a load failed or power was cut before the data were on the disk, the
\* password asked for is the one set last, over any number of restarts.
ChosenOpens == screen # "lock" /\ ~ mishap => stored_password = lastSet

\* The windows as a door: the keypad asks, the desktop is behind it.
Door == CASE screen \in {"lock", "setpw"}    -> "closed"
          [] screen = "unlock"               -> "asking"
          [] screen \in {"desktop", "dark"}  -> "open"

Store == INSTANCE PasswordStore
         WITH Passwords <- [1 .. PASSWORD_LENGTH -> Digits],
              Default   <- DefaultPassword,
              door      <- Door,
              secret    <- stored_password,
              latest    <- lastSet,
              wasSet    <- chosen,
              kept      <- ~ mishap /\ ~ (pc = "write" /\ screen = "setpw")

\* Through all windows, failing system calls and power cuts the lock screen is a password
\* store: only the keypad opens the desktop, what it asks for was set by somebody, and
\* is the latest password while that was kept.
StoresPasswords == Store!Spec

Map == INSTANCE Navigation
       WITH Known     <- {"lock", "unlock", "setpw", "mask"},
            Elsewhere <- "desktop",
            shown     <- IF screen = "dark" THEN "mask" ELSE screen

\* What this module takes for the windows of the lock screen is a view of the map that
\* Shell follows too, with the desktop and all applications as one window.
FollowsMap == Map!SpecWithRestarts

-----------------------------------------------------------------------------
(* What comments of the source say and the code does not do. *)

\* Lines 527-528 and 797: a new password takes effect at once and survives a
\* restart.  save_password does not report that the file could not be opened or
\* written, and the next UnlockScreen reads the old file again.
NewPasswordStays == screen = "unlock" => stored_password = lastSet
=============================================================================
