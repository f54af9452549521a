--------------------------- MODULE LockScreenProofs ---------------------------
(***************************************************************************)
(* What LockScreen promises, proved for every keypad, every length of the  *)
(* password and every default.                                             *)
(*                                                                         *)
(* The invariants are not inductive alone: what a load_password to come    *)
(* will read depends on the file, and what WriteAndClose will leave there  *)
(* depends on the window that called save_password.  SaveInProgress and    *)
(* FileKeepsChoice say so.                                                 *)
(***************************************************************************)
EXTENDS LockScreen, TLAPS

\* Between fopen and fclose the file is empty, and what will be written is the
\* default, from UnlockScreen, or the password just set, from the Save button.
SaveInProgress ==
    pc = "write" =>
        /\ file = <<>>
        /\ \/ screen = "lock" /\ stored_password = DefaultPassword
           \/ screen = "setpw" /\ stored_password = lastSet

\* Unless something went wrong, the file holds the password set last; or nothing was
\* ever set and the default is in memory.
FileKeepsChoice ==
    ~ mishap =>
        /\ screen # "lock" \/ pc = "write" => stored_password = lastSet
        /\ pc = "idle" =>
              \/ file = lastSet
              \/ /\ file \in {Missing, <<>>}
                 /\ lastSet = DefaultPassword /\ stored_password = DefaultPassword

Promises ==
    /\ NeverLockedOut
    /\ EntriesInStep
    /\ OpenedByPassword
    /\ OnlyChosenPasswords
    /\ DefaultPassword \in chosen

IndInv ==
    /\ TypeOK
    /\ Promises
    /\ SaveInProgress
    /\ FileKeepsChoice

-----------------------------------------------------------------------------
(* Facts about the keypad. *)

\* A digit key keeps a buffer within its length and makes it no shorter.
LEMMA TypedFits ==
    ASSUME NEW w, IsEntry(w), NEW d \in Digits
    PROVE  IsEntry(Typed(w, d)) /\ Len(Typed(w, d)) >= Len(w)
BY LengthAssumption DEF IsEntry, Typed

\* DEL keeps a buffer within its length and makes it shorter, if it can.
LEMMA DeletedFits ==
    ASSUME NEW w, IsEntry(w)
    PROVE  IsEntry(Deleted(w)) /\ Len(Deleted(w)) < PASSWORD_LENGTH
<1>1. CASE w = <<>>
  BY <1>1, LengthAssumption DEF IsEntry, Deleted
<1>2. CASE w # <<>>
  BY <1>2, LengthAssumption DEF IsEntry, Deleted
<1> QED BY <1>1, <1>2

\* The empty buffer is an entry and no password; a password is an entry and not the
\* mark of a missing file.
LEMMA EmptyEntry ==
    /\ IsEntry(<<>>)
    /\ ~ IsPassword(<<>>)
    /\ \A w : IsPassword(w) => IsEntry(w) /\ w # Missing
    /\ Missing # <<>>
<1>1. <<>> \in Seq(Digits) /\ Len(<<>>) = 0
  OBVIOUS
<1>2. IsEntry(<<>>)
  BY <1>1, LengthAssumption DEF IsEntry
<1>3. ~ IsPassword(<<>>)
  BY <1>1, LengthAssumption DEF IsPassword
<1>4. ASSUME NEW w, IsPassword(w) PROVE IsEntry(w) /\ w # Missing
  BY <1>4, LengthAssumption, MissingAssumption DEF IsEntry, IsPassword
<1>5. Missing # <<>>
  BY <1>1, MissingAssumption
<1> QED BY <1>2, <1>3, <1>4, <1>5

-----------------------------------------------------------------------------
LEMMA InitInv == Init => IndInv
BY EmptyEntry, DefaultAssumption
   DEF Init, IndInv, TypeOK, Promises, NeverLockedOut, EntriesInStep, OpenedByPassword,
       OnlyChosenPasswords, SaveInProgress, FileKeepsChoice, IsPassword

LEMMA OpenUnlockInv == IndInv /\ OpenUnlock => IndInv'
BY EmptyEntry, DefaultAssumption
   DEF OpenUnlock, OpenForWriting, Loaded, entryVars, historyVars, IndInv, TypeOK,
       Promises, NeverLockedOut, EntriesInStep, OpenedByPassword, OnlyChosenPasswords,
       SaveInProgress, FileKeepsChoice

LEMMA UnlockKeypadInv == ASSUME NEW d \in Digits, IndInv, UnlockKeypad(d) PROVE IndInv'
BY EmptyEntry, TypedFits
   DEF UnlockKeypad, entryVars, historyVars, IndInv, TypeOK,
       Promises, NeverLockedOut, EntriesInStep, OpenedByPassword, OnlyChosenPasswords,
       SaveInProgress, FileKeepsChoice

\* Steps that only change the window, or what a new set-password window begins with.
LEMMA WindowInv ==
    ASSUME IndInv,
           Cancel \/ Forgot \/ SetPasswordBack \/ Blackout \/ WakeUp \/ NoFile \/ Mismatch
    PROVE  IndInv'
<1>1. Len(<<>>) # PASSWORD_LENGTH
  BY LengthAssumption
<1>2. CASE Forgot \/ Mismatch
  BY <1>2, EmptyEntry, <1>1
     DEF Forgot, Mismatch, historyVars, IndInv, TypeOK, Promises, NeverLockedOut,
         EntriesInStep, OpenedByPassword, OnlyChosenPasswords, SaveInProgress,
         FileKeepsChoice
<1>3. CASE Cancel \/ SetPasswordBack \/ Blackout \/ WakeUp \/ NoFile
  BY <1>3
     DEF Cancel, SetPasswordBack, Blackout, WakeUp, NoFile, entryVars, historyVars,
         IndInv, TypeOK, Promises, NeverLockedOut, EntriesInStep, OpenedByPassword,
         OnlyChosenPasswords, SaveInProgress, FileKeepsChoice
<1> QED BY <1>2, <1>3

LEMMA TypeNewInv == IndInv /\ TypeNew => IndInv'
BY TypedFits, DeletedFits
   DEF TypeNew, historyVars, IndInv, TypeOK, Promises, NeverLockedOut, EntriesInStep,
       OpenedByPassword, OnlyChosenPasswords, SaveInProgress, FileKeepsChoice

LEMMA TypeAgainInv == IndInv /\ TypeAgain => IndInv'
BY TypedFits, DeletedFits
   DEF TypeAgain, historyVars, IndInv, TypeOK, Promises, NeverLockedOut, EntriesInStep,
       OpenedByPassword, OnlyChosenPasswords, SaveInProgress, FileKeepsChoice

LEMMA SaveInv == IndInv /\ Save => IndInv'
<1> SUFFICES ASSUME IndInv, Save PROVE IndInv'
  OBVIOUS
<1>1. IsPassword(new_password)
  BY DEF Save, Matches, Complete, IndInv, TypeOK, IsEntry, IsPassword
<1> QED
  BY <1>1, EmptyEntry
     DEF Save, Matches, Complete, OpenForWriting, entryVars, IndInv, TypeOK, Promises,
         NeverLockedOut, EntriesInStep, OpenedByPassword, OnlyChosenPasswords,
         SaveInProgress, FileKeepsChoice

LEMMA WriteAndCloseInv == IndInv /\ WriteAndClose => IndInv'
BY EmptyEntry
   DEF WriteAndClose, IndInv, TypeOK, Promises, NeverLockedOut, EntriesInStep,
       OpenedByPassword, OnlyChosenPasswords, SaveInProgress, FileKeepsChoice

LEMMA EnvironmentInv == IndInv /\ (WriteBack \/ PowerCycle) => IndInv'
BY EmptyEntry, DefaultAssumption
   DEF WriteBack, PowerCycle, entryVars, historyVars, IndInv, TypeOK, Promises,
       NeverLockedOut, EntriesInStep, OpenedByPassword, OnlyChosenPasswords,
       SaveInProgress, FileKeepsChoice

LEMMA StutterInv == IndInv /\ UNCHANGED vars => IndInv'
BY DEF vars, entryVars, historyVars, IndInv, TypeOK, Promises, NeverLockedOut,
       EntriesInStep, OpenedByPassword, OnlyChosenPasswords, SaveInProgress,
       FileKeepsChoice

\* The inductive invariant: the promises of the lock screen, and what save_password is
\* about to write, hold in every reachable state.
THEOREM Invariance == Spec => []IndInv
<1>1. IndInv /\ [Next]_vars => IndInv'
  BY OpenUnlockInv, UnlockKeypadInv, WindowInv, TypeNewInv, TypeAgainInv, SaveInv,
     WriteAndCloseInv, EnvironmentInv, StutterInv DEF Next
<1> QED BY InitInv, <1>1, PTL DEF Spec

\* Every variable stays in its type, in particular no buffer of the keypad handlers is
\* written past PASSWORD_LENGTH.
THEOREM TypeCorrect == Spec => []TypeOK
BY Invariance, PTL DEF IndInv

\* load_password and save_password never leave the user without a password to type.
THEOREM NobodyIsLockedOut == Spec => []NeverLockedOut
BY Invariance, PTL DEF IndInv, Promises

\* set_password_keypad_event_cb and the Save button keep the two entries in step.
THEOREM EntriesAgree == Spec => []EntriesInStep
BY Invariance, PTL DEF IndInv, Promises

\* Only the keypad of the unlock window opens the desktop, with the password in effect.
THEOREM DesktopNeedsPassword == Spec => []OpenedByPassword
BY Invariance, PTL DEF IndInv, Promises

\* Through failing saves and power cuts, only a password typed twice is ever in effect.
THEOREM NothingInvented == Spec => []OnlyChosenPasswords
BY Invariance, PTL DEF IndInv, Promises

\* The password set last is the one asked for, as long as no save failed and no power
\* cut came before its data were on the disk.
THEOREM ChoiceIsKept == Spec => []ChosenOpens
<1>1. IndInv => ChosenOpens
  BY DEF IndInv, FileKeepsChoice, ChosenOpens
<1> QED BY Invariance, <1>1, PTL

-----------------------------------------------------------------------------
(* The refinement: every step of the lock screen is one of the store or none. *)

\* A password is a function from positions to digits.
LEMMA PasswordsAreFunctions ==
    ASSUME NEW w, IsPassword(w) PROVE w \in [1 .. PASSWORD_LENGTH -> Digits]
BY LengthAssumption DEF IsPassword

LEMMA StoreInit == Init => Store!Init
BY DEF Init, Store!Init, Door

\* load_password asks for a password that was set, for the latest one if that was kept;
\* where there is no file the default is written first.
LEMMA StoreOpenUnlock == IndInv /\ OpenUnlock => Store!Next
<1> SUFFICES ASSUME IndInv, OpenUnlock PROVE Store!Next
  OBVIOUS
<1>1. /\ pc = "idle" /\ screen = "lock" /\ Door = "closed"
      /\ UNCHANGED <<lastSet, chosen>>
  BY DEF OpenUnlock, Door
<1>2. ~ mishap => file = lastSet \/ (file \in {Missing, <<>>} /\ lastSet = DefaultPassword
                                     /\ stored_password = DefaultPassword)
  BY <1>1 DEF IndInv, FileKeepsChoice
<1>3. IsPassword(lastSet) /\ lastSet # <<>> /\ lastSet # Missing
  BY EmptyEntry DEF IndInv, TypeOK
<1>4. CASE /\ file # Missing
           /\ stored_password' = Loaded
           /\ screen' = "unlock"
           /\ UNCHANGED <<pc, file, mishap>>
  <2>1. Loaded \in chosen
    BY <1>4 DEF Loaded, IndInv, Promises, OnlyChosenPasswords
  <2>2. ~ mishap => Loaded = lastSet
    BY <1>2, <1>3, <1>4 DEF Loaded
  <2>3. Store!Ask
    BY <1>1, <1>4, <2>1, <2>2 DEF Store!Ask, Door
  <2> QED BY <2>3 DEF Store!Next
<1>5. CASE /\ stored_password' = DefaultPassword
           /\ OpenForWriting("unlock")
           /\ mishap' = (mishap \/ file # Missing)
  <2>1. DefaultPassword \in chosen
    BY DEF IndInv, Promises
  <2>2. ~ mishap' => ~ mishap /\ lastSet = DefaultPassword
    BY <1>2, <1>3, <1>5
  <2>3. CASE screen' = "unlock" /\ pc' = "idle"
    <3>1. Store!Ask
      BY <1>1, <1>5, <2>1, <2>2, <2>3 DEF Store!Ask, Door
    <3> QED BY <3>1 DEF Store!Next
  <2>4. CASE screen' = "lock" /\ pc' = "write"
    <3>1. Store!Interrupt
      BY <1>1, <1>5, <2>2, <2>4 DEF Store!Interrupt, Door
    <3> QED BY <3>1 DEF Store!Next
  <2> QED BY <1>1, <1>5, <2>3, <2>4 DEF OpenForWriting
<1> QED BY <1>4, <1>5 DEF OpenUnlock

LEMMA StoreSave == IndInv /\ Save => Store!Next
<1> SUFFICES ASSUME IndInv, Save PROVE Store!Next
  OBVIOUS
<1>1. IsPassword(new_password)
  BY DEF Save, Matches, Complete, IndInv, TypeOK, IsEntry, IsPassword
<1>2. new_password \in [1 .. PASSWORD_LENGTH -> Digits]
  BY <1>1, PasswordsAreFunctions
<1>3. /\ screen = "setpw" /\ stored_password' = new_password /\ lastSet' = new_password
      /\ chosen' = chosen \cup {new_password}
  BY DEF Save, Matches
<1>4. \/ pc' = "write" /\ screen' = "setpw"
      \/ pc' = "idle" /\ screen' = "lock" /\ mishap'
  BY DEF Save, OpenForWriting
<1>5. Store!Set(new_password)
  BY <1>3, <1>4 DEF Store!Set, Door
<1> QED BY <1>2, <1>5 DEF Store!Next

\* The end of save_password: UnlockScreen goes on to ask, the Save button has the
\* password kept, or does not notice that it is not.
LEMMA StoreWrite == IndInv /\ WriteAndClose => [Store!Next]_(Store!vars)
<1> SUFFICES ASSUME IndInv, WriteAndClose PROVE [Store!Next]_(Store!vars)
  OBVIOUS
<1>1. /\ pc = "write" /\ pc' = "idle"
      /\ UNCHANGED <<stored_password, lastSet, chosen>>
  BY DEF WriteAndClose
<1>2. CASE screen = "lock"
  <2>1. screen' = "unlock" /\ mishap' = mishap
    BY <1>2 DEF WriteAndClose
  <2>2. ~ mishap => stored_password = lastSet
    BY <1>1, <1>2 DEF IndInv, FileKeepsChoice
  <2>3. stored_password \in chosen
    BY DEF IndInv, Promises, OnlyChosenPasswords
  <2>4. Store!Ask
    BY <1>1, <1>2, <2>1, <2>2, <2>3 DEF Store!Ask, Door
  <2> QED BY <2>4 DEF Store!Next
<1>3. CASE screen = "setpw"
  <2>1. screen' = "lock" /\ stored_password = lastSet
    BY <1>1, <1>3 DEF WriteAndClose, IndInv, SaveInProgress
  <2>2. CASE mishap'
    BY <1>1, <1>3, <2>1, <2>2 DEF Store!vars, Door
  <2>3. CASE ~ mishap'
    <3>1. Store!Keep
      BY <1>1, <1>3, <2>1, <2>3 DEF Store!Keep, Door
    <3> QED BY <3>1 DEF Store!Next
  <2> QED BY <2>2, <2>3
<1> QED BY <1>2, <1>3 DEF WriteAndClose

\* The keypad opens the door, the other buttons and the black mask close it or only
\* change what is typed.
LEMMA StoreWindows ==
    ASSUME IndInv,
           \/ (\E d \in Digits : UnlockKeypad(d))
           \/ Cancel \/ Forgot \/ TypeNew \/ TypeAgain \/ Mismatch \/ SetPasswordBack
           \/ Blackout \/ WakeUp \/ NoFile \/ WriteBack \/ UNCHANGED vars
    PROVE  [Store!Next]_(Store!vars)
<1>1. CASE \E d \in Digits : UnlockKeypad(d)
  <2>1. UNCHANGED <<stored_password, lastSet, chosen, mishap, pc>>
    BY <1>1 DEF UnlockKeypad, historyVars
  <2>2. screen = "unlock" /\ screen' \in {"unlock", "desktop"}
    BY <1>1 DEF UnlockKeypad
  <2>3. CASE screen' = "unlock"
    BY <2>1, <2>2, <2>3 DEF Store!vars, Door
  <2>4. CASE screen' = "desktop"
    <3>1. Store!Open
      BY <2>1, <2>2, <2>4 DEF Store!Open, Door
    <3> QED BY <3>1 DEF Store!Next
  <2> QED BY <2>2, <2>3, <2>4
<1>2. CASE Cancel \/ Forgot \/ WakeUp \/ NoFile
  <2>1. Store!Close
    BY <1>2 DEF Cancel, Forgot, WakeUp, NoFile, entryVars, historyVars, Store!Close, Door
  <2> QED BY <2>1 DEF Store!Next
<1>3. CASE TypeNew \/ TypeAgain \/ Mismatch \/ SetPasswordBack \/ Blackout \/ WriteBack
  <2>1. UNCHANGED <<pc, stored_password, lastSet, chosen, mishap>>
    BY <1>3 DEF TypeNew, TypeAgain, Mismatch, SetPasswordBack, Blackout, WriteBack,
                entryVars, historyVars
  <2>2. \/ screen' = screen
        \/ pc = "idle" /\ screen = "setpw" /\ screen' = "lock"
        \/ pc = "idle" /\ screen = "desktop" /\ screen' = "dark"
    BY <1>3 DEF TypeNew, TypeAgain, Mismatch, SetPasswordBack, Blackout, WriteBack
  <2> QED BY <2>1, <2>2 DEF Store!vars, Door
<1>4. CASE UNCHANGED vars
  BY <1>4 DEF vars, entryVars, historyVars, Store!vars, Door
<1> QED BY <1>1, <1>2, <1>3, <1>4, Zenon

LEMMA StorePowerCycle == IndInv /\ PowerCycle => Store!Next
<1> SUFFICES ASSUME IndInv, PowerCycle PROVE Store!Next
  OBVIOUS
<1>1. Store!Interrupt
  BY DEF PowerCycle, Store!Interrupt, Door
<1> QED BY <1>1 DEF Store!Next

\* For every keypad and every length of the password, the lock screen of the source is
\* a password store, whatever fails.
THEOREM LockScreenIsAStore == Spec => StoresPasswords
<1>1. IndInv /\ [Next]_vars => [Store!Next]_(Store!vars)
  BY StoreOpenUnlock, StoreSave, StoreWrite, StoreWindows, StorePowerCycle DEF Next
<1> QED BY StoreInit, Invariance, <1>1, PTL DEF Spec, StoresPasswords, Store!Spec

-----------------------------------------------------------------------------
(* The windows of the lock screen are a view of the map of the program. *)

\* Through failing system calls and power cuts, the lock screen only ever goes the way the
\* map says: to the windows that the other components expect, from those they leave.
THEOREM LockScreenFollowsMap == Spec => FollowsMap
<1> DEFINE Seen(s) == IF s = "dark" THEN "mask" ELSE s
<1>1. Init => Map!Init
  BY DEF Init, Map!Init, Map!View
<1>2. TypeOK /\ [Next]_vars => [Map!Next \/ Map!Restart]_(Seen(screen))
  <2> SUFFICES ASSUME TypeOK, [Next]_vars, ~ PowerCycle, screen' # screen
               PROVE  Map!Next
    BY DEF PowerCycle, Map!Restart, Map!View
  <2>1. <<screen, screen'>> \in
            {<<"lock", "unlock">>, <<"unlock", "lock">>, <<"unlock", "setpw">>,
             <<"setpw", "lock">>, <<"unlock", "desktop">>, <<"desktop", "dark">>,
             <<"dark", "lock">>, <<"desktop", "lock">>}
    BY DEF Next, OpenUnlock, OpenForWriting, Cancel, Forgot, UnlockKeypad, TypeNew, TypeAgain,
           Save, Mismatch, SetPasswordBack, WriteAndClose, Blackout, WakeUp, NoFile, WriteBack,
           vars, TypeOK
  <2>2. <<Seen(screen), Seen(screen')>> \in Map!Ways
    BY <2>1 DEF Map!Ways
  <2>3. Seen(screen) = Map!View(Seen(screen)) /\ Seen(screen') = Map!View(Seen(screen'))
    BY <2>1 DEF Map!View
  <2> QED BY <2>2, <2>3 DEF Map!Next
<1> QED BY <1>1, <1>2, TypeCorrect, PTL DEF Spec, FollowsMap, Map!SpecWithRestarts
=============================================================================
