----------------------------- MODULE LvIndevProofs -----------------------------
(***************************************************************************)
(* Proofs about the pointer input device, for any tree of objects: no      *)
(* callback leaves a pointer to, or an event for, a deleted object; every  *)
(* press is answered; clicks follow releases; one touch presses one        *)
(* object; and the events follow TouchProtocol.                            *)
(***************************************************************************)
EXTENDS LvIndev, TLAPS

(***************************************************************************)
(* The inductive invariant.  A reset is pending only until the read is     *)
(* over (Control); where the pointers of the device stand to each other    *)
(* (Pointers), and to the event that comes next (Receivers); and what has  *)
(* been told so far (Story).                                               *)
(***************************************************************************)
PressPcs ==
    {"STOP", "STOPPED", "stopped", "found", "PRESS_LOST", "lost", "PRESSED", "focus",
     "DEFOCUSED", "FOCUSED", "focused", "pressing", "PRESSING", "scroll", "SCROLL_BEGIN",
     "SCROLL", "gesture", "GESTURE", "long", "LONG_PRESSED", "longSent", "repeat",
     "LONG_PRESSED_REPEAT"}

ReleasePcs == {"RELEASED", "clicks", "SHORT_CLICKED", "CLICKED", "SCROLL_THROW_BEGIN", "lifted"}

ThrowPcs == {"THROW", "THROW_END", "thrown", "threw"}

\* obj_act is the pressed object
ObjectPcs ==
    {"PRESSED", "focus", "DEFOCUSED", "FOCUSED", "focused", "PRESSING", "scroll",
     "SCROLL_BEGIN", "SCROLL", "gesture", "GESTURE", "long", "LONG_PRESSED", "longSent",
     "repeat", "LONG_PRESSED_REPEAT", "RELEASED", "clicks", "SHORT_CLICKED", "CLICKED",
     "SCROLL_THROW_BEGIN"}

Control ==
    /\ pc \in PressPcs => state = "PRESSED" /\ ~ wait_until_release
    /\ pc \in ReleasePcs => state = "RELEASED" /\ ~ wait_until_release
    /\ reset_query => pc \in {"idle", "end"}
    /\ pc \in {"idle", "proc"} \cup ThrowPcs => obj_act = None
    /\ pc \in ThrowPcs => throw

Pointers ==
    /\ Screen \in alive
    /\ {act_obj, last_obj, scroll_obj, last_pressed, obj_act} \subseteq alive \cup {None}
    /\ act_obj # None => last_obj = act_obj
    /\ scroll_obj # None /\ ~ reset_query => scroll_dir /\ last_obj # None
    /\ ScrollsWhatIsPressed
    /\ wait_until_release => act_obj = None /\ last_obj = None /\ scroll_obj = None
    /\ throw => /\ act_obj = None /\ last_obj # None /\ ~ reset_query
                /\ pc \in {"proc", "lifted", "end", "idle"} \cup ThrowPcs

Receivers ==
    /\ pc \in {"STOP", "STOPPED", "stopped"} => act_obj = None /\ scroll_obj # None
    /\ pc \in {"THROW", "THROW_END", "threw", "SCROLL_BEGIN", "SCROLL"} => scroll_obj # None
    /\ pc = "PRESS_LOST" => act_obj # None
    /\ pc = "found" /\ act_obj = None => scroll_obj = None
    /\ pc = "DEFOCUSED" => last_pressed # None
    /\ pc \in ObjectPcs => obj_act # None
    /\ pc \in ObjectPcs \cup {"pressing"} => obj_act = act_obj

Story ==
    /\ held \subseteq {act_obj}
    /\ reset_query \/ pc \in {"lost", "PRESSED"} => held = {}
    /\ state = "RELEASED" /\ pc \notin {"proc", "RELEASED"} => held = {}
    /\ let_go # None => /\ state = "RELEASED"
                        /\ pc \in {"clicks", "SHORT_CLICKED", "CLICKED", "SCROLL_THROW_BEGIN",
                                   "lifted", "end"}
    /\ pc \in {"clicks", "SHORT_CLICKED", "CLICKED"} => let_go = obj_act
    /\ pc \in {"SHORT_CLICKED", "CLICKED"} => ~ scrolled
    /\ scrolled /\ act_obj # None /\ pc # "PRESSED" => scroll_obj # None
    /\ state = "RELEASED" /\ ~ reset_query /\ pc \notin ReleasePcs \cup {"proc"} =>
         act_obj = None
    /\ /\ act_obj # None /\ ~ reset_query /\ pc \notin {"PRESSED", "lost"}
       /\ state = "PRESSED" \/ pc \in {"proc", "RELEASED"}
       => held = {act_obj}

Touch ==
    /\ touched # {} => state = "RELEASED" \/ act_obj # None \/ wait_until_release
    /\ reset_query /\ touched # {} => state = "RELEASED" \/ wait_until_release
    /\ pc = "PRESSED" => touched = {}

IndInv == TypeOK /\ Control /\ Pointers /\ Receivers /\ Story /\ Touch

-----------------------------------------------------------------------------
(* What a callback can do to the device. *)

\* Whoever is deleted takes the living objects below it along, and never the screen.
LEMMA DeletionsAreSubtrees ==
    ASSUME TypeOK, NEW gone \in Deletions
    PROVE  /\ gone \subseteq alive /\ Screen \notin gone
           /\ \A o \in gone : Below[o] \cap alive \subseteq gone
<1>1. CASE gone = {}
  BY <1>1
<1>2. CASE gone = alive \ {Screen}
  BY <1>2, TreeAssumption DEF TypeOK
<1>3. ASSUME NEW o \in alive \ {Screen}, gone = Below[o] \cap alive
      PROVE  /\ gone \subseteq alive /\ Screen \notin gone
             /\ \A p \in gone : Below[p] \cap alive \subseteq gone
  <2>1. o \in Objects \ {Screen}
    BY DEF TypeOK
  <2>2. \A p \in Below[o] : Below[p] \subseteq Below[o]
    BY <2>1, TreeAssumption
  <2>3. Screen \notin Below[o]
    BY <2>1, TreeAssumption
  <2> QED
    BY <1>3, <2>2, <2>3
<1> QED
  BY <1>1, <1>2, <1>3 DEF Deletions

LEMMA KeptFacts ==
    ASSUME NEW o, NEW gone, None \notin gone
    PROVE  /\ Kept(o, gone) \in {o, None} /\ Kept(o, gone) \notin gone
           /\ o \notin gone => Kept(o, gone) = o
           /\ o \in gone => Kept(o, gone) = None
  BY DEF Kept

\* The pointers stay in order; without a reset they are what they were; and a reset leaves
\* no pressed object behind.
LEMMA CallbackEffect ==
    ASSUME TypeOK, Pointers, NEW gone \in Deletions, NEW new \in Creations(alive \ gone),
           Callback(gone, new)
    PROVE  /\ alive' \subseteq Objects /\ Screen \in alive'
           /\ act_obj' \in {act_obj, None} /\ last_obj' \in {last_obj, None}
           /\ scroll_obj' \in {scroll_obj, None} /\ last_pressed' \in {last_pressed, None}
           /\ obj_act' \in {obj_act, None}
           /\ {act_obj, last_obj, scroll_obj, last_pressed, obj_act}' \subseteq alive' \cup {None}
           /\ act_obj' # None => last_obj' = act_obj'
           /\ ScrollsWhatIsPressed'
           /\ reset_query' \in BOOLEAN
           /\ ~ reset_query' => /\ act_obj' = act_obj /\ last_obj' = last_obj
                                /\ scroll_obj' = scroll_obj /\ obj_act' = obj_act
                                /\ ~ reset_query
           /\ act_obj' # None => scroll_obj' = scroll_obj
           /\ reset_query' /\ ~ reset_query => touched' = {}
           /\ reset_query' /\ ~ reset_query /\ obj_act \in {act_obj, None} => act_obj' = None
<1> DEFINE used == DeviceUses(gone)
<1>1. /\ gone \subseteq alive /\ Screen \notin gone
      /\ \A o \in gone : Below[o] \cap alive \subseteq gone
  BY DeletionsAreSubtrees
<1>2. None \notin gone /\ None \notin alive
  BY <1>1, TreeAssumption DEF TypeOK
<1>3. new \subseteq Objects
  BY DEF Creations
<1>4. /\ alive' = (alive \ gone) \cup new
      /\ act_obj' = Kept(act_obj, gone) /\ last_obj' = Kept(last_obj, gone)
      /\ scroll_obj' = Kept(scroll_obj, gone) /\ last_pressed' = Kept(last_pressed, gone)
      /\ obj_act' = IF used THEN None ELSE obj_act
  BY DEF Callback, Forget
<1>5. reset_query' = (reset_query \/ used)
  BY DEF Callback
<1>6. used <=> act_obj \in gone \/ last_obj \in gone \/ scroll_obj \in gone \/ obj_act \in gone
  BY DEF DeviceUses
<1> HIDE DEF used
<1>7. alive' \subseteq Objects /\ Screen \in alive'
  BY <1>1, <1>3, <1>4 DEF TypeOK, Pointers
<1>8. /\ act_obj' \in {act_obj, None} /\ last_obj' \in {last_obj, None}
      /\ scroll_obj' \in {scroll_obj, None} /\ last_pressed' \in {last_pressed, None}
      /\ obj_act' \in {obj_act, None}
  BY <1>2, <1>4, KeptFacts
<1>9. {act_obj', last_obj', scroll_obj', last_pressed', obj_act'} \subseteq alive' \cup {None}
  <2>1. ASSUME NEW o \in alive \cup {None} PROVE Kept(o, gone) \in alive' \cup {None}
    BY <1>2, <1>4, KeptFacts
  <2>2. /\ act_obj' \in alive' \cup {None} /\ last_obj' \in alive' \cup {None}
        /\ scroll_obj' \in alive' \cup {None} /\ last_pressed' \in alive' \cup {None}
    BY <1>4, <2>1 DEF Pointers
  <2>3. obj_act' \in alive' \cup {None}
    BY <1>4, <1>6 DEF Pointers
  <2> QED
    BY <2>2, <2>3
<1>10. act_obj \notin gone => act_obj' = act_obj
  BY <1>2, <1>4, KeptFacts
<1>11. act_obj \in gone => act_obj' = None
  BY <1>2, <1>4, KeptFacts
<1>12. act_obj # None /\ scroll_obj \in gone => act_obj \in gone
  <2> SUFFICES ASSUME act_obj # None, scroll_obj \in gone PROVE act_obj \in gone
    OBVIOUS
  <2>1. scroll_obj # None /\ act_obj \in alive
    BY <1>2 DEF Pointers
  <2>2. act_obj \in Below[scroll_obj]
    BY <2>1 DEF Pointers, ScrollsWhatIsPressed
  <2> QED
    BY <1>1, <2>1, <2>2
<1>13. act_obj' # None => last_obj' = act_obj' /\ scroll_obj' = scroll_obj
  <2> SUFFICES ASSUME act_obj' # None PROVE last_obj' = act_obj' /\ scroll_obj' = scroll_obj
    OBVIOUS
  <2>1. act_obj # None /\ act_obj \notin gone
    BY <1>8, <1>11
  <2>2. last_obj = act_obj /\ scroll_obj \notin gone
    BY <2>1, <1>12 DEF Pointers
  <2> QED
    BY <1>2, <1>4, <2>1, <2>2, KeptFacts
<1>14. ScrollsWhatIsPressed'
  BY <1>8, <1>13 DEF ScrollsWhatIsPressed, Pointers
<1>15. reset_query' \in BOOLEAN
  BY <1>5, <1>6 DEF TypeOK
<1>16. ~ reset_query' => /\ act_obj' = act_obj /\ last_obj' = last_obj
                         /\ scroll_obj' = scroll_obj /\ obj_act' = obj_act
                         /\ ~ reset_query
  BY <1>2, <1>4, <1>5, <1>6, KeptFacts, Zenon
<1>17. reset_query' /\ ~ reset_query => used
  BY <1>5
<1>18. used => touched' = {}
  BY DEF Callback, History, used
<1>19. used /\ obj_act \in {act_obj, None} => act_obj' = None
  <2> SUFFICES ASSUME used, obj_act \in {act_obj, None}, act_obj # None PROVE act_obj' = None
    BY <1>8
  <2>1. last_obj = act_obj
    BY DEF Pointers
  <2>2. act_obj \in gone
    BY <1>2, <1>6, <1>12, <2>1
  <2> QED
    BY <1>11, <2>2
<1>20. {act_obj, last_obj, scroll_obj, last_pressed, obj_act}' \subseteq alive' \cup {None}
  BY <1>9
<1> QED
  BY <1>7, <1>8, <1>13, <1>14, <1>15, <1>16, <1>17, <1>18, <1>19, <1>20

-----------------------------------------------------------------------------
(* The steps without a callback. *)

LocalNext ==
    \/ (\E s \in {"PRESSED", "RELEASED"} : Read(s)) \/ EndRead
    \/ Wait \/ KeepObject \/ (\E o \in alive \cup {None} : Search(o)) \/ Stopped
    \/ SameObject \/ LoseObject \/ Lost \/ NewObject \/ Focus \/ Focused
    \/ Pressing \/ (\E s \in alive : BeginScroll(s)) \/ Scroll \/ Gesture
    \/ Long \/ LongSent \/ Repeat
    \/ Lifted \/ Release \/ Clicks \/ Released
    \/ Thrown \/ ThrowEnds \/ AfterThrow

LEMMA LocalSteps ==
    ASSUME IndInv,
           LocalNext
    PROVE  IndInv'
<1> USE TreeAssumption DEF IndInv, TypeOK, OrNone, vars, objects, flags, history
<1>1. ASSUME EndRead PROVE IndInv'
  <2> USE <1>1 DEF EndRead, HandleReset
  <2>1. TypeOK'
    BY DEF ReadEvents, ThrowEvents, Places
  <2>2. Control'
    BY DEF Control, Pointers, Receivers, PressPcs, ReleasePcs, ThrowPcs
  <2>3. Pointers'
    BY DEF Control, Pointers, Receivers, ScrollsWhatIsPressed, PressPcs, ReleasePcs, ThrowPcs
  <2>4. Receivers'
    BY DEF Control, Pointers, Receivers, PressPcs, ReleasePcs, ThrowPcs, ObjectPcs
  <2>5. Story'
    BY DEF Control, Pointers, Receivers, Story, PressPcs, ReleasePcs, ThrowPcs, ObjectPcs
  <2>6. Touch'
    BY DEF Control, Touch, PressPcs, ReleasePcs
  <2> QED
    BY <2>1, <2>2, <2>3, <2>4, <2>5, <2>6
<1>2. ASSUME Wait PROVE IndInv'
  <2> USE <1>2 DEF Wait
  <2>1. TypeOK'
    BY DEF ReadEvents, ThrowEvents, Places
  <2>2. Control'
    BY DEF Control, Pointers, Receivers, PressPcs, ReleasePcs, ThrowPcs
  <2>3. Pointers'
    BY DEF Control, Pointers, Receivers, ScrollsWhatIsPressed, PressPcs, ReleasePcs, ThrowPcs
  <2>4. Receivers'
    BY DEF Control, Pointers, Receivers, PressPcs, ReleasePcs, ThrowPcs, ObjectPcs
  <2>5. Story'
    BY DEF Control, Pointers, Receivers, Story, PressPcs, ReleasePcs, ThrowPcs, ObjectPcs
  <2>6. Touch'
    BY DEF Control, Touch, PressPcs, ReleasePcs
  <2> QED
    BY <2>1, <2>2, <2>3, <2>4, <2>5, <2>6
<1>3. ASSUME KeepObject PROVE IndInv'
  <2> USE <1>3 DEF KeepObject, Searches
  <2>1. TypeOK'
    BY DEF ReadEvents, ThrowEvents, Places
  <2>2. Control'
    BY DEF Control, Pointers, Receivers, PressPcs, ReleasePcs, ThrowPcs
  <2>3. Pointers'
    BY DEF Control, Pointers, Receivers, ScrollsWhatIsPressed, PressPcs, ReleasePcs, ThrowPcs
  <2>4. Receivers'
    BY DEF Control, Pointers, Receivers, PressPcs, ReleasePcs, ThrowPcs, ObjectPcs
  <2>5. Story'
    BY DEF Control, Pointers, Receivers, Story, PressPcs, ReleasePcs, ThrowPcs, ObjectPcs
  <2>6. Touch'
    BY DEF Control, Touch, PressPcs, ReleasePcs
  <2> QED
    BY <2>1, <2>2, <2>3, <2>4, <2>5, <2>6
<1>4. ASSUME Stopped PROVE IndInv'
  <2> USE <1>4 DEF Stopped
  <2>0. pc' \in Places /\ scroll_dir' \in BOOLEAN /\ scroll_obj' = None
    BY DEF Places
  <2>1. TypeOK'
    BY <2>0
  <2>2. Control'
    BY DEF Control, Pointers, Receivers, PressPcs, ReleasePcs, ThrowPcs
  <2>3. Pointers'
    BY DEF Control, Pointers, Receivers, ScrollsWhatIsPressed, PressPcs, ReleasePcs, ThrowPcs
  <2>4. Receivers'
    BY DEF Control, Pointers, Receivers, PressPcs, ReleasePcs, ThrowPcs, ObjectPcs
  <2>5. Story'
    BY DEF Control, Pointers, Receivers, Story, PressPcs, ReleasePcs, ThrowPcs, ObjectPcs
  <2>6. Touch'
    BY DEF Control, Touch, PressPcs, ReleasePcs
  <2> QED
    BY <2>1, <2>2, <2>3, <2>4, <2>5, <2>6
<1>5. ASSUME SameObject PROVE IndInv'
  <2> USE <1>5 DEF SameObject
  <2>1. TypeOK'
    BY DEF ReadEvents, ThrowEvents, Places
  <2>2. Control'
    BY DEF Control, Pointers, Receivers, PressPcs, ReleasePcs, ThrowPcs
  <2>3. Pointers'
    BY DEF Control, Pointers, Receivers, ScrollsWhatIsPressed, PressPcs, ReleasePcs, ThrowPcs
  <2>4. Receivers'
    BY DEF Control, Pointers, Receivers, PressPcs, ReleasePcs, ThrowPcs, ObjectPcs
  <2>5. Story'
    BY DEF Control, Pointers, Receivers, Story, PressPcs, ReleasePcs, ThrowPcs, ObjectPcs
  <2>6. Touch'
    BY DEF Control, Touch, PressPcs, ReleasePcs
  <2> QED
    BY <2>1, <2>2, <2>3, <2>4, <2>5, <2>6
<1>6. ASSUME LoseObject PROVE IndInv'
  <2> USE <1>6 DEF LoseObject
  <2>1. TypeOK'
    BY DEF ReadEvents, ThrowEvents, Places
  <2>2. Control'
    BY DEF Control, Pointers, Receivers, PressPcs, ReleasePcs, ThrowPcs
  <2>3. Pointers'
    BY DEF Control, Pointers, Receivers, ScrollsWhatIsPressed, PressPcs, ReleasePcs, ThrowPcs
  <2>4. Receivers'
    BY DEF Control, Pointers, Receivers, PressPcs, ReleasePcs, ThrowPcs, ObjectPcs
  <2>5. Story'
    BY DEF Control, Pointers, Receivers, Story, PressPcs, ReleasePcs, ThrowPcs, ObjectPcs
  <2>6. Touch'
    BY DEF Control, Touch, PressPcs, ReleasePcs
  <2> QED
    BY <2>1, <2>2, <2>3, <2>4, <2>5, <2>6
<1>7. ASSUME Lost PROVE IndInv'
  <2> USE <1>7 DEF Lost
  <2>1. TypeOK'
    BY DEF ReadEvents, ThrowEvents, Places
  <2>2. Control'
    BY DEF Control, Pointers, Receivers, PressPcs, ReleasePcs, ThrowPcs
  <2>3. Pointers'
    BY DEF Control, Pointers, Receivers, ScrollsWhatIsPressed, PressPcs, ReleasePcs, ThrowPcs
  <2>4. Receivers'
    BY DEF Control, Pointers, Receivers, PressPcs, ReleasePcs, ThrowPcs, ObjectPcs
  <2>5. Story'
    BY DEF Control, Pointers, Receivers, Story, PressPcs, ReleasePcs, ThrowPcs, ObjectPcs
  <2>6. Touch'
    BY DEF Control, Touch, PressPcs, ReleasePcs
  <2> QED
    BY <2>1, <2>2, <2>3, <2>4, <2>5, <2>6
<1>8. ASSUME NewObject PROVE IndInv'
  <2> USE <1>8 DEF NewObject
  <2>1. TypeOK'
    BY DEF ReadEvents, ThrowEvents, Places
  <2>2. Control'
    BY DEF Control, Pointers, Receivers, PressPcs, ReleasePcs, ThrowPcs
  <2>3. Pointers'
    BY DEF Control, Pointers, Receivers, ScrollsWhatIsPressed, PressPcs, ReleasePcs, ThrowPcs
  <2>4. Receivers'
    BY DEF Control, Pointers, Receivers, PressPcs, ReleasePcs, ThrowPcs, ObjectPcs
  <2>5. Story'
    BY DEF Control, Pointers, Receivers, Story, PressPcs, ReleasePcs, ThrowPcs, ObjectPcs
  <2>6. Touch'
    BY DEF Control, Touch, PressPcs, ReleasePcs
  <2> QED
    BY <2>1, <2>2, <2>3, <2>4, <2>5, <2>6
<1>9. ASSUME Focus PROVE IndInv'
  <2> USE <1>9 DEF Focus
  <2>1. TypeOK'
    BY DEF ReadEvents, ThrowEvents, Places
  <2>2. Control'
    BY DEF Control, Pointers, Receivers, PressPcs, ReleasePcs, ThrowPcs
  <2>3. Pointers'
    BY DEF Control, Pointers, Receivers, ScrollsWhatIsPressed, PressPcs, ReleasePcs, ThrowPcs
  <2>4. Receivers'
    BY DEF Control, Pointers, Receivers, PressPcs, ReleasePcs, ThrowPcs, ObjectPcs
  <2>5. Story'
    BY DEF Control, Pointers, Receivers, Story, PressPcs, ReleasePcs, ThrowPcs, ObjectPcs
  <2>6. Touch'
    BY DEF Control, Touch, PressPcs, ReleasePcs
  <2> QED
    BY <2>1, <2>2, <2>3, <2>4, <2>5, <2>6
<1>10. ASSUME Focused PROVE IndInv'
  <2> USE <1>10 DEF Focused
  <2>1. TypeOK'
    BY DEF ReadEvents, ThrowEvents, Places
  <2>2. Control'
    BY DEF Control, Pointers, Receivers, PressPcs, ReleasePcs, ThrowPcs
  <2>3. Pointers'
    BY DEF Control, Pointers, Receivers, ScrollsWhatIsPressed, PressPcs, ReleasePcs, ThrowPcs
  <2>4. Receivers'
    BY DEF Control, Pointers, Receivers, PressPcs, ReleasePcs, ThrowPcs, ObjectPcs
  <2>5. Story'
    BY DEF Control, Pointers, Receivers, Story, PressPcs, ReleasePcs, ThrowPcs, ObjectPcs
  <2>6. Touch'
    BY DEF Control, Touch, PressPcs, ReleasePcs
  <2> QED
    BY <2>1, <2>2, <2>3, <2>4, <2>5, <2>6
<1>11. ASSUME Pressing PROVE IndInv'
  <2> USE <1>11 DEF Pressing
  <2>1. TypeOK'
    BY DEF ReadEvents, ThrowEvents, Places
  <2>2. Control'
    BY DEF Control, Pointers, Receivers, PressPcs, ReleasePcs, ThrowPcs
  <2>3. Pointers'
    BY DEF Control, Pointers, Receivers, ScrollsWhatIsPressed, PressPcs, ReleasePcs, ThrowPcs
  <2>4. Receivers'
    BY DEF Control, Pointers, Receivers, PressPcs, ReleasePcs, ThrowPcs, ObjectPcs
  <2>5. Story'
    BY DEF Control, Pointers, Receivers, Story, PressPcs, ReleasePcs, ThrowPcs, ObjectPcs
  <2>6. Touch'
    BY DEF Control, Touch, PressPcs, ReleasePcs
  <2> QED
    BY <2>1, <2>2, <2>3, <2>4, <2>5, <2>6
<1>12. ASSUME Scroll PROVE IndInv'
  <2> USE <1>12 DEF Scroll
  <2>1. TypeOK'
    BY DEF ReadEvents, ThrowEvents, Places
  <2>2. Control'
    BY DEF Control, Pointers, Receivers, PressPcs, ReleasePcs, ThrowPcs
  <2>3. Pointers'
    BY DEF Control, Pointers, Receivers, ScrollsWhatIsPressed, PressPcs, ReleasePcs, ThrowPcs
  <2>4. Receivers'
    BY DEF Control, Pointers, Receivers, PressPcs, ReleasePcs, ThrowPcs, ObjectPcs
  <2>5. Story'
    BY DEF Control, Pointers, Receivers, Story, PressPcs, ReleasePcs, ThrowPcs, ObjectPcs
  <2>6. Touch'
    BY DEF Control, Touch, PressPcs, ReleasePcs
  <2> QED
    BY <2>1, <2>2, <2>3, <2>4, <2>5, <2>6
<1>13. ASSUME Gesture PROVE IndInv'
  <2> USE <1>13 DEF Gesture
  <2>0. pc' \in ReadEvents \cup ThrowEvents \cup Places /\ gesture_sent' \in BOOLEAN
    BY Zenon DEF ReadEvents, ThrowEvents, Places
  <2>1. TypeOK'
    BY <2>0
  <2>2. Control'
    BY DEF Control, Pointers, Receivers, PressPcs, ReleasePcs, ThrowPcs
  <2>3. Pointers'
    BY DEF Control, Pointers, Receivers, ScrollsWhatIsPressed, PressPcs, ReleasePcs, ThrowPcs
  <2>4. Receivers'
    BY DEF Control, Pointers, Receivers, PressPcs, ReleasePcs, ThrowPcs, ObjectPcs
  <2>5. Story'
    BY DEF Control, Pointers, Receivers, Story, PressPcs, ReleasePcs, ThrowPcs, ObjectPcs
  <2>6. Touch'
    BY DEF Control, Touch, PressPcs, ReleasePcs
  <2> QED
    BY <2>1, <2>2, <2>3, <2>4, <2>5, <2>6
<1>14. ASSUME Long PROVE IndInv'
  <2> USE <1>14 DEF Long
  <2>1. TypeOK'
    BY DEF ReadEvents, ThrowEvents, Places
  <2>2. Control'
    BY DEF Control, Pointers, Receivers, PressPcs, ReleasePcs, ThrowPcs
  <2>3. Pointers'
    BY DEF Control, Pointers, Receivers, ScrollsWhatIsPressed, PressPcs, ReleasePcs, ThrowPcs
  <2>4. Receivers'
    BY DEF Control, Pointers, Receivers, PressPcs, ReleasePcs, ThrowPcs, ObjectPcs
  <2>5. Story'
    BY DEF Control, Pointers, Receivers, Story, PressPcs, ReleasePcs, ThrowPcs, ObjectPcs
  <2>6. Touch'
    BY DEF Control, Touch, PressPcs, ReleasePcs
  <2> QED
    BY <2>1, <2>2, <2>3, <2>4, <2>5, <2>6
<1>15. ASSUME LongSent PROVE IndInv'
  <2> USE <1>15 DEF LongSent
  <2>1. TypeOK'
    BY DEF ReadEvents, ThrowEvents, Places
  <2>2. Control'
    BY DEF Control, Pointers, Receivers, PressPcs, ReleasePcs, ThrowPcs
  <2>3. Pointers'
    BY DEF Control, Pointers, Receivers, ScrollsWhatIsPressed, PressPcs, ReleasePcs, ThrowPcs
  <2>4. Receivers'
    BY DEF Control, Pointers, Receivers, PressPcs, ReleasePcs, ThrowPcs, ObjectPcs
  <2>5. Story'
    BY DEF Control, Pointers, Receivers, Story, PressPcs, ReleasePcs, ThrowPcs, ObjectPcs
  <2>6. Touch'
    BY DEF Control, Touch, PressPcs, ReleasePcs
  <2> QED
    BY <2>1, <2>2, <2>3, <2>4, <2>5, <2>6
<1>16. ASSUME Repeat PROVE IndInv'
  <2> USE <1>16 DEF Repeat
  <2>1. TypeOK'
    BY DEF ReadEvents, ThrowEvents, Places
  <2>2. Control'
    BY DEF Control, Pointers, Receivers, PressPcs, ReleasePcs, ThrowPcs
  <2>3. Pointers'
    BY DEF Control, Pointers, Receivers, ScrollsWhatIsPressed, PressPcs, ReleasePcs, ThrowPcs
  <2>4. Receivers'
    BY DEF Control, Pointers, Receivers, PressPcs, ReleasePcs, ThrowPcs, ObjectPcs
  <2>5. Story'
    BY DEF Control, Pointers, Receivers, Story, PressPcs, ReleasePcs, ThrowPcs, ObjectPcs
  <2>6. Touch'
    BY DEF Control, Touch, PressPcs, ReleasePcs
  <2> QED
    BY <2>1, <2>2, <2>3, <2>4, <2>5, <2>6
<1>17. ASSUME Lifted PROVE IndInv'
  <2> USE <1>17 DEF Lifted
  <2>1. TypeOK'
    BY DEF ReadEvents, ThrowEvents, Places
  <2>2. Control'
    BY DEF Control, Pointers, Receivers, PressPcs, ReleasePcs, ThrowPcs
  <2>3. Pointers'
    BY DEF Control, Pointers, Receivers, ScrollsWhatIsPressed, PressPcs, ReleasePcs, ThrowPcs
  <2>4. Receivers'
    BY DEF Control, Pointers, Receivers, PressPcs, ReleasePcs, ThrowPcs, ObjectPcs
  <2>5. Story'
    BY DEF Control, Pointers, Receivers, Story, PressPcs, ReleasePcs, ThrowPcs, ObjectPcs
  <2>6. Touch'
    BY DEF Control, Touch, PressPcs, ReleasePcs
  <2> QED
    BY <2>1, <2>2, <2>3, <2>4, <2>5, <2>6
<1>18. ASSUME Release PROVE IndInv'
  <2> USE <1>18 DEF Release
  <2>1. TypeOK'
    BY DEF ReadEvents, ThrowEvents, Places
  <2>2. Control'
    BY DEF Control, Pointers, Receivers, PressPcs, ReleasePcs, ThrowPcs
  <2>3. Pointers'
    BY DEF Control, Pointers, Receivers, ScrollsWhatIsPressed, PressPcs, ReleasePcs, ThrowPcs
  <2>4. Receivers'
    BY DEF Control, Pointers, Receivers, PressPcs, ReleasePcs, ThrowPcs, ObjectPcs
  <2>5. Story'
    BY DEF Control, Pointers, Receivers, Story, PressPcs, ReleasePcs, ThrowPcs, ObjectPcs
  <2>6. Touch'
    BY DEF Control, Touch, PressPcs, ReleasePcs
  <2> QED
    BY <2>1, <2>2, <2>3, <2>4, <2>5, <2>6
<1>19. ASSUME Clicks PROVE IndInv'
  <2> USE <1>19 DEF Clicks
  <2>1. TypeOK'
    BY DEF ReadEvents, ThrowEvents, Places
  <2>2. Control'
    BY DEF Control, Pointers, Receivers, PressPcs, ReleasePcs, ThrowPcs
  <2>3. Pointers'
    BY DEF Control, Pointers, Receivers, ScrollsWhatIsPressed, PressPcs, ReleasePcs, ThrowPcs
  <2>4. Receivers'
    BY DEF Control, Pointers, Receivers, PressPcs, ReleasePcs, ThrowPcs, ObjectPcs
  <2>5. Story'
    BY DEF Control, Pointers, Receivers, Story, PressPcs, ReleasePcs, ThrowPcs, ObjectPcs
  <2>6. Touch'
    BY DEF Control, Touch, PressPcs, ReleasePcs
  <2> QED
    BY <2>1, <2>2, <2>3, <2>4, <2>5, <2>6
<1>20. ASSUME Released PROVE IndInv'
  <2> USE <1>20 DEF Released
  <2>1. TypeOK'
    BY DEF ReadEvents, ThrowEvents, Places
  <2>2. Control'
    BY DEF Control, Pointers, Receivers, PressPcs, ReleasePcs, ThrowPcs
  <2>3. Pointers'
    BY DEF Control, Pointers, Receivers, ScrollsWhatIsPressed, PressPcs, ReleasePcs, ThrowPcs
  <2>4. Receivers'
    BY DEF Control, Pointers, Receivers, PressPcs, ReleasePcs, ThrowPcs, ObjectPcs
  <2>5. Story'
    BY DEF Control, Pointers, Receivers, Story, PressPcs, ReleasePcs, ThrowPcs, ObjectPcs
  <2>6. Touch'
    BY DEF Control, Touch, PressPcs, ReleasePcs
  <2> QED
    BY <2>1, <2>2, <2>3, <2>4, <2>5, <2>6
<1>21. ASSUME Thrown PROVE IndInv'
  <2> USE <1>21 DEF Thrown
  <2>0. pc' \in ReadEvents \cup ThrowEvents \cup Places /\ throw' \in BOOLEAN
    BY Zenon DEF ReadEvents, ThrowEvents, Places
  <2>1. TypeOK'
    BY <2>0
  <2>A. UNCHANGED <<alive, state, objects, scroll_dir, reset_query, flags, history>>
    OBVIOUS
  <2>B. /\ pc = "idle" /\ throw = TRUE
        /\ \/ pc' = "idle" /\ throw' = FALSE
           \/ pc' \in ThrowEvents /\ throw' = TRUE /\ scroll_obj # None
    <3>1. CASE scroll_obj # None /\ scroll_dir
      BY <3>1
    <3>2. CASE ~ (scroll_obj # None /\ scroll_dir)
      BY <3>2
    <3> QED
      BY <3>1, <3>2
  <2> USE <2>A, <2>B DEF ThrowEvents
  <2> HIDE <1>21 DEF Thrown
  <2>2. Control'
    BY DEF Control, Pointers, Receivers, PressPcs, ReleasePcs, ThrowPcs
  <2>3. Pointers'
    BY DEF Control, Pointers, Receivers, ScrollsWhatIsPressed, PressPcs, ReleasePcs, ThrowPcs
  <2>4. Receivers'
    BY DEF Control, Pointers, Receivers, PressPcs, ReleasePcs, ThrowPcs, ObjectPcs
  <2>5. Story'
    BY DEF Control, Pointers, Receivers, Story, PressPcs, ReleasePcs, ThrowPcs, ObjectPcs
  <2>6. Touch'
    BY DEF Control, Touch, PressPcs, ReleasePcs
  <2> QED
    BY <2>1, <2>2, <2>3, <2>4, <2>5, <2>6
<1>22. ASSUME ThrowEnds PROVE IndInv'
  <2> USE <1>22 DEF ThrowEnds
  <2>0. pc' \in Places /\ scroll_dir' \in BOOLEAN /\ scroll_obj' = None
    BY DEF Places
  <2>1. TypeOK'
    BY <2>0
  <2>2. Control'
    BY DEF Control, Pointers, Receivers, PressPcs, ReleasePcs, ThrowPcs
  <2>3. Pointers'
    BY DEF Control, Pointers, Receivers, ScrollsWhatIsPressed, PressPcs, ReleasePcs, ThrowPcs
  <2>4. Receivers'
    BY DEF Control, Pointers, Receivers, PressPcs, ReleasePcs, ThrowPcs, ObjectPcs
  <2>5. Story'
    BY DEF Control, Pointers, Receivers, Story, PressPcs, ReleasePcs, ThrowPcs, ObjectPcs
  <2>6. Touch'
    BY DEF Control, Touch, PressPcs, ReleasePcs
  <2> QED
    BY <2>1, <2>2, <2>3, <2>4, <2>5, <2>6
<1>23. ASSUME AfterThrow PROVE IndInv'
  <2> USE <1>23 DEF AfterThrow
  <2>0. pc' \in ReadEvents \cup ThrowEvents \cup Places /\ throw' \in BOOLEAN
    BY Zenon DEF ReadEvents, ThrowEvents, Places
  <2>1. TypeOK'
    BY <2>0
  <2>2. Control'
    BY DEF Control, Pointers, Receivers, PressPcs, ReleasePcs, ThrowPcs
  <2>3. Pointers'
    BY DEF Control, Pointers, Receivers, ScrollsWhatIsPressed, PressPcs, ReleasePcs, ThrowPcs
  <2>4. Receivers'
    BY DEF Control, Pointers, Receivers, PressPcs, ReleasePcs, ThrowPcs, ObjectPcs
  <2>5. Story'
    BY DEF Control, Pointers, Receivers, Story, PressPcs, ReleasePcs, ThrowPcs, ObjectPcs
  <2>6. Touch'
    BY DEF Control, Touch, PressPcs, ReleasePcs
  <2> QED
    BY <2>1, <2>2, <2>3, <2>4, <2>5, <2>6
<1>24. ASSUME NEW s \in {"PRESSED", "RELEASED"}, Read(s) PROVE IndInv'
  <2> USE <1>24 DEF Read, HandleReset
  <2>1. TypeOK'
    BY DEF ReadEvents, ThrowEvents, Places
  <2>2. Control'
    BY DEF Control, Pointers, Receivers, PressPcs, ReleasePcs, ThrowPcs
  <2>3. Pointers'
    BY DEF Control, Pointers, Receivers, ScrollsWhatIsPressed, PressPcs, ReleasePcs, ThrowPcs
  <2>4. Receivers'
    BY DEF Control, Pointers, Receivers, PressPcs, ReleasePcs, ThrowPcs, ObjectPcs
  <2>5. Story'
    BY DEF Control, Pointers, Receivers, Story, PressPcs, ReleasePcs, ThrowPcs, ObjectPcs
  <2>6. Touch'
    BY DEF Control, Touch, PressPcs, ReleasePcs
  <2> QED
    BY <2>1, <2>2, <2>3, <2>4, <2>5, <2>6
<1>25. ASSUME NEW o \in alive \cup {None}, Search(o) PROVE IndInv'
  <2> USE <1>25 DEF Search, Searches
  <2>1. TypeOK'
    BY DEF ReadEvents, ThrowEvents, Places
  <2>2. Control'
    BY DEF Control, Pointers, Receivers, PressPcs, ReleasePcs, ThrowPcs
  <2>3. Pointers'
    BY DEF Control, Pointers, Receivers, ScrollsWhatIsPressed, PressPcs, ReleasePcs, ThrowPcs
  <2>4. Receivers'
    BY DEF Control, Pointers, Receivers, PressPcs, ReleasePcs, ThrowPcs, ObjectPcs
  <2>5. Story'
    BY DEF Control, Pointers, Receivers, Story, PressPcs, ReleasePcs, ThrowPcs, ObjectPcs
  <2>6. Touch'
    BY DEF Control, Touch, PressPcs, ReleasePcs
  <2> QED
    BY <2>1, <2>2, <2>3, <2>4, <2>5, <2>6
<1>26. ASSUME NEW s \in alive, BeginScroll(s) PROVE IndInv'
  <2> USE <1>26 DEF BeginScroll
  <2>1. TypeOK'
    BY DEF ReadEvents, ThrowEvents, Places
  <2>2. Control'
    BY DEF Control, Pointers, Receivers, PressPcs, ReleasePcs, ThrowPcs
  <2>3. Pointers'
    BY DEF Control, Pointers, Receivers, ScrollsWhatIsPressed, PressPcs, ReleasePcs, ThrowPcs
  <2>4. Receivers'
    BY DEF Control, Pointers, Receivers, PressPcs, ReleasePcs, ThrowPcs, ObjectPcs
  <2>5. Story'
    BY DEF Control, Pointers, Receivers, Story, PressPcs, ReleasePcs, ThrowPcs, ObjectPcs
  <2>6. Touch'
    BY DEF Control, Touch, PressPcs, ReleasePcs
  <2> QED
    BY <2>1, <2>2, <2>3, <2>4, <2>5, <2>6
<1> QED
  BY <1>1, <1>2, <1>3, <1>4, <1>5, <1>6, <1>7, <1>8, <1>9, <1>10, <1>11, <1>12, <1>13, <1>14, <1>15, <1>16, <1>17, <1>18, <1>19, <1>20, <1>21, <1>22, <1>23, <1>24, <1>25, <1>26 DEF LocalNext

-----------------------------------------------------------------------------
(* The steps with a callback. *)

\* What callbacks do to the story told so far.
LEMMA CallbackStory ==
    ASSUME IndInv, pc \in ReadEvents \cup ThrowEvents \cup {"idle"},
           NEW gone \in Deletions, NEW new \in Creations(alive \ gone), Callback(gone, new)
    PROVE  /\ held' \subseteq {act_obj'} /\ held' \subseteq Objects /\ touched' \subseteq Objects
           /\ pc # "PRESSED" => held' \subseteq held
           /\ pc \in {"RELEASED", "PRESS_LOST"} => held' = {}
           /\ reset_query' => held' = {}
           /\ pc # "PRESSED" => touched' \subseteq touched
           /\ let_go' \in {let_go, None} \/ (pc = "RELEASED" /\ let_go' \in {obj_act, None})
           /\ pc = "CLICKED" => let_go' = None
           /\ ~ reset_query' /\ pc = "RELEASED" => let_go' = obj_act
           /\ ~ reset_query' /\ pc = "SHORT_CLICKED" => let_go' = let_go
           /\ scrolled' = (pc # "PRESSED" /\ (scrolled \/ pc = "SCROLL_BEGIN"))
           /\ ~ reset_query' /\ pc = "PRESSED" => held' = {act_obj}
           /\ ~ reset_query' /\ pc \notin {"PRESSED", "RELEASED", "PRESS_LOST"} => held' = held
<1> DEFINE told == IF pc = "PRESSED" THEN {obj_act} ELSE {}
           over == IF pc \in {"RELEASED", "PRESS_LOST"} THEN {Receiver} ELSE {}
<1>1. /\ held' = ((held \cup told) \ over) \ gone
      /\ touched' = IF DeviceUses(gone) THEN {} ELSE (touched \cup told) \ gone
      /\ let_go' = IF pc = "CLICKED" THEN None
                   ELSE Kept(IF pc = "RELEASED" THEN obj_act ELSE let_go, gone)
      /\ scrolled' = (pc # "PRESSED" /\ (scrolled \/ pc = "SCROLL_BEGIN"))
  BY DEF Callback, History
<1>2. /\ pc = "PRESSED" => obj_act # None /\ obj_act = act_obj /\ told = {act_obj}
      /\ pc # "PRESSED" => told = {}
  BY DEF IndInv, Receivers, ObjectPcs
<1>3. pc \in {"RELEASED", "PRESS_LOST"} => over = {act_obj}
  <2>1. CASE pc = "RELEASED"
    <3>1. Receiver = obj_act
      BY <2>1 DEF Receiver, ThrowEvents
    <3>2. obj_act = act_obj
      BY <2>1 DEF IndInv, Receivers, ObjectPcs
    <3> QED
      BY <2>1, <3>1, <3>2
  <2>2. CASE pc = "PRESS_LOST"
    BY <2>2 DEF Receiver, ThrowEvents
  <2> QED
    BY <2>1, <2>2
<1>4. /\ held \subseteq {act_obj} /\ held \subseteq Objects /\ touched \subseteq Objects
      /\ act_obj \in OrNone
  BY DEF IndInv, Story, TypeOK
<1>5. None \notin Objects /\ None \notin gone
  BY TreeAssumption, DeletionsAreSubtrees DEF IndInv, TypeOK
<1> HIDE DEF told, over
<1>6. act_obj \notin gone => act_obj' = act_obj
  BY <1>5, KeptFacts DEF Callback, Forget
<1>7. held' \subseteq {act_obj'} /\ held' \subseteq Objects /\ touched' \subseteq Objects
  BY <1>1, <1>2, <1>4, <1>6 DEF OrNone
<1>8. pc # "PRESSED" => held' \subseteq held /\ touched' \subseteq touched
  BY <1>1, <1>2
<1>9. pc \in {"RELEASED", "PRESS_LOST"} => held' = {}
  BY <1>1, <1>2, <1>3, <1>4
<1>10. reset_query' => held' = {}
  <2> SUFFICES ASSUME reset_query' PROVE held' = {}
    OBVIOUS
  <2>1. CASE reset_query
    BY <1>8, <2>1 DEF IndInv, Story, Control
  <2>2. CASE ~ reset_query /\ obj_act \in {act_obj, None}
    BY <1>5, <1>7, <2>2, CallbackEffect DEF IndInv
  <2>3. CASE obj_act \notin {act_obj, None}
    <3>1. pc \in {"STOP", "STOPPED", "PRESS_LOST"}
      BY <2>3 DEF IndInv, Control, Receivers, ObjectPcs, ThrowPcs, ReadEvents, ThrowEvents
    <3>2. pc \in {"STOP", "STOPPED"} => act_obj = None
      BY DEF IndInv, Receivers
    <3> QED
      BY <1>4, <1>5, <1>8, <1>9, <3>1, <3>2
  <2> QED
    BY <2>1, <2>2, <2>3
<1>11. let_go' \in {let_go, None} \/ (pc = "RELEASED" /\ let_go' \in {obj_act, None})
  BY <1>1, <1>5, KeptFacts
<1>12. ~ reset_query' => obj_act \notin gone
  BY DEF Callback, DeviceUses
<1>13. pc = "SHORT_CLICKED" => let_go = obj_act
  BY DEF IndInv, Story
<1>14. /\ ~ reset_query' /\ pc = "RELEASED" => let_go' = obj_act
       /\ ~ reset_query' /\ pc = "SHORT_CLICKED" => let_go' = let_go
  BY <1>1, <1>5, <1>12, <1>13, KeptFacts
<1>15. pc = "CLICKED" => let_go' = None
  BY <1>1
<1>16. ~ reset_query' => act_obj \notin gone
  BY DEF Callback, DeviceUses
<1>17. pc = "PRESSED" => held = {}
  BY DEF IndInv, Story
<1>18. pc \notin {"RELEASED", "PRESS_LOST"} => over = {}
  BY DEF over
<1>19. /\ ~ reset_query' /\ pc = "PRESSED" => held' = {act_obj}
       /\ ~ reset_query' /\ pc \notin {"PRESSED", "RELEASED", "PRESS_LOST"} => held' = held
  BY <1>1, <1>2, <1>4, <1>16, <1>17, <1>18
<1> QED
  BY <1>1, <1>7, <1>8, <1>9, <1>10, <1>11, <1>14, <1>15, <1>19

\* Where a read goes on.
LEMMA AfterFacts ==
    ASSUME pc \in ReadEvents
    PROVE  /\ After \in ReadEvents \cup Places
           /\ pc = "STOP" => After = "STOPPED"
           /\ pc = "STOPPED" => After = "stopped"
           /\ pc = "PRESS_LOST" => After = "lost"
           /\ pc = "PRESSED" => After = "focus"
           /\ pc = "DEFOCUSED" => After = "FOCUSED"
           /\ pc = "FOCUSED" => After = "focused"
           /\ pc \in {"PRESSING", "SCROLL_BEGIN"} => After = "scroll"
           /\ pc = "SCROLL" => After = "gesture"
           /\ pc = "GESTURE" => After = "long"
           /\ pc = "LONG_PRESSED" => After = "longSent"
           /\ pc = "LONG_PRESSED_REPEAT" => After = "end"
           /\ pc = "RELEASED" => After = "clicks"
           /\ pc = "SHORT_CLICKED" => After = "CLICKED"
           /\ pc \in {"CLICKED", "SCROLL_THROW_BEGIN"} => After = "lifted"
  BY DEF After, ReadEvents, Places

LEMMA DeliverStep ==
    ASSUME IndInv, Deliver
    PROVE  IndInv'
<1>1. PICK gone \in Deletions : \E new \in Creations(alive \ gone) : Callback(gone, new)
  BY DEF Deliver, Callbacks
<1>2. PICK new \in Creations(alive \ gone) : Callback(gone, new)
  BY <1>1
<1>3. TypeOK /\ Pointers /\ pc \in ReadEvents /\ ~ reset_query
  BY DEF IndInv, Deliver, Control, ReadEvents
<1>4. UNCHANGED <<state, scroll_dir, wait_until_release, long_pr_sent, gesture_sent, throw>>
  BY DEF Deliver, flags
<1>5. pc' = IF reset_query' THEN "end" ELSE After
  BY DEF Deliver
<1> DEFINE Effect ==
      /\ alive' \subseteq Objects /\ Screen \in alive'
      /\ act_obj' \in {act_obj, None} /\ last_obj' \in {last_obj, None}
      /\ scroll_obj' \in {scroll_obj, None} /\ last_pressed' \in {last_pressed, None}
      /\ obj_act' \in {obj_act, None}
      /\ {act_obj, last_obj, scroll_obj, last_pressed, obj_act}' \subseteq alive' \cup {None}
      /\ act_obj' # None => last_obj' = act_obj'
      /\ ScrollsWhatIsPressed'
      /\ reset_query' \in BOOLEAN
      /\ ~ reset_query' => /\ act_obj' = act_obj /\ last_obj' = last_obj
                           /\ scroll_obj' = scroll_obj /\ obj_act' = obj_act
      /\ act_obj' # None => scroll_obj' = scroll_obj
      /\ reset_query' => touched' = {}
<1>6. Effect
  BY <1>2, <1>3, CallbackEffect
<1> DEFINE Told ==
      /\ held' \subseteq {act_obj'} /\ held' \subseteq Objects /\ touched' \subseteq Objects
      /\ pc # "PRESSED" => held' \subseteq held /\ touched' \subseteq touched
      /\ pc \in {"RELEASED", "PRESS_LOST"} => held' = {}
      /\ reset_query' => held' = {}
      /\ let_go' \in {let_go, None} \/ (pc = "RELEASED" /\ let_go' \in {obj_act, None})
      /\ pc = "CLICKED" => let_go' = None
      /\ ~ reset_query' /\ pc = "RELEASED" => let_go' = obj_act
      /\ ~ reset_query' /\ pc = "SHORT_CLICKED" => let_go' = let_go
      /\ scrolled' = (pc # "PRESSED" /\ (scrolled \/ pc = "SCROLL_BEGIN"))
      /\ ~ reset_query' /\ pc = "PRESSED" => held' = {act_obj}
      /\ ~ reset_query' /\ pc \notin {"PRESSED", "RELEASED", "PRESS_LOST"} => held' = held
<1>7. Told
  BY <1>2, <1>3, CallbackStory
<1> HIDE DEF Effect, Told
<1>8. pc' \in ReadEvents \cup Places
  BY <1>3, <1>5, AfterFacts DEF Places
<1>9. state = IF pc \in ReleasePcs THEN "RELEASED" ELSE "PRESSED"
  BY <1>3 DEF IndInv, Control, PressPcs, ReleasePcs, ReadEvents
<1>10. ~ wait_until_release /\ ~ throw
  BY <1>3 DEF IndInv, Control, Pointers, PressPcs, ReleasePcs, ThrowPcs, ReadEvents
<1>11. pc' = "end" \/ (~ reset_query' /\ pc' = After)
  BY <1>5
<1>12. /\ pc \in ReleasePcs => pc' \in ReleasePcs \cup {"end"}
       /\ pc \notin ReleasePcs => pc' \in PressPcs \cup {"end"}
  <2>1. pc \in ReleasePcs => After \in ReleasePcs
    BY <1>3, AfterFacts DEF ReleasePcs, ReadEvents
  <2>2. pc \notin ReleasePcs => After \in PressPcs \cup {"end"}
    BY <1>3, AfterFacts DEF PressPcs, ReleasePcs, ReadEvents
  <2> QED
    BY <1>11, <2>1, <2>2
<1> USE <1>3, <1>4, <1>5, <1>8, <1>9, <1>10, <1>11
<1>13. TypeOK'
  <2>1. let_go' \in OrNone /\ obj_act' \in OrNone
    BY <1>6, <1>7 DEF Told, Effect, TypeOK, OrNone
  <2>2. scrolled' \in BOOLEAN
    BY <1>7 DEF Told
  <2> QED
    BY <1>6, <1>7, <2>1, <2>2 DEF Told, Effect, TypeOK, OrNone
<1>14. Control'
  BY <1>6, <1>12 DEF Effect, Control, PressPcs, ReleasePcs, ThrowPcs
<1>15. Pointers'
  BY <1>6 DEF Effect, Pointers
<1>16. Receivers'
  <2>1. CASE reset_query'
    BY <2>1 DEF Receivers, ObjectPcs
  <2>2. CASE ~ reset_query'
    <3>1. /\ act_obj' = act_obj /\ scroll_obj' = scroll_obj /\ obj_act' = obj_act
          /\ pc' = After
      BY <1>6, <2>2 DEF Effect
    <3>2. Receivers
      BY DEF IndInv
    <3> QED
      BY <3>1, <3>2, AfterFacts DEF Receivers, ObjectPcs, ReadEvents
  <2> QED
    BY <2>1, <2>2
<1>17. Story'
  <2>1. Story /\ Receivers
    BY DEF IndInv
  <2>2. CASE reset_query'
    <3>1. held' = {} /\ pc' = "end" /\ let_go' \in {let_go, None, obj_act}
      BY <1>7, <2>2 DEF Told
    <3>2. /\ let_go' # None => state' = "RELEASED"
          /\ scrolled' /\ act_obj' # None => scroll_obj' # None
      BY <1>6, <1>7, <2>1 DEF Effect, Told, Story, Receivers, ReleasePcs, ReadEvents
    <3> QED
      BY <2>2, <3>1, <3>2 DEF Story, ReleasePcs
  <2>3. CASE ~ reset_query'
    <3>1. /\ act_obj' = act_obj /\ scroll_obj' = scroll_obj /\ obj_act' = obj_act
          /\ pc' = After
      BY <1>6, <2>3 DEF Effect
    <3>2. /\ held' \subseteq {act_obj'}
          /\ state' = "RELEASED" => held' = {}
          /\ pc' \in {"lost", "PRESSED"} => held' = {}
      <4>1. held' \subseteq {act_obj'}
        BY <1>7 DEF Told
      <4>2. state' = "RELEASED" => held' = {}
        BY <1>7, <2>1 DEF Told, Story, ReleasePcs, ReadEvents
      <4>3. pc' \in {"lost", "PRESSED"} => pc = "PRESS_LOST"
        BY <3>1, AfterFacts DEF ReadEvents
      <4> QED
        BY <1>7, <4>1, <4>2, <4>3 DEF Told
    <3>3. /\ let_go' # None => /\ state' = "RELEASED"
                              /\ pc' \in {"clicks", "SHORT_CLICKED", "CLICKED",
                                         "SCROLL_THROW_BEGIN", "lifted", "end"}
          /\ pc' \in {"clicks", "SHORT_CLICKED", "CLICKED"} => let_go' = obj_act'
      BY <1>7, <2>1, <2>3, <3>1, AfterFacts DEF Told, Story, ReadEvents, ReleasePcs
    <3>4. /\ pc' \in {"SHORT_CLICKED", "CLICKED"} => ~ scrolled'
          /\ scrolled' /\ act_obj' # None /\ pc' # "PRESSED" => scroll_obj' # None
      BY <1>7, <2>1, <3>1, AfterFacts DEF Told, Story, Receivers, ReadEvents
    <3>5. state' = "RELEASED" /\ ~ reset_query' /\ pc' \notin ReleasePcs \cup {"proc"} =>
            act_obj' = None
      BY <1>12, <2>1, <3>1, AfterFacts DEF Story, ReleasePcs, ReadEvents
    <3>6. /\ act_obj' # None /\ ~ reset_query' /\ pc' \notin {"PRESSED", "lost"}
          /\ state' = "PRESSED" \/ pc' \in {"proc", "RELEASED"}
          => held' = {act_obj'}
      BY <1>7, <2>1, <2>3, <3>1, AfterFacts DEF Told, Story, ReadEvents, ReleasePcs
    <3> QED
      BY <2>3, <3>2, <3>3, <3>4, <3>5, <3>6 DEF Story
  <2> QED
    BY <2>2, <2>3
<1>18. Touch'
  BY <1>6, <1>7, AfterFacts DEF Effect, Told, IndInv, Touch, Receivers, ObjectPcs, ReadEvents
<1> QED
  BY <1>13, <1>14, <1>15, <1>16, <1>17, <1>18 DEF IndInv

\* Callbacks outside of a read find nothing pressed by a read: obj_act is None.
LEMMA OutsideEffect ==
    ASSUME IndInv, pc \in {"idle"} \cup ThrowEvents,
           NEW gone \in Deletions, NEW new \in Creations(alive \ gone), Callback(gone, new),
           UNCHANGED <<state, scroll_dir, flags, throw>>,
           throw => gone = {},
           pc' \in {"idle", "thrown", "threw"},
           pc = "idle" => pc' = "idle",
           pc # "idle" => pc' \in {"thrown", "threw"}
    PROVE  IndInv'
<1>1. /\ TypeOK /\ Pointers /\ obj_act = None /\ pc # "PRESSED"
      /\ pc \in ThrowEvents => throw
  BY DEF IndInv, Control, ThrowPcs, ThrowEvents
<1>2. UNCHANGED <<state, scroll_dir, wait_until_release, long_pr_sent, gesture_sent, throw>>
  BY DEF flags
<1> DEFINE Effect ==
      /\ alive' \subseteq Objects /\ Screen \in alive'
      /\ act_obj' \in {act_obj, None} /\ last_obj' \in {last_obj, None}
      /\ scroll_obj' \in {scroll_obj, None} /\ last_pressed' \in {last_pressed, None}
      /\ obj_act' \in {obj_act, None}
      /\ {act_obj, last_obj, scroll_obj, last_pressed, obj_act}' \subseteq alive' \cup {None}
      /\ act_obj' # None => last_obj' = act_obj'
      /\ ScrollsWhatIsPressed'
      /\ reset_query' \in BOOLEAN
      /\ ~ reset_query' => /\ act_obj' = act_obj /\ last_obj' = last_obj
                           /\ scroll_obj' = scroll_obj /\ ~ reset_query
      /\ act_obj' # None => scroll_obj' = scroll_obj
      /\ reset_query' /\ ~ reset_query => touched' = {}
<1>3. Effect
  BY <1>1, CallbackEffect
<1> DEFINE Told ==
      /\ held' \subseteq {act_obj'} /\ held' \subseteq held /\ held' \subseteq Objects
      /\ touched' \subseteq touched
      /\ reset_query' => held' = {}
      /\ let_go' \in {let_go, None}
      /\ scrolled' = (scrolled \/ FALSE)
      /\ ~ reset_query' => held' = held
<1>4. Told
  <2>1. /\ pc \in ReadEvents \cup ThrowEvents \cup {"idle"}
        /\ pc \notin {"RELEASED", "SCROLL_BEGIN", "PRESS_LOST"}
    BY DEF ThrowEvents
  <2> QED
    BY <1>1, <2>1, CallbackStory
<1>5. throw => reset_query' = FALSE
  <2> SUFFICES ASSUME throw PROVE reset_query' = FALSE
    OBVIOUS
  <2>1. reset_query = FALSE /\ gone = {}
    BY <1>1 DEF Pointers, TypeOK
  <2>2. DeviceUses(gone) = FALSE
    BY <2>1 DEF DeviceUses
  <2> QED
    BY <2>1, <2>2 DEF Callback
<1> HIDE DEF Effect, Told
<1> USE <1>1, <1>2
<1>6. TypeOK'
  <2>1. obj_act' \in OrNone /\ let_go' \in OrNone /\ touched' \subseteq Objects
    BY <1>3, <1>4 DEF Effect, Told, TypeOK, OrNone
  <2>2. scrolled' \in BOOLEAN /\ pc' \in Places
    BY <1>4 DEF Told, TypeOK, Places
  <2> QED
    BY <1>3, <1>4, <2>1, <2>2 DEF Told, Effect, TypeOK, OrNone
<1>7. obj_act' = None
  BY <1>3 DEF Effect
<1>8. Control'
  BY <1>3, <1>5, <1>7 DEF Control, PressPcs, ReleasePcs, ThrowPcs, ThrowEvents
<1>9. Pointers'
  BY <1>3, <1>5, <1>7 DEF Effect, Pointers, ThrowPcs, ThrowEvents
<1>10. Receivers'
  BY <1>3, <1>5 DEF Effect, IndInv, Receivers, ObjectPcs, ThrowEvents
<1>11. Story'
  BY <1>3, <1>4 DEF Effect, Told, IndInv, Story, ThrowEvents, ReleasePcs
<1>12. Touch'
  BY <1>3, <1>4 DEF Effect, Told, IndInv, Touch
<1> QED
  BY <1>6, <1>8, <1>9, <1>10, <1>11, <1>12 DEF IndInv

LEMMA NothingDeleted == {} \in Deletions /\ alive \ {} = alive
  BY DEF Deletions

LEMMA OutsideSteps ==
    ASSUME IndInv, OtherCallbacks \/ DeliverThrow
    PROVE  IndInv'
<1>1. CASE OtherCallbacks /\ throw
  <2>1. PICK new \in Creations(alive) : Callback({}, new)
    BY <1>1 DEF OtherCallbacks, CreateOnly
  <2> QED
    BY <1>1, <2>1, NothingDeleted, OutsideEffect DEF OtherCallbacks
<1>2. CASE OtherCallbacks /\ ~ throw
  <2>1. PICK gone \in Deletions : \E new \in Creations(alive \ gone) : Callback(gone, new)
    BY <1>2 DEF OtherCallbacks, Callbacks
  <2>2. PICK new \in Creations(alive \ gone) : Callback(gone, new)
    BY <2>1
  <2> QED
    BY <1>2, <2>2, OutsideEffect DEF OtherCallbacks
<1>3. CASE DeliverThrow
  <2>1. PICK new \in Creations(alive) : Callback({}, new)
    BY <1>3 DEF DeliverThrow, CreateOnly
  <2>2. pc' \in {"thrown", "threw"} /\ pc # "idle"
    BY <1>3 DEF DeliverThrow, ThrowEvents
  <2> QED
    BY <1>3, <2>1, <2>2, NothingDeleted, OutsideEffect DEF DeliverThrow
<1> QED
  BY <1>1, <1>2, <1>3

-----------------------------------------------------------------------------
(* The theorems. *)

LEMMA InitHolds == Init => IndInv
<1> SUFFICES ASSUME Init PROVE IndInv
  OBVIOUS
<1> USE TreeAssumption DEF Init
<1>1. TypeOK
  BY DEF TypeOK, OrNone, Places
<1>2. Control /\ Pointers /\ Receivers
  BY DEF Control, Pointers, Receivers, ScrollsWhatIsPressed, PressPcs, ReleasePcs, ThrowPcs,
         ObjectPcs
<1>3. Story /\ Touch
  BY DEF Story, Touch
<1> QED
  BY <1>1, <1>2, <1>3 DEF IndInv

LEMMA StutterKeeps == IndInv /\ UNCHANGED vars => IndInv'
  BY DEF IndInv, TypeOK, Control, Pointers, Receivers, Story, Touch, ScrollsWhatIsPressed,
         vars, objects, flags, history

\* The invariant is inductive.
THEOREM Invariance == Spec => []IndInv
<1>1. IndInv /\ [Next]_vars => IndInv'
  <2>1. Next => LocalNext \/ Deliver \/ OtherCallbacks \/ DeliverThrow
    BY DEF Next, LocalNext
  <2> QED
    BY <2>1, LocalSteps, DeliverStep, OutsideSteps, StutterKeeps
<1> QED
  BY <1>1, InitHolds, PTL DEF Spec

\* Every variable of the device keeps its type.
THEOREM TypeCorrect == Spec => []TypeOK
<1>1. IndInv => TypeOK
  BY DEF IndInv
<1> QED
  BY <1>1, Invariance, PTL

\* Whatever callbacks delete, the device and its next event concern living objects only.
THEOREM NothingDangles == Spec => []NoGoneObject
<1>1. IndInv => NoGoneObject
  <2> SUFFICES ASSUME IndInv, pc \in ReadEvents \cup ThrowEvents PROVE Receiver \in alive
    BY DEF IndInv, Pointers, NoGoneObject
  <2>1. /\ Screen \in alive /\ act_obj \in alive \cup {None}
        /\ scroll_obj \in alive \cup {None} /\ last_pressed \in alive \cup {None}
        /\ obj_act \in alive \cup {None}
    BY DEF IndInv, Pointers
  <2>2. CASE pc = "PRESS_LOST"
    BY <2>1, <2>2 DEF IndInv, Receivers, Receiver, ThrowEvents
  <2>3. CASE pc = "DEFOCUSED"
    BY <2>1, <2>3 DEF IndInv, Receivers, Receiver, ThrowEvents
  <2>4. CASE pc = "GESTURE"
    BY <2>1, <2>4 DEF Receiver, ThrowEvents
  <2>5. CASE pc \in {"STOP", "STOPPED", "SCROLL_BEGIN", "SCROLL"} \cup ThrowEvents
    <3>1. Receiver = scroll_obj
      BY <2>5 DEF Receiver, ThrowEvents
    <3>2. scroll_obj # None
      BY <2>5 DEF IndInv, Receivers, ThrowEvents
    <3> QED
      BY <2>1, <3>1, <3>2
  <2>6. CASE pc \in {"PRESSED", "FOCUSED", "PRESSING", "LONG_PRESSED", "LONG_PRESSED_REPEAT",
                     "RELEASED", "SHORT_CLICKED", "CLICKED", "SCROLL_THROW_BEGIN"}
    <3>1. Receiver = obj_act
      BY <2>6 DEF Receiver, ThrowEvents
    <3>2. obj_act # None
      BY <2>6 DEF IndInv, Receivers, ObjectPcs
    <3> QED
      BY <2>1, <3>1, <3>2
  <2> QED
    BY <2>2, <2>3, <2>4, <2>5, <2>6 DEF ReadEvents
<1> QED
  BY <1>1, Invariance, PTL

\* Whoever is told PRESSED is told RELEASED or PRESS_LOST, or deleted, before the read
\* that finds the finger lifted is over.
THEOREM EveryPressIsAnswered == Spec => []PressIsAnswered
<1>1. IndInv => PressIsAnswered
  BY DEF IndInv, Story, PressIsAnswered
<1> QED
  BY <1>1, Invariance, PTL

\* A click goes to the object just released, and only if it was not scrolled.
THEOREM ClicksAreOfThisTouch == Spec => []ClickFollowsRelease
<1>1. IndInv => ClickFollowsRelease
  BY DEF IndInv, Story, ClickFollowsRelease
<1> QED
  BY <1>1, Invariance, PTL

\* A touch presses a second object only after a deletion.
THEOREM OneTouchOneObject == Spec => []OneObjectPerTouch
<1>1. IndInv => OneObjectPerTouch
  BY DEF IndInv, Touch, OneObjectPerTouch
<1> QED
  BY <1>1, Invariance, PTL

\* A touch is told as a whole, for any tree of objects and whatever the callbacks do.
THEOREM TouchIsToldAsAWhole == Spec => []TouchIsWhole
<1> QED
  BY EveryPressIsAnswered, ClicksAreOfThisTouch, OneTouchOneObject, PTL DEF TouchIsWhole

\* The scrolled object is the pressed one or a parent of it.
THEOREM ScrollIsOfThisTouch == Spec => []ScrollsWhatIsPressed
<1>1. IndInv => ScrollsWhatIsPressed
  BY DEF IndInv, Pointers
<1> QED
  BY <1>1, Invariance, PTL

-----------------------------------------------------------------------------
(* The device implements TouchProtocol. *)

LEMMA LocalFollowsProtocol ==
    ASSUME IndInv, LocalNext
    PROVE  Protocol!DropOut
<1>1. held' = held /\ let_go' \in {let_go, None}
  BY DEF LocalNext, history, Read, EndRead, Wait, KeepObject, Search, Stopped, SameObject,
         LoseObject, Lost, NewObject, Focus, Focused, Pressing, BeginScroll, Scroll, Gesture,
         Long, LongSent, Repeat, Lifted, Release, Clicks, Released, Thrown, ThrowEnds,
         AfterThrow
<1> QED
  BY <1>1 DEF Protocol!DropOut

LEMMA CallbackFollowsProtocol ==
    ASSUME IndInv, pc \in ReadEvents \cup ThrowEvents \cup {"idle"},
           NEW gone \in Deletions, NEW new \in Creations(alive \ gone), Callback(gone, new),
           pc = "RELEASED" => ~ reset_query
    PROVE  Protocol!Next \/ UNCHANGED <<held, let_go>>
<1>1. CASE pc = "PRESSED"
  <2>1. held = {} /\ let_go = None /\ act_obj \in Objects
    BY <1>1 DEF IndInv, Story, TypeOK, OrNone, Receivers, ObjectPcs
  <2>2. held' \subseteq {act_obj'} /\ held' \subseteq Objects /\ let_go' = None
    BY <1>1, <2>1, CallbackStory
  <2>3. act_obj' \in {act_obj, None}
    BY CallbackEffect DEF IndInv
  <2>4. held' \in {{act_obj}, {}}
    BY <2>2, <2>3, TreeAssumption
  <2> QED
    BY <2>1, <2>2, <2>4 DEF Protocol!Next, Protocol!Press
<1>2. CASE pc = "RELEASED"
  <2>1. held = {act_obj} /\ obj_act = act_obj /\ act_obj \in Objects /\ let_go = None
    BY <1>2 DEF IndInv, Story, TypeOK, OrNone, Receivers, ObjectPcs
  <2>2. held' = {} /\ let_go' \in {act_obj, None}
    BY <1>2, <2>1, CallbackStory
  <2> QED
    BY <2>1, <2>2 DEF Protocol!Next, Protocol!Release
<1>3. CASE pc \notin {"PRESSED", "RELEASED"}
  <2>1. held' \subseteq held /\ let_go' \in {let_go, None}
    BY <1>3, CallbackStory
  <2> QED
    BY <2>1 DEF Protocol!Next, Protocol!DropOut
<1> QED
  BY <1>1, <1>2, <1>3

\* The events of the touch screen follow TouchProtocol, for any tree of objects and any
\* deletions in callbacks.
THEOREM DeviceKeepsProtocol == Spec => KeepsProtocol
<1>1. Init => Protocol!Init
  BY DEF Init, Protocol!Init
<1>2. IndInv /\ [Next]_vars => [Protocol!Next]_<<held, let_go>>
  <2> SUFFICES ASSUME IndInv, [Next]_vars PROVE Protocol!Next \/ UNCHANGED <<held, let_go>>
    OBVIOUS
  <2>1. CASE LocalNext
    BY <2>1, LocalFollowsProtocol DEF Protocol!Next
  <2>2. CASE Deliver
    <3>1. PICK gone \in Deletions : \E new \in Creations(alive \ gone) : Callback(gone, new)
      BY <2>2 DEF Deliver, Callbacks
    <3>2. pc \in ReadEvents /\ ~ reset_query
      BY <2>2 DEF Deliver, IndInv, Control, ReadEvents
    <3> QED
      BY <3>1, <3>2, CallbackFollowsProtocol
  <2>3. CASE OtherCallbacks
    <3>1. PICK gone \in Deletions : \E new \in Creations(alive \ gone) : Callback(gone, new)
      BY <2>3, NothingDeleted DEF OtherCallbacks, CreateOnly, Callbacks
    <3> QED
      BY <2>3, <3>1, CallbackFollowsProtocol DEF OtherCallbacks
  <2>4. CASE DeliverThrow
    <3>1. PICK new \in Creations(alive) : Callback({}, new)
      BY <2>4 DEF DeliverThrow, CreateOnly
    <3>2. pc \in ThrowEvents /\ pc # "RELEASED"
      BY <2>4 DEF DeliverThrow, ThrowEvents
    <3> QED
      BY <3>1, <3>2, NothingDeleted, CallbackFollowsProtocol
  <2>5. CASE UNCHANGED vars
    BY <2>5 DEF vars, history
  <2> QED
    BY <2>1, <2>2, <2>3, <2>4, <2>5 DEF Next, LocalNext
<1> QED
  BY <1>1, <1>2, Invariance, PTL DEF Spec, KeepsProtocol, Protocol!Spec
=============================================================================
