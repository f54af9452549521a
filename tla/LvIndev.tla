------------------------------- MODULE LvIndev -------------------------------
(***************************************************************************)
(* The touch screen: LVGL's pointer input device, lvgl/src/indev/          *)
(* lv_indev.c and lv_indev_scroll.c, as this program sets it up - one      *)
(* device, no focus groups, objects with the flags of lv_obj's constructor *)
(* and never disabled.                                                     *)
(*                                                                         *)
(* lv_indev_read samples the finger and delivers events.  The callback of  *)
(* any of them may delete objects, the receiver and its parents included,  *)
(* and create others; the rest of lv_indev_read runs after it with the     *)
(* pointers it had read before.  So every event is a step of its own.      *)
(***************************************************************************)
CONSTANTS
    Objects, None,
    Screen,      \* the active screen: the object without a parent, never deleted
    Below,       \* Below[o]: o, its children, their children...
    Focusable    \* objects with LV_OBJ_FLAG_CLICK_FOCUSABLE

ASSUME TreeAssumption ==
    /\ None \notin Objects /\ Screen \in Objects /\ Focusable \subseteq Objects
    /\ Below \in [Objects -> SUBSET Objects]
    /\ \A o \in Objects : o \in Below[o] /\ (\A p \in Below[o] : Below[p] \subseteq Below[o])
    /\ \A o \in Objects \ {Screen} : Screen \notin Below[o]

VARIABLES
    alive,       \* the objects that exist
    state,       \* indev->state: what the last read found
    act_obj, last_obj, scroll_obj, last_pressed,    \* indev->pointer
    scroll_dir,  \* scroll_dir is not LV_DIR_NONE
    obj_act,     \* indev_obj_act
    reset_query, wait_until_release, long_pr_sent, gesture_sent,
    throw,       \* scroll_throw_anim runs
    pc,          \* the event to deliver next, or the place in the code
    held, touched, let_go, scrolled   \* history, not in the code: see History

objects == <<act_obj, last_obj, scroll_obj, last_pressed, obj_act>>
flags == <<wait_until_release, long_pr_sent, gesture_sent>>
history == <<held, touched, let_go, scrolled>>
vars == <<alive, state, objects, scroll_dir, reset_query, flags, throw, pc, history>>

OrNone == Objects \cup {None}

\* Events of a read, and two of the animation that goes on with a thrown scroll.
ReadEvents ==
    {"STOP", "STOPPED", "PRESS_LOST", "PRESSED", "DEFOCUSED", "FOCUSED", "PRESSING",
     "SCROLL_BEGIN", "SCROLL", "GESTURE", "LONG_PRESSED", "LONG_PRESSED_REPEAT",
     "RELEASED", "SHORT_CLICKED", "CLICKED", "SCROLL_THROW_BEGIN"}
ThrowEvents == {"THROW", "THROW_END"}

Places ==
    {"idle", "proc", "stopped", "found", "lost", "focus", "focused", "pressing", "scroll",
     "gesture", "long", "longSent", "repeat", "clicks", "lifted", "thrown", "threw", "end"}

TypeOK ==
    /\ alive \subseteq Objects
    /\ state \in {"PRESSED", "RELEASED"}
    /\ act_obj \in OrNone /\ last_obj \in OrNone /\ scroll_obj \in OrNone
    /\ last_pressed \in OrNone /\ obj_act \in OrNone
    /\ scroll_dir \in BOOLEAN /\ reset_query \in BOOLEAN
    /\ wait_until_release \in BOOLEAN /\ long_pr_sent \in BOOLEAN /\ gesture_sent \in BOOLEAN
    /\ throw \in BOOLEAN
    /\ pc \in ReadEvents \cup ThrowEvents \cup Places
    /\ held \subseteq Objects /\ touched \subseteq Objects
    /\ let_go \in OrNone /\ scrolled \in BOOLEAN

Init ==
    /\ alive = {Screen}
    /\ state = "RELEASED"
    /\ act_obj = None /\ last_obj = None /\ scroll_obj = None
    /\ last_pressed = None /\ obj_act = None
    /\ scroll_dir = FALSE /\ reset_query = FALSE
    /\ wait_until_release = FALSE /\ long_pr_sent = FALSE /\ gesture_sent = FALSE
    /\ throw = FALSE
    /\ pc = "idle"
    /\ held = {} /\ touched = {} /\ let_go = None /\ scrolled = FALSE

-----------------------------------------------------------------------------
(* What a callback does, and what its deletions do to the device. *)

Parents(o) == {p \in Objects \ {o} : o \in Below[p]}

\* lv_obj_delete of an object, or lv_obj_clean of the screen, or neither
Deletions ==
    {{}, alive \ {Screen}} \cup {Below[o] \cap alive : o \in alive \ {Screen}}

\* one new object, perhaps at an address just freed
Creations(left) ==
    {{}} \cup {{o} : o \in {o \in Objects \ left : Parents(o) \subseteq left}}

Kept(o, gone) == IF o \in gone THEN None ELSE o

\* obj_delete_core: deleting one of these resets the device
DeviceUses(gone) == \E o \in {act_obj, last_obj, scroll_obj, obj_act} : o \in gone

Forget_ActOnly(gone) ==
    /\ act_obj' = Kept(act_obj, gone) /\ last_obj' = Kept(last_obj, gone)
    /\ scroll_obj' = Kept(scroll_obj, gone)
    /\ UNCHANGED last_pressed

\* obj_delete_core, indev_reset_core(indev, obj) for every deleted obj
Forget(gone) ==
    /\ act_obj' = Kept(act_obj, gone) /\ last_obj' = Kept(last_obj, gone)
    /\ scroll_obj' = Kept(scroll_obj, gone)
    /\ last_pressed' = Kept(last_pressed, gone)

\* The receiver of the event pc.  No object but the screen is without
\* LV_OBJ_FLAG_GESTURE_BUBBLE, so gestures end there.
Receiver ==
    CASE pc = "PRESS_LOST" -> act_obj
      [] pc = "DEFOCUSED" -> last_pressed
      [] pc \in {"STOP", "STOPPED", "SCROLL_BEGIN", "SCROLL"} \cup ThrowEvents -> scroll_obj
      [] pc = "GESTURE" -> Screen
      [] OTHER -> obj_act

\* held: told PRESSED, but not yet the end of it.  touched: the same within this touch,
\* also after its end.  let_go: told RELEASED in this read.  scrolled: a scroll has begun
\* since PRESSED.
History(gone) ==
    /\ held' = ((held \cup (IF pc = "PRESSED" THEN {obj_act} ELSE {}))
                  \ (IF pc \in {"RELEASED", "PRESS_LOST"} THEN {Receiver} ELSE {})) \ gone
    /\ touched' = IF DeviceUses(gone) THEN {}
                  ELSE (touched \cup (IF pc = "PRESSED" THEN {obj_act} ELSE {})) \ gone
    /\ let_go' = IF pc = "CLICKED" THEN None
                 ELSE Kept(IF pc = "RELEASED" THEN obj_act ELSE let_go, gone)
    /\ scrolled' = (pc # "PRESSED" /\ (scrolled \/ pc = "SCROLL_BEGIN"))

\* Callbacks run: gone is deleted, new is created.
Callback(gone, new) ==
    /\ alive' = (alive \ gone) \cup new
    /\ Forget(gone)
    /\ reset_query' = (reset_query \/ DeviceUses(gone))
    /\ obj_act' = IF DeviceUses(gone) THEN None ELSE obj_act
    /\ History(gone)

Callbacks == \E gone \in Deletions : \E new \in Creations(alive \ gone) : Callback(gone, new)

CreateOnly == \E new \in Creations(alive) : Callback({}, new)

\* Where the code goes on after the event pc.
After ==
    CASE pc = "STOP" -> "STOPPED"
      [] pc = "STOPPED" -> "stopped"
      [] pc = "PRESS_LOST" -> "lost"
      [] pc = "PRESSED" -> "focus"
      [] pc = "DEFOCUSED" -> "FOCUSED"
      [] pc = "FOCUSED" -> "focused"
      [] pc \in {"PRESSING", "SCROLL_BEGIN"} -> "scroll"
      [] pc = "SCROLL" -> "gesture"
      [] pc = "GESTURE" -> "long"
      [] pc = "LONG_PRESSED" -> "longSent"
      [] pc = "LONG_PRESSED_REPEAT" -> "end"
      [] pc = "RELEASED" -> "clicks"
      [] pc = "SHORT_CLICKED" -> "CLICKED"
      [] OTHER -> "lifted"

\* send_event and the other lv_obj_send_event of a read, each with its
\* indev_reset_check: after a reset the read is over
Deliver ==
    /\ pc \in ReadEvents
    /\ Callbacks
    /\ pc' = IF reset_query' THEN "end" ELSE After
    /\ UNCHANGED <<state, scroll_dir, flags, throw>>

\* Timers of the program, between two reads.  desktop_long_press_timer_cb, the only one to
\* delete anything, runs while the desktop is pressed, not while a thrown scroll goes on.
OtherCallbacks ==
    /\ pc = "idle"
    /\ IF throw THEN CreateOnly ELSE Callbacks
    /\ UNCHANGED <<state, scroll_dir, flags, throw, pc>>

-----------------------------------------------------------------------------
(* The beginning and the end of a read. *)

\* indev_proc_reset_query_handler
HandleReset ==
    /\ IF reset_query
         THEN /\ act_obj' = None /\ last_obj' = None /\ scroll_obj' = None
              /\ scroll_dir' = FALSE /\ long_pr_sent' = FALSE
         ELSE UNCHANGED <<act_obj, last_obj, scroll_obj, scroll_dir, long_pr_sent>>
    /\ reset_query' = FALSE /\ obj_act' = None
    /\ UNCHANGED <<last_pressed, wait_until_release, gesture_sent>>

\* lv_indev_read, until the finger is known
Read(s) ==
    /\ pc = "idle" /\ pc' = "proc"
    /\ state' = s
    /\ HandleReset
    /\ touched' = IF state = "RELEASED" THEN {} ELSE touched
    /\ UNCHANGED <<alive, throw, held, let_go, scrolled>>

\* lv_indev_read after indev_pointer_proc
EndRead ==
    /\ pc = "end" /\ pc' = "idle"
    /\ HandleReset
    /\ let_go' = None
    /\ UNCHANGED <<alive, state, throw, held, touched, scrolled>>

-----------------------------------------------------------------------------
(* indev_proc_press *)

\* nothing until the finger is lifted
Wait ==
    /\ pc = "proc" /\ state = "PRESSED" /\ wait_until_release
    /\ pc' = "end" /\ obj_act' = act_obj
    /\ UNCHANGED <<alive, state, act_obj, last_obj, scroll_obj, last_pressed, scroll_dir,
                   reset_query, flags, throw, history>>

\* Only the screen is without LV_OBJ_FLAG_PRESS_LOCK.
Searches == act_obj = None \/ (scroll_obj = None /\ act_obj = Screen)

KeepObject ==
    /\ pc = "proc" /\ state = "PRESSED" /\ ~ wait_until_release
    /\ ~ Searches
    /\ pc' = "found" /\ obj_act' = act_obj
    /\ UNCHANGED <<alive, state, act_obj, last_obj, scroll_obj, last_pressed, scroll_dir,
                   reset_query, flags, throw, history>>

Search_LetsThrow(o) ==
    /\ pc = "proc" /\ state = "PRESSED" /\ ~ wait_until_release
    /\ Searches
    /\ obj_act' = o /\ pc' = "found"
    /\ UNCHANGED <<alive, state, act_obj, last_obj, scroll_obj, last_pressed, scroll_dir,
                   reset_query, flags, throw, history>>

\* pointer_search_obj finds o, and a scroll that is thrown stops; lv_indev_scroll_throw_handler
\* may scroll a last time (STOP), then tells the end (STOPPED)
Search(o) ==
    /\ pc = "proc" /\ state = "PRESSED" /\ ~ wait_until_release
    /\ Searches
    /\ obj_act' = o
    /\ throw' = (throw /\ last_obj = None)
    /\ IF last_obj # None /\ scroll_obj # None /\ scroll_dir
         THEN pc' \in {"STOP", "STOPPED"}
         ELSE pc' = "found"
    /\ UNCHANGED <<alive, state, act_obj, last_obj, scroll_obj, last_pressed, scroll_dir,
                   reset_query, flags, history>>

Stopped ==
    /\ pc = "stopped" /\ pc' = "found"
    /\ scroll_obj' = None /\ scroll_dir' = FALSE
    /\ UNCHANGED <<alive, state, act_obj, last_obj, last_pressed, obj_act,
                   reset_query, flags, throw, history>>

\* the object found is the one pressed, or none is
SameObject ==
    /\ pc = "found" /\ obj_act = act_obj
    /\ pc' = "pressing"
    /\ UNCHANGED <<alive, state, objects, scroll_dir, reset_query, flags, throw, history>>

LoseObject ==
    /\ pc = "found" /\ obj_act # act_obj /\ act_obj # None
    /\ pc' = "PRESS_LOST"
    /\ UNCHANGED <<alive, state, objects, scroll_dir, reset_query, flags, throw, history>>

\* lv_indev_reset(indev, NULL), lv_indev_wait_release
Lost ==
    /\ pc = "lost" /\ pc' = "end"
    /\ act_obj' = None /\ last_obj' = None /\ scroll_obj' = None
    /\ last_pressed' = None /\ obj_act' = None
    /\ reset_query' = TRUE /\ wait_until_release' = TRUE
    /\ UNCHANGED <<alive, state, scroll_dir, long_pr_sent, gesture_sent, throw, history>>

NewObject_OverOld ==
    /\ pc = "found" /\ obj_act # None /\ act_obj # obj_act
    /\ pc' = "PRESSED"
    /\ act_obj' = obj_act /\ last_obj' = obj_act
    /\ scroll_dir' = FALSE /\ long_pr_sent' = FALSE /\ gesture_sent' = FALSE
    /\ UNCHANGED <<alive, state, scroll_obj, last_pressed, obj_act, reset_query,
                   wait_until_release, throw, history>>

NewObject ==
    /\ pc = "found" /\ obj_act # None /\ act_obj = None
    /\ pc' = "PRESSED"
    /\ act_obj' = obj_act /\ last_obj' = obj_act
    /\ scroll_dir' = FALSE /\ long_pr_sent' = FALSE /\ gesture_sent' = FALSE
    /\ UNCHANGED <<alive, state, scroll_obj, last_pressed, obj_act, reset_query,
                   wait_until_release, throw, history>>

\* indev_click_focus; no object is in a group
Focus ==
    /\ pc = "focus"
    /\ pc' = IF obj_act \notin Focusable \/ last_pressed = obj_act THEN "pressing"
             ELSE IF last_pressed = None THEN "FOCUSED" ELSE "DEFOCUSED"
    /\ UNCHANGED <<alive, state, objects, scroll_dir, reset_query, flags, throw, history>>

Focused ==
    /\ pc = "focused" /\ pc' = "pressing"
    /\ last_pressed' = obj_act
    /\ UNCHANGED <<alive, state, act_obj, last_obj, scroll_obj, obj_act, scroll_dir,
                   reset_query, flags, throw, history>>

Pressing ==
    /\ pc = "pressing"
    /\ pc' = IF obj_act = None THEN "end" ELSE "PRESSING"
    /\ UNCHANGED <<alive, state, objects, scroll_dir, reset_query, flags, throw, history>>

\* lv_indev_scroll_handler: the finger has moved far enough, and s, the object or a
\* parent, can scroll that way
BeginScroll(s) ==
    /\ pc = "scroll" /\ scroll_obj = None
    /\ act_obj \in Below[s]
    /\ pc' = "SCROLL_BEGIN"
    /\ scroll_obj' = s /\ scroll_dir' = TRUE
    /\ UNCHANGED <<alive, state, act_obj, last_obj, last_pressed, obj_act, reset_query,
                   flags, throw, history>>

\* lv_indev_scroll_handler with a scroll object, or without movement
Scroll ==
    /\ pc = "scroll"
    /\ \/ scroll_obj # None /\ pc' = "SCROLL"
       \/ pc' = "gesture"
    /\ UNCHANGED <<alive, state, objects, scroll_dir, reset_query, flags, throw, history>>

\* indev_gesture; the finger may not have moved far enough
Gesture ==
    /\ pc = "gesture"
    /\ \/ /\ scroll_obj = None /\ ~ gesture_sent
          /\ gesture_sent' = TRUE /\ pc' = "GESTURE"
       \/ /\ pc' = "long"
          /\ UNCHANGED gesture_sent
    /\ UNCHANGED <<alive, state, objects, scroll_dir, reset_query, wait_until_release,
                   long_pr_sent, throw, history>>

\* long_press_time may not have passed
Long ==
    /\ pc = "long"
    /\ \/ scroll_obj = None /\ ~ long_pr_sent /\ pc' = "LONG_PRESSED"
       \/ pc' = "repeat"
    /\ UNCHANGED <<alive, state, objects, scroll_dir, reset_query, flags, throw, history>>

LongSent ==
    /\ pc = "longSent" /\ pc' = "repeat"
    /\ long_pr_sent' = TRUE
    /\ UNCHANGED <<alive, state, objects, scroll_dir, reset_query, wait_until_release,
                   gesture_sent, throw, history>>

\* long_press_repeat_time may not have passed
Repeat ==
    /\ pc = "repeat"
    /\ \/ scroll_obj = None /\ long_pr_sent /\ pc' = "LONG_PRESSED_REPEAT"
       \/ pc' = "end"
    /\ UNCHANGED <<alive, state, objects, scroll_dir, reset_query, flags, throw, history>>

-----------------------------------------------------------------------------
(* indev_proc_release *)

\* The object is lost already: there is none to tell PRESS_LOST.
Lifted ==
    /\ pc = "proc" /\ state = "RELEASED" /\ wait_until_release
    /\ pc' = "lifted"
    /\ act_obj' = None /\ last_obj' = None /\ obj_act' = None
    /\ wait_until_release' = FALSE
    /\ UNCHANGED <<alive, state, scroll_obj, last_pressed, scroll_dir, reset_query,
                   long_pr_sent, gesture_sent, throw, history>>

Release_ScrolledNot ==
    /\ pc = "proc" /\ state = "RELEASED" /\ ~ wait_until_release
    /\ obj_act' = act_obj
    /\ pc' = IF act_obj = None \/ scroll_obj # None THEN "lifted" ELSE "RELEASED"
    /\ UNCHANGED <<alive, state, act_obj, last_obj, scroll_obj, last_pressed, scroll_dir,
                   reset_query, flags, throw, history>>

Release ==
    /\ pc = "proc" /\ state = "RELEASED" /\ ~ wait_until_release
    /\ obj_act' = act_obj
    /\ pc' = IF act_obj = None THEN "lifted" ELSE "RELEASED"
    /\ UNCHANGED <<alive, state, act_obj, last_obj, scroll_obj, last_pressed, scroll_dir,
                   reset_query, flags, throw, history>>

Clicks ==
    /\ pc = "clicks"
    /\ pc' = IF scroll_obj # None THEN "SCROLL_THROW_BEGIN"
             ELSE IF long_pr_sent THEN "CLICKED" ELSE "SHORT_CLICKED"
    /\ UNCHANGED <<alive, state, objects, scroll_dir, reset_query, flags, throw, history>>

\* after the events of the release
Released ==
    /\ pc = "lifted" /\ pc' = "end"
    /\ act_obj' = None
    /\ throw' = (throw \/ scroll_obj # None)
    /\ UNCHANGED <<alive, state, last_obj, scroll_obj, last_pressed, obj_act, scroll_dir,
                   reset_query, flags, history>>

-----------------------------------------------------------------------------
(* indev_scroll_throw_anim_cb, called by the animation timer between reads *)

Thrown ==
    /\ pc = "idle" /\ throw
    /\ IF scroll_obj # None /\ scroll_dir
         THEN pc' \in ThrowEvents /\ UNCHANGED throw
         ELSE throw' = FALSE /\ UNCHANGED pc
    /\ UNCHANGED <<alive, state, objects, scroll_dir, reset_query, flags, history>>

\* The program's one callback for these events, wallpaper_scroll_event_cb, deletes nothing
\* when it is told of them.
DeliverThrow ==
    /\ pc \in ThrowEvents
    /\ CreateOnly
    /\ pc' = IF reset_query \/ pc = "THROW" THEN "thrown" ELSE "threw"
    /\ UNCHANGED <<state, scroll_dir, flags, throw>>

\* the scroll is over
ThrowEnds ==
    /\ pc = "threw" /\ pc' = "thrown"
    /\ scroll_obj' = None /\ scroll_dir' = FALSE
    /\ UNCHANGED <<alive, state, act_obj, last_obj, last_pressed, obj_act, reset_query,
                   flags, throw, history>>

\* nothing is scrolled any more, or the throw slows down to its end
AfterThrow ==
    /\ pc = "thrown"
    /\ \/ /\ scroll_obj # None /\ scroll_dir /\ ~ reset_query
          /\ pc' = "THROW_END" /\ UNCHANGED throw
       \/ /\ pc' = "idle"
          /\ throw' = (throw /\ scroll_obj # None /\ scroll_dir)
    /\ UNCHANGED <<alive, state, objects, scroll_dir, reset_query, flags, history>>

Next ==
    \/ Deliver \/ OtherCallbacks
    \/ (\E s \in {"PRESSED", "RELEASED"} : Read(s)) \/ EndRead
    \/ Wait \/ KeepObject \/ (\E o \in alive \cup {None} : Search(o)) \/ Stopped
    \/ SameObject \/ LoseObject \/ Lost \/ NewObject \/ Focus \/ Focused
    \/ Pressing \/ (\E s \in alive : BeginScroll(s)) \/ Scroll \/ Gesture
    \/ Long \/ LongSent \/ Repeat
    \/ Lifted \/ Release \/ Clicks \/ Released
    \/ Thrown \/ DeliverThrow \/ ThrowEnds \/ AfterThrow

Spec == Init /\ [][Next]_vars

Protocol == INSTANCE TouchProtocol WITH pressed <- held, released <- let_go

-----------------------------------------------------------------------------
\* The device points to objects that exist only, and so does every event, whatever the
\* callbacks of the events before it have deleted (obj_delete_core, indev_reset_check).
NoGoneObject ==
    /\ {act_obj, last_obj, scroll_obj, last_pressed, obj_act} \subseteq alive \cup {None}
    /\ pc \in ReadEvents \cup ThrowEvents => Receiver \in alive

\* Whoever is told PRESSED is told how it ends, unless it is deleted first: by the end of
\* the read that finds the finger lifted nobody waits for RELEASED or PRESS_LOST any more
\* (touch_started, long_press_timer).
PressIsAnswered ==
    pc = "idle" => /\ held \subseteq {act_obj}
                   /\ state = "RELEASED" => held = {}

\* CLICKED goes to the object that has just been told RELEASED, never to one whose touch
\* became a scroll, nor to an object created under the finger by the callback of RELEASED.
ClickFollowsRelease ==
    pc \in {"SHORT_CLICKED", "CLICKED"} => obj_act = let_go /\ ~ scrolled

\* One touch presses one object.  Another one, or the same again, is pressed only if an
\* object the device pointed to was deleted in between.
OneObjectPerTouch == pc = "PRESSED" => touched = {}

\* All three: a touch is told to one object as a whole, from PRESSED to its end and then the
\* click, whatever the callbacks in between delete and create.
TouchIsWhole == PressIsAnswered /\ ClickFollowsRelease /\ OneObjectPerTouch

\* While an object is pressed only it or a parent of it is scrolled; a scroll thrown
\* before has come to its end.
ScrollsWhatIsPressed == act_obj # None /\ scroll_obj # None => act_obj \in Below[scroll_obj]

\* The events follow the protocol that the callbacks of the program rely on.
KeepsProtocol == Protocol!Spec
=============================================================================
