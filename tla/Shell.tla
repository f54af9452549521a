-------------------------------- MODULE Shell --------------------------------
(***************************************************************************)
(* How the screens of the program follow each other: the windows each      *)
(* handler of src/src/screen.c, main_screen.c, kugou_music.c, dcim.c and   *)
(* data.c puts on the one LVGL screen or takes from it, the static         *)
(* pointers it keeps to them, and the timers whose callbacks use them.     *)
(*                                                                         *)
(* All windows but message boxes fill the screen, so the touch goes to the *)
(* last one created.  A pointer is "null", "valid", or "dangling": what it *)
(* points to was deleted.  unlock_screen and set_password_screen stand for *)
(* a window and the cover under it, which come and go together, and        *)
(* viewer_screen for the viewer and the three pointers to its parts.       *)
(* A handler is one step: all of them run in the one UI thread.            *)
(***************************************************************************)
EXTENDS Integers, Sequences, SequencesExt, FiniteSets

CONSTANT MaxWindows   \* bound of the model: no window is left behind beyond so many

ASSUME WindowsAssumption == MaxWindows \in Nat \ {0}

VARIABLES
    ui,         \* windows, bottom to top; pointers; number of each timer
    pressed,    \* a finger is on the desktop
    unlocked,   \* history, not in the code: the password was given since lock
    missed      \* history, not in the code: a directory had no file since boot

vars == <<ui, pressed, unlocked, missed>>

Kinds == {"lock", "unlock", "setpw", "desktop", "mask", "list", "player",
          "thumbs", "viewer", "time", "msgbox"}

\* the window an object belongs to, for each pointer to an object
Window == [
    desktop_win         |-> "desktop",
    status_bar_label    |-> "desktop",   \* the one of data.c
    black_screen_mask   |-> "mask",
    unlock_screen       |-> "unlock",
    set_password_screen |-> "setpw",
    music_list_screen   |-> "list",
    music_player_screen |-> "player",
    thumbnail_screen    |-> "thumbs",
    viewer_screen       |-> "viewer",
    hide_timer_data     |-> "viewer",    \* user data of hide_timer
    cover               |-> "none"       \* static in wallpaper_scroll_event_cb
]
Pointers == DOMAIN Window
Timers == {"status", "long_press", "hide", "progress"}

TypeOK ==
    /\ ui.windows \in Seq(Kinds)
    /\ ui.ptr \in [Pointers -> {"null", "valid", "dangling"}]
    /\ ui.timer \in [Timers -> Nat]
    /\ pressed \in BOOLEAN
    /\ unlocked \in BOOLEAN
    /\ missed \in BOOLEAN

-----------------------------------------------------------------------------
(* What the handlers do to the screen; each is a function from screen to    *)
(* screen.  Definitions named X_... are mutants, used only to see that a    *)
(* property notices them.                                                   *)

SetNull(u, pointers) ==
    [u EXCEPT !.ptr = [p \in Pointers |-> IF p \in pointers THEN "null" ELSE @[p]]]

\* lv_obj_create of a full-screen window, kept in the given pointers
Create(u, kind, pointers) ==
    [u EXCEPT !.windows = Append(@, kind),
              !.ptr = [p \in Pointers |-> IF p \in pointers THEN "valid" ELSE @[p]]]

\* valid pointers to deleted objects dangle from now on
Dangle(u, kinds) ==
    [u EXCEPT !.ptr = [p \in Pointers |->
        IF Window[p] \in kinds /\ @[p] = "valid" THEN "dangling" ELSE @[p]]]

\* lv_obj_del of the window of that kind that was created last
Delete(u, kind) ==
    LET at == SelectLastInSeq(u.windows, LAMBDA w : w = kind) IN
    IF at = 0 THEN u
    ELSE Dangle([u EXCEPT !.windows = RemoveAt(@, at)], {kind})

\* if (ptr) { lv_obj_del(ptr); ptr = NULL; }
DeleteIf(u, p) ==
    IF u.ptr[p] = "null" THEN u ELSE SetNull(Delete(u, Window[p]), {p})

\* lv_obj_clean(lv_screen_active())
Clean(u) == Dangle([u EXCEPT !.windows = <<>>], Kinds \cup {"none"})

StartTimer(u, t) == [u EXCEPT !.timer[t] = @ + 1]

\* if (timer) { lv_timer_delete(timer); timer = NULL; }
StopTimer(u, t) == [u EXCEPT !.timer[t] = IF @ = 0 THEN 0 ELSE @ - 1]

release_desktop_resources_KeepsPointer(u) ==
    SetNull(Delete(StopTimer(u, "status"), "desktop"), {"black_screen_mask"})

\* the mask is forgotten, not deleted
release_desktop_resources(u) ==
    SetNull(DeleteIf(StopTimer(u, "status"), "desktop_win"), {"black_screen_mask"})

Screen(u) ==
    Create(DeleteIf(release_desktop_resources(u), "black_screen_mask"), "lock", {})

UnlockScreen(u) ==
    LET v == DeleteIf(release_desktop_resources(u), "black_screen_mask") IN
    Create(DeleteIf(v, "unlock_screen"), "unlock", {"unlock_screen"})

SetPasswordScreen(u) ==
    Create(DeleteIf(u, "set_password_screen"), "setpw", {"set_password_screen"})

desktop(u) ==
    StartTimer(Create(DeleteIf(u, "black_screen_mask"), "desktop",
                      {"desktop_win", "status_bar_label"}), "status")

show_music_list_screen(u) ==
    Create(SetNull(Clean(StopTimer(u, "progress")), {"music_player_screen"}),
           "list", {"music_list_screen"})

show_music_player_screen(u) ==
    StartTimer(Create(SetNull(Clean(StopTimer(u, "progress")), {"music_list_screen"}),
                      "player", {"music_player_screen"}), "progress")

\* of cleanup_music_player: the list stays on the screen
cleanup_music_player(u) ==
    SetNull(StopTimer(u, "progress"), {"music_list_screen", "music_player_screen"})

\* the memset of init_gallery forgets what it does not delete
init_gallery(u) == SetNull(u, {"thumbnail_screen", "viewer_screen"})

show_gallery_thumbnail_screen_KeepsTimer(u) ==
    Create(SetNull(Clean(u), {"viewer_screen"}), "thumbs", {"thumbnail_screen"})

show_gallery_thumbnail_screen(u) ==
    Create(StopTimer(SetNull(Clean(u), {"viewer_screen"}), "hide"),
           "thumbs", {"thumbnail_screen"})

show_image_viewer_screen(u) ==
    StartTimer(Create(SetNull(StopTimer(Clean(u), "hide"), {"thumbnail_screen"}),
                      "viewer", {"viewer_screen", "hide_timer_data"}), "hide")

release_gallery_resources(u) ==
    DeleteIf(DeleteIf(StopTimer(u, "hide"), "thumbnail_screen"), "viewer_screen")

-----------------------------------------------------------------------------
\* boot_animation_timer_cb on the empty screen
Booted ==
    Screen([windows |-> <<>>,
            ptr |-> [p \in Pointers |-> "null"],
            timer |-> [t \in Timers |-> 0]])

Init == ui = Booted /\ pressed = FALSE /\ unlocked = FALSE /\ missed = FALSE

\* the window that gets the touch: the last one that fills the screen
TopOf(windows) ==
    LET at == SelectLastInSeq(windows, LAMBDA w : w # "msgbox") IN
    IF at = 0 THEN "none" ELSE windows[at]

Top == TopOf(ui.windows)

Touched(kind) == ~ pressed /\ Top = kind

Become(u) == ui' = u

\* guard of the model on the handlers that leave a window behind
HasRoom == Len(ui.windows) < MaxWindows

-----------------------------------------------------------------------------
(* The lock screen. *)

CoverUsed == [ui EXCEPT !.ptr["cover"] = IF @ = "null" THEN "valid" ELSE @]

\* wallpaper_scroll_event_cb creates the cover at the first event and shows it at
\* later ones, even after it was deleted: then the write goes unnoticed, or the
\* program dies and is started again.
Wallpaper(u) ==
    \/ Become(u) /\ UNCHANGED <<unlocked, missed>>
    \/ ui.ptr["cover"] = "dangling" /\ ui' = Booted /\ unlocked' = FALSE /\ missed' = FALSE

Drag == Touched("lock") /\ Wallpaper(CoverUsed) /\ UNCHANGED pressed

SwipeUp == Touched("lock") /\ Wallpaper(UnlockScreen(CoverUsed)) /\ UNCHANGED pressed

\* the last digit of unlock_keypad_event_cb, right
PasswordRight ==
    /\ Touched("unlock")
    /\ Become(desktop(DeleteIf(ui, "unlock_screen")))
    /\ unlocked' = TRUE
    /\ UNCHANGED <<pressed, missed>>

CancelUnlock_KeepsWindow ==
    /\ Touched("unlock")
    /\ Become(SetNull(ui, {"unlock_screen"}))
    /\ UNCHANGED <<pressed, unlocked, missed>>

CancelUnlock ==
    /\ Touched("unlock")
    /\ Become(DeleteIf(ui, "unlock_screen"))
    /\ UNCHANGED <<pressed, unlocked, missed>>

Forgot ==
    /\ Touched("unlock")
    /\ Become(SetPasswordScreen(DeleteIf(ui, "unlock_screen")))
    /\ UNCHANGED <<pressed, unlocked, missed>>

\* confirm_set_password_btn_event_cb, the passwords agree
SavePassword ==
    /\ Touched("setpw")
    /\ Become(DeleteIf(ui, "set_password_screen"))
    /\ UNCHANGED <<pressed, unlocked, missed>>

SetPasswordBack_ToDesktop ==
    /\ Touched("setpw")
    /\ Become(desktop(DeleteIf(ui, "set_password_screen")))
    /\ UNCHANGED <<pressed, unlocked, missed>>

SetPasswordBack ==
    /\ Touched("setpw") /\ HasRoom
    /\ Become(Screen(DeleteIf(ui, "set_password_screen")))
    /\ UNCHANGED <<pressed, unlocked, missed>>

LockSteps ==
    Drag \/ SwipeUp \/ PasswordRight \/ CancelUnlock \/ Forgot \/ SavePassword \/ SetPasswordBack

-----------------------------------------------------------------------------
(* The desktop. *)

\* desktop_long_press_cb, the finger goes down
Press ==
    /\ Touched("desktop")
    /\ pressed' = TRUE
    /\ ui' = IF ui.timer["long_press"] = 0 THEN StartTimer(ui, "long_press") ELSE ui
    /\ UNCHANGED <<unlocked, missed>>

\* and up again
Release ==
    /\ pressed /\ pressed' = FALSE
    /\ ui' = StopTimer(ui, "long_press")
    /\ UNCHANGED <<unlocked, missed>>

\* desktop_long_press_timer_cb; LVGL forgets the finger with the object under it
LongPress ==
    /\ ui.timer["long_press"] > 0 /\ HasRoom
    /\ Become(StopTimer(
            release_desktop_resources(Create(ui, "mask", {"black_screen_mask"})),
            "long_press"))
    /\ pressed' = FALSE
    /\ unlocked' = FALSE
    /\ UNCHANGED missed

\* black_screen_mask_event_cb
WakeUp ==
    /\ Touched("mask")
    /\ Become(Screen(DeleteIf(ui, "black_screen_mask")))
    /\ UNCHANGED <<pressed, unlocked, missed>>

DesktopSteps == Press \/ Release \/ LongPress \/ WakeUp

-----------------------------------------------------------------------------
(* The applications. *)

App(kind, u) == Touched(kind) /\ Become(u) /\ UNCHANGED <<pressed, unlocked, missed>>

\* the directory of an application has files, or a message box says that it has none
Scanned(u, show(_)) ==
    /\ Touched("desktop")
    /\ \/ Become(show(u)) /\ UNCHANGED missed
       \/ HasRoom /\ Become(Create(u, "msgbox", {})) /\ missed' = TRUE
    /\ UNCHANGED <<pressed, unlocked>>

\* music_btn_event_cb and start_music_app
StartMusic == Scanned(release_desktop_resources(ui), show_music_list_screen)

ListItem == App("list", show_music_player_screen(ui))

PlayerBack == App("player", show_music_list_screen(ui))

\* a swipe to the right on the list
MusicExit == App("list", desktop(cleanup_music_player(ui)))

\* gallery_btn_event_cb and start_gallery_app
StartGallery ==
    Scanned(init_gallery(release_desktop_resources(ui)), show_gallery_thumbnail_screen)

Thumbnail == App("thumbs", show_image_viewer_screen(ui))

ViewerClick == App("viewer", show_gallery_thumbnail_screen(ui))

GalleryExit == App("thumbs", desktop(release_gallery_resources(ui)))

\* hide_info_timer_cb
HideInfo ==
    /\ ui.timer["hide"] > 0
    /\ Become(StopTimer(ui, "hide"))
    /\ UNCHANGED <<pressed, unlocked, missed>>

\* calendar_btn_event_cb and start_time_settings_app
StartTime == App("desktop", Create(release_desktop_resources(ui), "time", {}))

TimeExit_NoDesktop == App("time", Delete(ui, "time"))

\* time_settings_confirm_cb with valid values, or the swipe to the right
TimeExit == App("time", desktop(Delete(ui, "time")))

TimeInvalid == HasRoom /\ App("time", Create(ui, "msgbox", {}))

\* the close button of a message box, if no window covers it
CloseMsgbox ==
    /\ ~ pressed
    /\ ui.windows # <<>> /\ Last(ui.windows) = "msgbox"
    /\ Become(Delete(ui, "msgbox"))
    /\ UNCHANGED <<pressed, unlocked, missed>>

AppSteps ==
    \/ StartMusic \/ ListItem \/ PlayerBack \/ MusicExit
    \/ StartGallery \/ Thumbnail \/ ViewerClick \/ GalleryExit \/ HideInfo
    \/ StartTime \/ TimeExit \/ TimeInvalid \/ CloseMsgbox

Next == LockSteps \/ DesktopSteps \/ AppSteps

Spec == Init /\ [][Next]_vars

-----------------------------------------------------------------------------
(* Safety. *)

\* No static pointer that a handler tests against NULL before it uses it outlives
\* its object, whatever application cleaned the screen meanwhile.  (The label of
\* data.c and the user data of hide_timer are used by timers only, the cover of the
\* wallpaper is the subject of CoverIsThere.)
NoPointerDangles ==
    \A p \in Pointers \ {"status_bar_label", "hide_timer_data", "cover"} :
        ui.ptr[p] # "dangling"

\* A timer that is alive is the only one of its kind, and what its callback uses
\* without a test is on the screen: no timer of an application or of the desktop
\* fires after the user has left it.
TimersFindWidgets ==
    /\ \A t \in Timers : ui.timer[t] <= 1
    /\ ui.timer["status"] = 1 => ui.ptr["status_bar_label"] = "valid"
    /\ ui.timer["hide"] = 1 => ui.ptr["hide_timer_data"] = "valid"
    /\ ui.timer["long_press"] = 1 => pressed /\ ui.ptr["desktop_win"] = "valid"
    /\ ui.timer["progress"] = 1 => Top = "player"

\* However the user moves between applications, no window but lock windows, masks
\* and message boxes is ever on the screen twice.
WindowsAreUnique ==
    \A kind \in Kinds \ {"lock", "mask", "msgbox"} :
        Cardinality({i \in DOMAIN ui.windows : ui.windows[i] = kind}) <= 1

\* From boot or a long press until the password is given, a touch reaches only the
\* lock screen, its two password windows or the mask: closing one of them never
\* uncovers the desktop or an application below.
LockedIsCovered == ~ unlocked => Top \in {"lock", "unlock", "setpw", "mask"}

\* As long as there are songs and pictures in their directories the user is never left
\* with an empty screen that nothing can be done with.
SomewhereToGo == ~ missed => Top # "none"

-----------------------------------------------------------------------------
(* Implementation of the abstract specification. *)

\* the windows a touch can go to, and none
Places == (Kinds \ {"msgbox"}) \cup {"none"}

Map == INSTANCE Navigation WITH Known <- Places, Elsewhere <- "none", shown <- Top

\* Whatever is stacked, deleted, cleaned away or left behind, the touch goes from window to
\* window as the map says: closing the keypad uncovers the lock window and never a mask, and
\* a window that stays below the desktop comes up only if an application finds no file.
FollowsMap == Map!Spec

-----------------------------------------------------------------------------
(* What a comment of the source says and the code does not do. *)

\* screen.c, line 22: resources are released so that no pointer dangles.  The static
\* pointer of the wallpaper handler does, once an application cleaned the screen.
CoverIsThere == Touched("lock") => ui.ptr["cover"] # "dangling"
=============================================================================
