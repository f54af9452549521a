------------------------------- MODULE Gallery -------------------------------
(***************************************************************************)
(* The picture gallery, src/src/dcim.c: which picture is shown, what the   *)
(* information bar under it says and when it hides, and how a touch is     *)
(* taken for a tap or for a swipe.                                         *)
(*                                                                         *)
(* LVGL reports a touch as PRESSED, RELEASED and, if the object under the  *)
(* finger still exists and was not scrolled, CLICKED.  The last two follow *)
(* each other without a timer in between.                                  *)
(***************************************************************************)
EXTENDS Integers

CONSTANT MaxImageCount   \* MAX_IMAGE_COUNT, the capacity of image_list

ASSUME CountAssumption == MaxImageCount \in Nat \ {0}

VARIABLES
    screen,          \* "desktop", or a window: "thumbs", "viewer"
    image_count,
    current_index,
    shown,           \* picture in current_img
    caption,         \* picture named by info_label
    bar,             \* info_container is visible
    hide_timer,      \* the timer of hide_info_timer_cb exists
    touch_started,
    swipe_detected,
    finger,          \* LVGL: "up", "down", or "released": CLICKED may follow
    gesture          \* history, not in the code: what the last touch looked like

viewVars == <<screen, image_count, current_index, shown, caption>>
barVars == <<bar, hide_timer>>
touchVars == <<touch_started, swipe_detected, finger, gesture>>
vars == <<viewVars, barVars, touchVars>>

Images == 0 .. (image_count - 1)

\* how far the finger moved: not at all, not far or up and down, or by more than 50
\* pixels to a side
Gestures == {"tap", "drag", "left", "right"}

TypeOK ==
    /\ screen \in {"desktop", "thumbs", "viewer"}
    /\ image_count \in 0 .. MaxImageCount
    /\ current_index \in 0 .. (MaxImageCount - 1)
    /\ shown \in 0 .. (MaxImageCount - 1)
    /\ caption \in 0 .. (MaxImageCount - 1)
    /\ bar \in BOOLEAN /\ hide_timer \in BOOLEAN
    /\ touch_started \in BOOLEAN /\ swipe_detected \in BOOLEAN
    /\ finger \in {"up", "down", "released"}
    /\ gesture \in Gestures

Init ==
    /\ screen = "desktop" /\ image_count = 0
    /\ current_index = 0 /\ shown = 0 /\ caption = 0
    /\ bar = FALSE /\ hide_timer = FALSE
    /\ touch_started = FALSE /\ swipe_detected = FALSE
    /\ finger = "up" /\ gesture = "tap"

-----------------------------------------------------------------------------
(* The thumbnails. *)

\* start_gallery_app: n pictures are found; without one only a message box
StartGallery(n) ==
    /\ finger = "up" /\ screen = "desktop"
    /\ image_count' = n /\ current_index' = 0
    /\ screen' = IF n = 0 THEN "desktop" ELSE "thumbs"
    /\ hide_timer' = FALSE
    /\ touch_started' = FALSE /\ swipe_detected' = FALSE
    /\ UNCHANGED <<shown, caption, bar, finger, gesture>>

\* show_image_viewer_screen(index)
View(index) ==
    /\ current_index' = index /\ shown' = index /\ caption' = index
    /\ screen' = "viewer"
    /\ bar' = TRUE /\ hide_timer' = TRUE
    /\ UNCHANGED image_count

\* thumbnail_click_cb, a whole touch
Thumbnail(index) ==
    /\ finger = "up" /\ screen = "thumbs"
    /\ View(index)
    /\ UNCHANGED touchVars

\* gallery_touch_cb, PRESSED beside the thumbnails
PressThumbs ==
    /\ finger = "up" /\ screen = "thumbs"
    /\ finger' = "down" /\ touch_started' = TRUE
    /\ UNCHANGED <<viewVars, barVars, swipe_detected, gesture>>

\* gallery_touch_cb, RELEASED: release_gallery_resources and desktop after a swipe to
\* the right
ReleaseThumbs(g) ==
    /\ finger = "down" /\ screen = "thumbs"
    /\ finger' = "up" /\ gesture' = g
    /\ touch_started' = FALSE
    /\ \/ /\ touch_started /\ g = "right"
          /\ screen' = "desktop"
          /\ hide_timer' = FALSE /\ swipe_detected' = FALSE
       \/ /\ ~ (touch_started /\ g = "right")
          /\ UNCHANGED <<screen, hide_timer, swipe_detected>>
    /\ UNCHANGED <<image_count, current_index, shown, caption, bar>>

-----------------------------------------------------------------------------
(* The viewer: image_touch_cb. *)

(* Definitions named X_... are mutants: X with a plausible slip, used only to *)
(* see that a property notices it.                                           *)
Press_KeepsSwipe ==
    /\ finger = "up" /\ screen = "viewer"
    /\ finger' = "down" /\ touch_started' = TRUE
    /\ UNCHANGED <<viewVars, barVars, swipe_detected, gesture>>

\* PRESSED
Press ==
    /\ finger = "up" /\ screen = "viewer"
    /\ finger' = "down" /\ touch_started' = TRUE /\ swipe_detected' = FALSE
    /\ UNCHANGED <<viewVars, barVars, gesture>>

\* load_next_image, load_prev_image
NextImage(index) == (index + 1) % image_count

PrevImage(index) == (index - 1 + image_count) % image_count

Turned_OldCaption(index) ==
    /\ current_index' = index /\ shown' = index
    /\ bar' = TRUE
    /\ UNCHANGED <<screen, image_count, caption, hide_timer>>

\* update_viewer_image; the objects it tests for exist in the viewer
Turned(index) ==
    /\ current_index' = index /\ shown' = index /\ caption' = index
    /\ bar' = TRUE
    /\ UNCHANGED <<screen, image_count, hide_timer>>

\* RELEASED
Release(g) ==
    /\ finger = "down" /\ screen = "viewer"
    /\ finger' = "released" /\ gesture' = g
    /\ touch_started' = FALSE
    /\ \/ /\ touch_started /\ g = "right"
          /\ swipe_detected' = TRUE /\ Turned(NextImage(current_index))
       \/ /\ touch_started /\ g = "left"
          /\ swipe_detected' = TRUE /\ Turned(PrevImage(current_index))
       \/ /\ touch_started => g \in {"tap", "drag"}
          /\ UNCHANGED <<viewVars, barVars, swipe_detected>>

\* CLICKED: show_gallery_thumbnail_screen unless the touch was a swipe
Click ==
    /\ finger = "released" /\ screen = "viewer"
    /\ finger' = "up" /\ swipe_detected' = FALSE
    /\ \/ /\ ~ swipe_detected
          /\ screen' = "thumbs" /\ hide_timer' = FALSE
       \/ /\ swipe_detected
          /\ UNCHANGED <<screen, hide_timer>>
    /\ UNCHANGED <<image_count, current_index, shown, caption, bar, touch_started, gesture>>

\* LVGL took the movement for scrolling: no CLICKED
NoClick ==
    /\ finger = "released" /\ gesture # "tap"
    /\ finger' = "up"
    /\ UNCHANGED <<viewVars, barVars, touch_started, swipe_detected, gesture>>

HideInfo_KeepsReference ==
    /\ hide_timer /\ finger # "released"
    /\ bar' = FALSE
    /\ UNCHANGED <<viewVars, hide_timer, touchVars>>

\* hide_info_timer_cb, three seconds after the viewer was opened
HideInfo ==
    /\ hide_timer /\ finger # "released"
    /\ bar' = FALSE /\ hide_timer' = FALSE
    /\ UNCHANGED <<viewVars, touchVars>>

Next ==
    \/ \E n \in 0 .. MaxImageCount : StartGallery(n)
    \/ \E index \in Images : Thumbnail(index)
    \/ PressThumbs \/ (\E g \in Gestures : ReleaseThumbs(g))
    \/ Press \/ (\E g \in Gestures : Release(g)) \/ Click \/ NoClick
    \/ HideInfo

Spec == Init /\ [][Next]_vars

-----------------------------------------------------------------------------
\* The picture, the caption and the index stay together over any number of turns in
\* both directions, and name a picture of the list.
ViewerAgrees ==
    screen = "viewer" =>
        /\ current_index \in Images
        /\ shown = current_index /\ caption = current_index

\* A tap on the viewer always closes it, a swipe never does: neither is RELEASED of a
\* swipe followed by a click, nor does an earlier swipe swallow a tap.
TapCloses ==
    [][finger = "released" /\ finger' = "up" =>
            /\ gesture = "tap" => screen' = "thumbs"
            /\ gesture \in {"left", "right"} => screen' = "viewer"]_vars

\* Turning back undoes turning, so every picture can be reached in both directions.
TurnsAreInverse ==
    \A index \in Images :
        PrevImage(NextImage(index)) = index /\ NextImage(PrevImage(index)) = index

\* The timer that hides the bar exists in the viewer only, and as long as the bar it is
\* meant for is visible.
TimerHasBar == hide_timer => screen = "viewer" /\ bar

-----------------------------------------------------------------------------
(* Implementation of the abstract specifications. *)

Map == INSTANCE Navigation
       WITH Known <- {"thumbs", "viewer"}, Elsewhere <- "desktop", shown <- screen

\* The two windows of the gallery, as this module opens and closes them, are a view of the
\* map that Shell follows too.
FollowsMap == Map!Spec

\* What the handlers are told of touches, as the abstract specification that LvIndev
\* implements sees it.
Touches == INSTANCE TouchProtocol WITH
    Objects <- {"thumbs", "viewer"}, None <- "none",
    pressed <- IF finger = "down" THEN {screen} ELSE {},
    released <- IF finger = "released" THEN "viewer" ELSE "none"

\* The handlers never count on more than the input device keeps: every sequence of touches
\* modelled here is one that TouchProtocol allows, with both windows as objects.
ObeysProtocol == Touches!Spec
=============================================================================
