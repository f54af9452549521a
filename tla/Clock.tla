-------------------------------- MODULE Clock --------------------------------
(***************************************************************************)
(* The time in the status bar of the desktop, and its setting, from        *)
(* src/src/data.c.  The time is read from the real-time clock (RTC) each   *)
(* second; while that fails, the program counts the seconds itself.        *)
(*                                                                         *)
(* The settings window has five text areas and one keyboard for them, put  *)
(* up over the Confirm button by a touch of an area and down by a click on *)
(* the window.  What the keys write is left out: on Confirm there may be   *)
(* any entry.                                                              *)
(*                                                                         *)
(* Each open or ioctl of the RTC may fail, independently of the others.    *)
(* Between two handlers anything may happen to the RTC: it runs on, and    *)
(* other programs set it.                                                  *)
(***************************************************************************)
EXTENDS Integers

CONSTANTS
    RtcTimes,    \* times the RTC may come to show
    Entries,     \* what may be in the five text areas of the settings window
    MaxDrift     \* bound on the seconds counted without the RTC

\* struct tm, as far as it is used: year from 1900, mon from 0, wday from Sunday = 0
Times == [year : Nat, mon : 0 .. 11, mday : 1 .. 31,
          hour : 0 .. 23, min : 0 .. 59, sec : 0 .. 59, wday : 0 .. 6]

At(year, mon, mday, hour, min, sec, wday) ==
    [year |-> year, mon |-> mon, mday |-> mday, hour |-> hour, min |-> min, sec |-> sec,
     wday |-> wday]

IsLeap(year) == year % 4 = 0   \* from 1901 to 2099

MonthDays(year, mon) ==
    CASE mon = 1 -> IF IsLeap(year) THEN 29 ELSE 28
      [] mon \in {3, 5, 8, 10} -> 30
      [] OTHER -> 31

DaysBefore == <<0, 31, 59, 90, 120, 151, 181, 212, 243, 273, 304, 334>>

\* 1900-01-01 was a Monday.
Weekday(year, mon, mday) ==
    (365 * year + (year - 1) \div 4 + DaysBefore[mon + 1]
        + (IF mon > 1 /\ IsLeap(year) THEN 1 ELSE 0) + mday) % 7

\* a day of the calendar, with its day of the week
IsCalendar(t) ==
    /\ t.mday <= MonthDays(t.year, t.mon)
    /\ t.wday = Weekday(t.year, t.mon, t.mday)

ASSUME RtcAssumption == \A t \in RtcTimes : t \in Times /\ IsCalendar(t)
ASSUME EntriesAssumption ==
    Entries \subseteq [year : 0 .. 9999, month : 0 .. 99, day : 0 .. 99,
                       hour : 0 .. 99, minute : 0 .. 99]
ASSUME DriftAssumption == MaxDrift \in Nat

VARIABLES
    rtc,                    \* what the RTC shows
    current_display_time,   \* what the program takes for the time
    screen,                 \* "desktop", "settings", or "elsewhere"
    drift,                  \* seconds counted since the desktop or the RTC was last seen
    kb_shown, kb_ta,        \* the keyboard is not hidden; the text area it writes to
    last_pressed,           \* LVGL: the text area pressed last, unless it was another object
    asked                   \* history, not in the code: the time just confirmed, if any

keyboard == <<kb_shown, kb_ta, last_pressed>>
vars == <<rtc, current_display_time, screen, drift, keyboard, asked>>

Areas == {"year", "month", "day", "hour", "minute"}
None == "none"

TypeOK ==
    /\ rtc \in Times
    /\ current_display_time \in Times
    /\ screen \in {"desktop", "settings", "elsewhere"}
    /\ drift \in 0 .. MaxDrift
    /\ kb_shown \in BOOLEAN /\ kb_ta \in Areas \cup {None}
    /\ last_pressed \in Areas \cup {None}
    /\ asked \in SUBSET Times

-----------------------------------------------------------------------------
(* The clock. *)

(* Definitions named X_... are mutants: X with a plausible slip, used only to *)
(* see that a property notices it.                                           *)
NextSecond_UpToSixty(t) ==
    IF t.sec + 1 < 61 THEN At(t.year, t.mon, t.mday, t.hour, t.min, t.sec + 1, t.wday)
    ELSE IF t.min + 1 < 61 THEN At(t.year, t.mon, t.mday, t.hour, t.min + 1, 0, t.wday)
    ELSE IF t.hour + 1 < 24 THEN At(t.year, t.mon, t.mday, t.hour + 1, 0, 0, t.wday)
    ELSE IF t.mday + 1 <= 31 THEN At(t.year, t.mon, t.mday + 1, 0, 0, 0, t.wday)
    ELSE IF t.mon + 1 < 12 THEN At(t.year, t.mon + 1, 1, 0, 0, 0, t.wday)
    ELSE At(t.year + 1, 0, 1, 0, 0, 0, t.wday)

\* status_bar_timer_cb without the RTC: a field that reaches its limit starts anew and
\* the next one is counted; every month has 31 days, and the day of the week stays
NextSecond(t) ==
    IF t.sec + 1 < 60 THEN At(t.year, t.mon, t.mday, t.hour, t.min, t.sec + 1, t.wday)
    ELSE IF t.min + 1 < 60 THEN At(t.year, t.mon, t.mday, t.hour, t.min + 1, 0, t.wday)
    ELSE IF t.hour + 1 < 24 THEN At(t.year, t.mon, t.mday, t.hour + 1, 0, 0, t.wday)
    ELSE IF t.mday + 1 <= 31 THEN At(t.year, t.mon, t.mday + 1, 0, 0, 0, t.wday)
    ELSE IF t.mon + 1 < 12 THEN At(t.year, t.mon + 1, 1, 0, 0, 0, t.wday)
    ELSE At(t.year + 1, 0, 1, 0, 0, 0, t.wday)

\* init_time_display, where hardware is what the RTC holds: t.wday stays if the RTC cannot
\* be read
InitTime(t, hardware, read) ==
    IF read THEN hardware
    ELSE At(125, 6, 18, 12, 30, 45, t.wday)

\* status_bar_timer_cb
Tick(t, hardware, read) == IF read THEN hardware ELSE NextSecond(t)

\* no settings window, or a new one
NoKeyboard == kb_shown' = FALSE /\ kb_ta' = None /\ last_pressed' = None

\* desktop: init_time_display, and status_bar_timer_cb once before its timer starts
Desktop(t, hardware) ==
    /\ screen' = "desktop" /\ drift' = 0
    /\ NoKeyboard
    /\ \E first, second \in BOOLEAN :
          current_display_time' = Tick(InitTime(t, hardware, first), hardware, second)

Init ==
    /\ rtc \in RtcTimes
    /\ current_display_time = At(125, 6, 18, 12, 30, 45, 0)
    /\ screen = "elsewhere" /\ drift = 0 /\ asked = {}
    /\ kb_shown = FALSE /\ kb_ta = None /\ last_pressed = None

-----------------------------------------------------------------------------
(* Handlers. *)

\* desktop, from the lock screen or from an application
EnterDesktop ==
    /\ screen = "elsewhere"
    /\ Desktop(current_display_time, rtc)
    /\ asked' = {} /\ UNCHANGED rtc

\* release_desktop_resources: the timer of the status bar ends; start_time_settings_app
\* may follow
LeaveDesktop ==
    /\ screen = "desktop"
    /\ screen' \in {"elsewhere", "settings"}
    /\ NoKeyboard
    /\ asked' = {} /\ UNCHANGED <<rtc, current_display_time, drift>>

\* the timer, each second
TimerTick ==
    /\ screen = "desktop"
    /\ \/ /\ current_display_time' = Tick(current_display_time, rtc, TRUE)
          /\ drift' = 0
       \/ /\ drift < MaxDrift
          /\ current_display_time' = Tick(current_display_time, rtc, FALSE)
          /\ drift' = drift + 1
    /\ asked' = {} /\ UNCHANGED <<rtc, screen, keyboard>>

TouchArea_OnceShown(ta) ==
    /\ screen = "settings" /\ last_pressed # ta
    /\ last_pressed' = ta
    /\ kb_shown' = TRUE /\ kb_ta' = IF kb_shown THEN kb_ta ELSE ta
    /\ asked' = {} /\ UNCHANGED <<rtc, current_display_time, screen, drift>>

\* textarea_focus_cb: LVGL tells FOCUSED only if the area was not pressed last
TouchArea(ta) ==
    /\ screen = "settings" /\ last_pressed # ta
    /\ last_pressed' = ta
    /\ kb_shown' = TRUE /\ kb_ta' = ta
    /\ asked' = {} /\ UNCHANGED <<rtc, current_display_time, screen, drift>>

\* window_click_cb: the window is pressed and clicked
WindowClick ==
    /\ screen = "settings" /\ kb_shown
    /\ NoKeyboard
    /\ asked' = {} /\ UNCHANGED <<rtc, current_display_time, screen, drift>>

\* the window, dragged and not clicked, Confirm with an entry that is refused, or its
\* message box; the keyboard itself is not focusable
TouchElsewhere ==
    /\ screen = "settings"
    /\ last_pressed' = None
    /\ asked' = {} /\ UNCHANGED <<rtc, current_display_time, screen, drift, kb_shown, kb_ta>>

\* time_settings_gesture_cb: a swipe to the right leaves without setting
SwipeOut ==
    /\ screen = "settings"
    /\ Desktop(current_display_time, rtc)
    /\ asked' = {} /\ UNCHANGED rtc

\* the range check of time_settings_confirm_cb; what it refuses changes nothing here
InRange(e) ==
    /\ e.year \in 2020 .. 2030 /\ e.month \in 1 .. 12 /\ e.day \in 1 .. 31
    /\ e.hour \in 0 .. 23 /\ e.minute \in 0 .. 59

\* mktime with localtime: days after the end of a month fall into the next one
MkTime(e) ==
    LET year == e.year - 1900
        last == MonthDays(year, e.month - 1)
        mon == IF e.day > last THEN e.month ELSE e.month - 1
        mday == IF e.day > last THEN e.day - last ELSE e.day
    IN  At(year, mon, mday, e.hour, e.minute, 0, Weekday(year, mon, mday))

Confirm_NoMkTime(e) ==
    /\ screen = "settings" /\ ~ kb_shown /\ InRange(e)
    /\ LET t == At(e.year - 1900, e.month - 1, e.day, e.hour, e.minute, 0, 0)
       IN  /\ rtc' \in {rtc, t} /\ asked' = {t}
           /\ Desktop(t, rtc')

\* time_settings_confirm_cb: rtc_set_time may fail; current_display_time is set either
\* way, and desktop runs.  The keyboard, if shown, covers the button.
Confirm(e) ==
    /\ screen = "settings" /\ ~ kb_shown /\ InRange(e)
    /\ LET t == MkTime(e)
       IN  /\ rtc' \in {rtc, t} /\ asked' = {t}
           /\ Desktop(t, rtc')

\* the RTC runs on, or another program sets it
RtcMoves ==
    /\ rtc' \in RtcTimes /\ asked' = {}
    /\ UNCHANGED <<current_display_time, screen, drift, keyboard>>

Next ==
    \/ EnterDesktop \/ LeaveDesktop \/ TimerTick \/ SwipeOut
    \/ (\E ta \in Areas : TouchArea(ta)) \/ WindowClick \/ TouchElsewhere
    \/ (\E e \in Entries : Confirm(e))
    \/ RtcMoves

Spec == Init /\ [][Next]_vars

-----------------------------------------------------------------------------
\* Whatever the user enters, a 31st of February too, the RTC holds a day of the calendar
\* and its day of the week.
RtcIsCalendar == IsCalendar(rtc)

\* seconds from 2020 on, with 31 days in every month
SecondsAt(year, mon, mday, hour, min, sec) ==
    (((((year - 120) * 12 + mon) * 31 + mday - 1) * 24 + hour) * 60 + min) * 60 + sec

Seconds(t) == SecondsAt(t.year, t.mon, t.mday, t.hour, t.min, t.sec)

\* Without the RTC the clock advances by one second each time, over the end of a
\* minute, a day or a year: the carry never repeats, skips or turns back a second.
SecondBySecond ==
    [][drift' = drift + 1 => Seconds(current_display_time') = Seconds(current_display_time) + 1]_vars

\* Whichever text area is touched gets the keys: the keyboard is up and writes to it, after
\* any taps on areas, window and buttons, though LVGL tells an area FOCUSED only if another
\* object was pressed before; and a keyboard that is up always writes somewhere.
KeyboardFollowsTouch ==
    /\ last_pressed \in Areas => kb_shown /\ kb_ta = last_pressed
    /\ kb_shown => kb_ta \in Areas

Map == INSTANCE Navigation
       WITH Known <- {"desktop", "time"}, Elsewhere <- "elsewhere",
            shown <- IF screen = "settings" THEN "time" ELSE screen

\* The desktop and the time settings, as this module comes and goes, are a view of the map
\* that Shell follows too.
FollowsMap == Map!Spec

-----------------------------------------------------------------------------
(* What a comment of the source says and the code does not do. *)

\* Line 452: the time confirmed is shown, even if the RTC could not be set.
\* desktop overwrites it: with what the RTC still shows, or with the default time.
ConfirmedIsShown ==
    \A t \in asked :
        rtc # t => Seconds(current_display_time) - Seconds(t) \in {0, 1}
=============================================================================
