----------------------------- MODULE ClockProofs -----------------------------
(***************************************************************************)
(* Proofs about Clock, for every time the RTC may show and every entry.    *)
(***************************************************************************)
EXTENDS Clock, TLAPS

\* a time and its day of the week: what rtc_set_time is given
CalendarTimes == {t \in Times : IsCalendar(t)}

IndInv ==
    /\ TypeOK
    /\ rtc \in CalendarTimes
    /\ KeyboardFollowsTouch

-----------------------------------------------------------------------------
\* A day of the week is one of the seven.
LEMMA WeekdayRange ==
    ASSUME NEW year \in Nat, NEW mon \in 0 .. 11, NEW mday \in Nat
    PROVE  Weekday(year, mon, mday) \in 0 .. 6
<1>1. DaysBefore[mon + 1] \in Int
  BY DEF DaysBefore
<1>2. (IF mon > 1 /\ IsLeap(year) THEN 1 ELSE 0) \in Int
  OBVIOUS
<1>3. (year - 1) \div 4 \in Int
  OBVIOUS
<1>4. \A n \in Int : n % 7 \in 0 .. 6
  OBVIOUS
<1> QED
  BY <1>1, <1>2, <1>3, <1>4 DEF Weekday

\* mktime makes a day of the calendar of every entry that the range check accepts.
LEMMA MkTimeCalendar ==
    ASSUME NEW e \in Entries, InRange(e)
    PROVE  MkTime(e) \in CalendarTimes
<1> DEFINE year == e.year - 1900
           last == MonthDays(year, e.month - 1)
           mon == IF e.day > last THEN e.month ELSE e.month - 1
           mday == IF e.day > last THEN e.day - last ELSE e.day
<1>1. /\ e.year \in 2020 .. 2030 /\ e.month \in 1 .. 12 /\ e.day \in 1 .. 31
      /\ e.hour \in 0 .. 23 /\ e.minute \in 0 .. 59
  BY DEF InRange
<1>2. /\ last \in 28 .. 31
      /\ e.month = 12 => last = 31
  BY <1>1 DEF MonthDays
<1>3. year \in Nat /\ mon \in 0 .. 11 /\ mday \in 1 .. 31
  BY <1>1, <1>2
<1>4. mday <= MonthDays(year, mon)
  <2>1. CASE e.day > last
    <3>1. mday <= 3
      BY <1>1, <1>2, <2>1
    <3>2. MonthDays(year, mon) >= 28
      BY <1>3 DEF MonthDays
    <3> QED
      BY <1>3, <3>1, <3>2, <1>1, <1>2 DEF MonthDays
  <2>2. CASE ~ (e.day > last)
    BY <1>1, <1>2, <2>2
  <2> QED
    BY <2>1, <2>2
<1>5. MkTime(e) = At(year, mon, mday, e.hour, e.minute, 0, Weekday(year, mon, mday))
  BY DEF MkTime
<1> HIDE DEF year, last, mon, mday
<1>6. Weekday(year, mon, mday) \in 0 .. 6
  BY <1>3, WeekdayRange
<1>7. MkTime(e) \in Times
  BY <1>1, <1>3, <1>5, <1>6 DEF Times, At
<1> QED
  BY <1>4, <1>5, <1>7 DEF CalendarTimes, IsCalendar, At

\* A second without the RTC leads to a time, one second later.
LEMMA NextSecondTime ==
    ASSUME NEW t \in Times
    PROVE  /\ NextSecond(t) \in Times
           /\ Seconds(NextSecond(t)) = Seconds(t) + 1
<1>1. /\ t.year \in Nat /\ t.mon \in 0 .. 11 /\ t.mday \in 1 .. 31 /\ t.hour \in 0 .. 23
      /\ t.min \in 0 .. 59 /\ t.sec \in 0 .. 59 /\ t.wday \in 0 .. 6
  BY DEF Times
<1>2. PICK year \in Nat, mon \in 0 .. 11, mday \in 1 .. 31, hour \in 0 .. 23,
            min \in 0 .. 59, sec \in 0 .. 59 :
         /\ t.year = year /\ t.mon = mon /\ t.mday = mday /\ t.hour = hour
         /\ t.min = min /\ t.sec = sec
  BY <1>1
<1>3. CASE sec < 59
  <2>1. NextSecond(t) = At(year, mon, mday, hour, min, sec + 1, t.wday)
    BY <1>2, <1>3 DEF NextSecond
  <2>2. NextSecond(t) \in Times
    BY <1>1, <1>2, <1>3, <2>1 DEF Times, At
  <2>3. Seconds(NextSecond(t)) = SecondsAt(year, mon, mday, hour, min, sec + 1)
    BY <2>1 DEF Seconds, At
  <2>4. SecondsAt(year, mon, mday, hour, min, sec + 1)
          = SecondsAt(year, mon, mday, hour, min, sec) + 1
    BY DEF SecondsAt
  <2>5. Seconds(t) = SecondsAt(year, mon, mday, hour, min, sec)
    BY <1>2, <1>3 DEF Seconds
  <2> QED
    BY <2>2, <2>3, <2>4, <2>5
<1>4. CASE sec = 59 /\ min < 59
  <2>1. NextSecond(t) = At(year, mon, mday, hour, min + 1, 0, t.wday)
    BY <1>2, <1>4 DEF NextSecond
  <2>2. NextSecond(t) \in Times
    BY <1>1, <1>2, <1>4, <2>1 DEF Times, At
  <2>3. Seconds(NextSecond(t)) = SecondsAt(year, mon, mday, hour, min + 1, 0)
    BY <2>1 DEF Seconds, At
  <2>4. SecondsAt(year, mon, mday, hour, min + 1, 0)
          = SecondsAt(year, mon, mday, hour, min, 59) + 1
    BY DEF SecondsAt
  <2>5. Seconds(t) = SecondsAt(year, mon, mday, hour, min, 59)
    BY <1>2, <1>4 DEF Seconds
  <2> QED
    BY <2>2, <2>3, <2>4, <2>5
<1>5. CASE sec = 59 /\ min = 59 /\ hour < 23
  <2>1. NextSecond(t) = At(year, mon, mday, hour + 1, 0, 0, t.wday)
    BY <1>2, <1>5 DEF NextSecond
  <2>2. NextSecond(t) \in Times
    BY <1>1, <1>2, <1>5, <2>1 DEF Times, At
  <2>3. Seconds(NextSecond(t)) = SecondsAt(year, mon, mday, hour + 1, 0, 0)
    BY <2>1 DEF Seconds, At
  <2>4. SecondsAt(year, mon, mday, hour + 1, 0, 0)
          = SecondsAt(year, mon, mday, hour, 59, 59) + 1
    BY DEF SecondsAt
  <2>5. Seconds(t) = SecondsAt(year, mon, mday, hour, 59, 59)
    BY <1>2, <1>5 DEF Seconds
  <2> QED
    BY <2>2, <2>3, <2>4, <2>5
<1>6. CASE sec = 59 /\ min = 59 /\ hour = 23 /\ mday < 31
  <2>1. NextSecond(t) = At(year, mon, mday + 1, 0, 0, 0, t.wday)
    BY <1>2, <1>6 DEF NextSecond
  <2>2. NextSecond(t) \in Times
    BY <1>1, <1>2, <1>6, <2>1 DEF Times, At
  <2>3. Seconds(NextSecond(t)) = SecondsAt(year, mon, mday + 1, 0, 0, 0)
    BY <2>1 DEF Seconds, At
  <2>4. SecondsAt(year, mon, mday + 1, 0, 0, 0)
          = SecondsAt(year, mon, mday, 23, 59, 59) + 1
    BY DEF SecondsAt
  <2>5. Seconds(t) = SecondsAt(year, mon, mday, 23, 59, 59)
    BY <1>2, <1>6 DEF Seconds
  <2> QED
    BY <2>2, <2>3, <2>4, <2>5
<1>7. CASE sec = 59 /\ min = 59 /\ hour = 23 /\ mday = 31 /\ mon < 11
  <2>1. NextSecond(t) = At(year, mon + 1, 1, 0, 0, 0, t.wday)
    BY <1>2, <1>7 DEF NextSecond
  <2>2. NextSecond(t) \in Times
    BY <1>1, <1>2, <1>7, <2>1 DEF Times, At
  <2>3. Seconds(NextSecond(t)) = SecondsAt(year, mon + 1, 1, 0, 0, 0)
    BY <2>1 DEF Seconds, At
  <2>4. SecondsAt(year, mon + 1, 1, 0, 0, 0)
          = SecondsAt(year, mon, 31, 23, 59, 59) + 1
    BY DEF SecondsAt
  <2>5. Seconds(t) = SecondsAt(year, mon, 31, 23, 59, 59)
    BY <1>2, <1>7 DEF Seconds
  <2> QED
    BY <2>2, <2>3, <2>4, <2>5
<1>8. CASE sec = 59 /\ min = 59 /\ hour = 23 /\ mday = 31 /\ mon = 11
  <2>1. NextSecond(t) = At(year + 1, 0, 1, 0, 0, 0, t.wday)
    BY <1>2, <1>8 DEF NextSecond
  <2>2. NextSecond(t) \in Times
    BY <1>1, <1>2, <1>8, <2>1 DEF Times, At
  <2>3. Seconds(NextSecond(t)) = SecondsAt(year + 1, 0, 1, 0, 0, 0)
    BY <2>1 DEF Seconds, At
  <2>4. SecondsAt(year + 1, 0, 1, 0, 0, 0)
          = SecondsAt(year, 11, 31, 23, 59, 59) + 1
    BY DEF SecondsAt
  <2>5. Seconds(t) = SecondsAt(year, 11, 31, 23, 59, 59)
    BY <1>2, <1>8 DEF Seconds
  <2> QED
    BY <2>2, <2>3, <2>4, <2>5
<1> QED
  BY <1>1, <1>3, <1>4, <1>5, <1>6, <1>7, <1>8

\* What desktop shows is a time, if the RTC shows one.
LEMMA DesktopTime ==
    ASSUME NEW t \in Times, NEW hardware \in Times, NEW first \in BOOLEAN,
           NEW second \in BOOLEAN
    PROVE  Tick(InitTime(t, hardware, first), hardware, second) \in Times
<1>1. InitTime(t, hardware, first) \in Times
  BY DEF InitTime, Times, At
<1> QED
  BY <1>1, NextSecondTime DEF Tick

\* A keyboard that is down, and areas not touched.
LEMMA NoKeyboardInv ==
    NoKeyboard => /\ kb_shown' \in BOOLEAN /\ kb_ta' \in Areas \cup {None}
                  /\ last_pressed' \in Areas \cup {None}
                  /\ KeyboardFollowsTouch'
BY DEF NoKeyboard, KeyboardFollowsTouch, Areas, None

\* Init establishes the inductive invariant.
LEMMA InitInv == Init => IndInv
<1> SUFFICES ASSUME Init PROVE IndInv
  OBVIOUS
<1>1. rtc \in CalendarTimes
  BY RtcAssumption DEF Init, CalendarTimes
<1>2. current_display_time \in Times
  BY DEF Init, Times, At
<1>3. KeyboardFollowsTouch
  BY DEF Init, KeyboardFollowsTouch, Areas, None
<1>4. TypeOK
  <2>1. rtc \in Times /\ drift \in 0 .. MaxDrift /\ asked \in SUBSET Times
    BY <1>1, DriftAssumption DEF Init, CalendarTimes
  <2>2. /\ screen \in {"desktop", "settings", "elsewhere"}
        /\ kb_shown \in BOOLEAN /\ kb_ta \in Areas \cup {None}
        /\ last_pressed \in Areas \cup {None}
    BY DEF Init
  <2> QED
    BY <1>2, <2>1, <2>2 DEF TypeOK
<1> QED
  BY <1>1, <1>3, <1>4 DEF IndInv

\* Every handler, and every move of the RTC, preserves it.
LEMMA NextInv == IndInv /\ [Next]_vars => IndInv'
<1> SUFFICES ASSUME IndInv, [Next]_vars PROVE IndInv'
  OBVIOUS
<1> USE DEF IndInv, TypeOK
<1>1. \A t \in Times : Desktop(t, rtc') /\ rtc' \in Times =>
          /\ current_display_time' \in Times
          /\ screen' = "desktop" /\ drift' \in 0 .. MaxDrift
          /\ NoKeyboard
  BY DesktopTime, DriftAssumption DEF Desktop
<1>2. CASE EnterDesktop
  BY <1>1, <1>2, NoKeyboardInv DEF EnterDesktop
<1>3. CASE LeaveDesktop
  BY <1>3, NoKeyboardInv DEF LeaveDesktop
<1>4. CASE TimerTick
  <2>1. KeyboardFollowsTouch'
    BY <1>4 DEF TimerTick, keyboard, KeyboardFollowsTouch
  <2> QED
    BY <1>4, <2>1, NextSecondTime, DriftAssumption DEF TimerTick, Tick, keyboard
<1>5. CASE SwipeOut
  BY <1>1, <1>5, NoKeyboardInv DEF SwipeOut
<1>6. ASSUME NEW ta \in Areas, TouchArea(ta) PROVE IndInv'
  BY <1>6 DEF TouchArea, KeyboardFollowsTouch
<1>7. CASE WindowClick
  BY <1>7, NoKeyboardInv DEF WindowClick
<1>8. CASE TouchElsewhere
  <2>1. KeyboardFollowsTouch'
    BY <1>8 DEF TouchElsewhere, KeyboardFollowsTouch, Areas, None
  <2> QED
    BY <1>8, <2>1 DEF TouchElsewhere
<1>9. ASSUME NEW e \in Entries, Confirm(e) PROVE IndInv'
  <2>1. MkTime(e) \in CalendarTimes
    BY <1>9, MkTimeCalendar DEF Confirm
  <2> QED
    BY <1>1, <1>9, <2>1, NoKeyboardInv DEF Confirm, CalendarTimes
<1>10. CASE RtcMoves
  <2>1. KeyboardFollowsTouch'
    BY <1>10 DEF RtcMoves, keyboard, KeyboardFollowsTouch
  <2> QED
    BY <1>10, <2>1, RtcAssumption DEF RtcMoves, CalendarTimes, keyboard
<1>11. CASE UNCHANGED vars
  BY <1>11 DEF vars, keyboard, KeyboardFollowsTouch
<1> QED
  BY <1>2, <1>3, <1>4, <1>5, <1>6, <1>7, <1>8, <1>9, <1>10, <1>11 DEF Next

-----------------------------------------------------------------------------
\* The invariant on which the theorems below rest: types, a calendar day in
\* the RTC, and a keyboard that goes with the text area touched.
THEOREM Invariance == Spec => []IndInv
BY InitInv, NextInv, PTL DEF Spec

\* Every field that status_bar_timer_cb prints stays in its range; the names of months
\* and days of the week are indexed by two of them.
THEOREM TypeCorrect == Spec => []TypeOK
<1>1. IndInv => TypeOK
  BY DEF IndInv
<1> QED
  BY Invariance, <1>1, PTL

\* rtc_set_time is never given a day that does not exist, whatever the user enters.
THEOREM RtcHoldsCalendar == Spec => []RtcIsCalendar
<1>1. IndInv => RtcIsCalendar
  BY DEF IndInv, CalendarTimes, RtcIsCalendar
<1> QED
  BY Invariance, <1>1, PTL

\* The keys go to the text area touched last, after touches in any order.
THEOREM KeysGoToTheAreaTouched == Spec => []KeyboardFollowsTouch
<1>1. IndInv => KeyboardFollowsTouch
  BY DEF IndInv
<1> QED
  BY Invariance, <1>1, PTL

\* The carry of status_bar_timer_cb advances the time by exactly one second, from any time.
THEOREM CountsSeconds == Spec => SecondBySecond
<1>1. IndInv /\ [Next]_vars =>
          [drift' = drift + 1 =>
              Seconds(current_display_time') = Seconds(current_display_time) + 1]_vars
  <2> SUFFICES ASSUME IndInv, [Next]_vars, drift' = drift + 1
               PROVE  Seconds(current_display_time') = Seconds(current_display_time) + 1
    OBVIOUS
  <2>1. drift \in Nat /\ current_display_time \in Times
    BY DriftAssumption DEF IndInv, TypeOK
  <2>2. current_display_time' = NextSecond(current_display_time)
    BY <2>1 DEF Next, EnterDesktop, LeaveDesktop, TimerTick, SwipeOut, Confirm, RtcMoves,
                Desktop, Tick, TouchArea, WindowClick, TouchElsewhere, vars
  <2> QED
    BY <2>1, <2>2, NextSecondTime
<1> QED
  BY Invariance, <1>1, PTL DEF Spec, SecondBySecond

-----------------------------------------------------------------------------
\* The desktop and the time settings are entered and left only the way the map of the
\* program says.
THEOREM ClockFollowsMap == Spec => FollowsMap
<1> DEFINE Seen(s) == IF s = "settings" THEN "time" ELSE s
<1>1. Init => Map!Init
  BY DEF Init, Map!Init, Map!View
<1>2. TypeOK /\ [Next]_vars => [Map!Next]_(Seen(screen))
  <2> SUFFICES ASSUME TypeOK, [Next]_vars, screen' # screen
               PROVE  Map!Next
    OBVIOUS
  <2>1. \/ screen = "elsewhere" /\ screen' = "desktop"
        \/ screen = "desktop" /\ screen' = "elsewhere"
        \/ screen = "desktop" /\ screen' = "settings"
        \/ screen = "settings" /\ screen' = "desktop"
    BY DEF Next, EnterDesktop, LeaveDesktop, TimerTick, SwipeOut, Desktop, TouchArea, WindowClick,
           TouchElsewhere, Confirm, RtcMoves, vars
  <2>2. /\ <<"unlock", "desktop">> \in Map!Ways /\ <<"desktop", "mask">> \in Map!Ways
        /\ <<"desktop", "time">> \in Map!Ways /\ <<"time", "desktop">> \in Map!Ways
    BY DEF Map!Ways
  <2>3. /\ Map!View("unlock") = "elsewhere" /\ Map!View("mask") = "elsewhere"
        /\ Map!View("desktop") = "desktop" /\ Map!View("time") = "time"
    BY DEF Map!View
  <2> QED BY <2>1, <2>2, <2>3 DEF Map!Next
<1> QED BY <1>1, <1>2, TypeCorrect, PTL DEF Spec, FollowsMap, Map!Spec
=============================================================================
