------------------------------- MODULE MCClock -------------------------------
(***************************************************************************)
(* Clock for TLC: the RTC near the end of a minute, of a leap February and *)
(* of a year; entries on and beyond the borders of what is accepted.       *)
(***************************************************************************)
EXTENDS Clock

Rtc(year, mon, mday, hour, min, sec) ==
    At(year, mon, mday, hour, min, sec, Weekday(year, mon, mday))

MCRtcTimes == {Rtc(125, 6, 18, 9, 7, 58), Rtc(128, 1, 29, 23, 59, 58),
               Rtc(125, 11, 31, 23, 59, 58)}

Entry(year, month, day, hour, minute) ==
    [year |-> year, month |-> month, day |-> day, hour |-> hour, minute |-> minute]

MCEntries == {Entry(2025, 7, 18, 12, 30),    \* what the window proposes
              Entry(2028, 2, 31, 23, 59),    \* no such day, leap year
              Entry(2027, 2, 31, 0, 0),      \* no such day
              Entry(2020, 1, 1, 0, 0), Entry(2030, 12, 31, 23, 59),
              Entry(2031, 1, 1, 0, 0), Entry(2025, 0, 1, 0, 0), Entry(2025, 1, 32, 0, 0),
              Entry(2025, 1, 1, 24, 0), Entry(2025, 1, 1, 0, 60)}
=============================================================================
