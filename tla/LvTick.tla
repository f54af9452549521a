-------------------------------- MODULE LvTick --------------------------------
(***************************************************************************)
(* The millisecond tick of src/lvgl/src/tick/lv_tick.c, an unsigned number *)
(* below w (2^32 in the program) that wraps around, and what lv_timer.c    *)
(* computes from it.                                                       *)
(***************************************************************************)
EXTENDS Integers

\* lv_tick_elaps, called when the tick is now
Elapsed(w, now, prev_tick) ==
    IF now >= prev_tick THEN now - prev_tick ELSE ((w - 1) - prev_tick + 1) + now

\* lv_timer_time_remaining
TimeRemaining(w, now, last_run, period) ==
    LET elp == Elapsed(w, now, last_run) IN
    IF elp >= period THEN 0 ELSE period - elp

\* what lv_timer_ready stores in last_run
ReadySince(w, now, period) == (now - period - 1) % w
=============================================================================
