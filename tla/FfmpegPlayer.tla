----------------------------- MODULE FfmpegPlayer -----------------------------
(***************************************************************************)
(* The video widget of src/lvgl/src/libs/ffmpeg/lv_ffmpeg.c: the player    *)
(* object, the context of the file it has open, and the LVGL timer that    *)
(* reads one frame after the other.  Each operator is a function of the    *)
(* source as a function from player to player.                             *)
(*                                                                         *)
(* A context that ffmpeg_close has freed while the player still points to  *)
(* it is "freed": what any later use of it does is undefined (Undefined).  *)
(***************************************************************************)
EXTENDS Integers

CONSTANT LastFrame   \* the number of frames of the video

ASSUME FrameAssumption == LastFrame \in Nat \ {0}

Frames == 0 .. LastFrame

Players == [obj : BOOLEAN,
            ffmpeg_ctx : {"none", "open", "freed"},
            timer : {"none", "paused", "running"},
            auto_restart : BOOLEAN,
            frame : Frames]

NoPlayer == [obj |-> FALSE, ffmpeg_ctx |-> "none", timer |-> "none",
             auto_restart |-> FALSE, frame |-> 0]

\* lv_ffmpeg_player_constructor
Created == [NoPlayer EXCEPT !.obj = TRUE, !.timer = "paused"]

\* lv_ffmpeg_player_set_src: the file is opened, or cannot be, or there is no memory for
\* its pictures; then the context is closed but the pointer to it kept
SetSrc(p, outcome) ==
    [p EXCEPT !.timer = "paused", !.frame = 0,
              !.ffmpeg_ctx = CASE outcome = "opened"    -> "open"
                               [] outcome = "no file"   -> "none"
                               [] outcome = "no memory" -> "freed"]

SetAutoRestart(p, en) == [p EXCEPT !.auto_restart = en]

\* lv_ffmpeg_player_set_cmd, for the two commands this program gives
SetCmd(p, cmd) ==
    IF p.ffmpeg_ctx = "none" THEN p
    ELSE [p EXCEPT !.frame = 0, !.timer = IF cmd = "START" THEN "running" ELSE "paused"]

FrameUpdate_NoRestart(p, got) ==
    IF p.ffmpeg_ctx = "none" THEN p
    ELSE IF got THEN [p EXCEPT !.frame = @ + 1] ELSE SetCmd(p, "STOP")

\* lv_ffmpeg_player_frame_update_cb, which got a frame, or none: the video is at its end
\* or cannot be decoded
FrameUpdate(p, got) ==
    IF p.ffmpeg_ctx = "none" THEN p
    ELSE IF got THEN [p EXCEPT !.frame = @ + 1]
    ELSE SetCmd(p, IF p.auto_restart THEN "START" ELSE "STOP")

\* lv_ffmpeg_player_destructor
Destroyed(p) == NoPlayer

\* set_cmd, the frame callback and the destructor use the context without knowing that it
\* was closed
Undefined(p) == p.ffmpeg_ctx = "freed"
=============================================================================
