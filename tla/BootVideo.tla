------------------------------ MODULE BootVideo ------------------------------
(***************************************************************************)
(* The boot animation, src/src/start_video.c with boot_animation_timer_cb  *)
(* of main.c: the UI thread shows a video and after BootSeconds replaces   *)
(* it by the lock screen, while a second thread waits for the video,       *)
(* sleeps, and has a shell run madplay until somebody kills it.            *)
(*                                                                         *)
(* The threads share video_ready, under a mutex and a condition variable.  *)
(* A critical section is one step here, since the mutex lets no other one  *)
(* run in between, and pthread_cond_wait gives the mutex back in the same  *)
(* step in which it begins to wait.  It may return without a signal.       *)
(*                                                                         *)
(* No lock orders killall after the start of madplay, only the clock does: *)
(* a thread that could run is kept waiting for at most MaxDelay seconds.   *)
(***************************************************************************)
EXTENDS FfmpegPlayer

CONSTANTS
    SleepSeconds,   \* sleep(2) of audio_thread
    BootSeconds,    \* period of the boot timer, 12 seconds
    MaxDelay,       \* the longest the scheduler keeps the audio thread waiting
    MaxLate         \* bound of the model: how late the UI thread may be

ASSUME TimeAssumption ==
    /\ SleepSeconds \in Nat /\ BootSeconds \in Nat
    /\ MaxDelay \in Nat \ {0} /\ MaxLate \in Nat \ {0}
ASSUME DelayAssumption == SleepSeconds + 3 * MaxDelay < BootSeconds

VARIABLES
    ui,              \* where the UI thread is: in lv_start_video ("start", "thread",
                     \* "signal"), in main ("timer", "loop"), in boot_animation_timer_cb
                     \* ("killall", "reset", "clean"), on the lock screen, or dead
    player,          \* the video player on the screen
    g_video_player,  \* the static pointer is not NULL
    video_ready,
    audio,           \* where the audio thread is; in system() what its child does: a
                     \* shell ("sh") becomes madplay ("playing")
    termed,          \* madplay has SIGTERM pending
    clock,           \* seconds
    wakeAt,          \* the end of sleep(2)
    due,             \* when the audio thread's next step is done at the latest
    bootAt,          \* when the boot timer is due
    noMemory         \* history, not in the code: an allocation failed

videoVars == <<player, g_video_player, noMemory>>
threadVars == <<audio, termed, wakeAt, due>>
vars == <<ui, videoVars, video_ready, threadVars, clock, bootAt>>

Starting == {"start", "thread", "signal", "timer"}
Stopping == {"killall", "reset", "clean"}
Alive == ui # "dead"

TypeOK ==
    /\ ui \in Starting \cup Stopping \cup {"loop", "locked", "dead"}
    /\ player \in Players
    /\ g_video_player \in BOOLEAN
    /\ video_ready \in BOOLEAN
    /\ audio \in {"none", "lock", "waiting", "woken", "sleep", "sh", "playing", "ended"}
    /\ termed \in BOOLEAN
    /\ clock \in Nat /\ wakeAt \in Nat /\ due \in Nat /\ bootAt \in Nat
    /\ noMemory \in BOOLEAN

Init ==
    /\ ui = "start"
    /\ player = NoPlayer /\ g_video_player = FALSE /\ noMemory = FALSE
    /\ video_ready = FALSE
    /\ audio = "none" /\ termed = FALSE
    /\ clock = 0 /\ wakeAt = 0 /\ due = 0 /\ bootAt = 0

-----------------------------------------------------------------------------
(* The UI thread. *)

\* The UI thread goes on at next with player p; after undefined behaviour it may also
\* have died, and the whole program with it.
GoesOn(next, p, undefined) ==
    /\ player' = p
    /\ ui' \in {next} \cup (IF undefined THEN {"dead"} ELSE {})

\* lv_start_video: the player is created and started; without a player the function
\* returns
OpenVideo ==
    /\ ui = "start"
    /\ \/ /\ noMemory' = TRUE
          /\ GoesOn("timer", NoPlayer, FALSE)
          /\ UNCHANGED g_video_player
       \/ \E outcome \in {"opened", "no file", "no memory"} :
            LET p == SetAutoRestart(SetSrc(Created, outcome), TRUE) IN
            /\ noMemory' = (outcome = "no memory")
            /\ GoesOn("thread", SetCmd(p, "START"), Undefined(p))
            /\ g_video_player' = TRUE
    /\ UNCHANGED <<video_ready, threadVars, clock, bootAt>>

\* access and pthread_create; if no thread could be created pthread_detach is given an id
\* that was never set
StartThread ==
    /\ ui = "thread"
    /\ \/ /\ GoesOn("signal", player, FALSE)
          /\ UNCHANGED <<audio, due, noMemory>>
       \/ /\ GoesOn("signal", player, FALSE)
          /\ audio' = "lock" /\ due' = clock + MaxDelay
          /\ UNCHANGED noMemory
       \/ /\ GoesOn("signal", player, TRUE)
          /\ noMemory' = TRUE
          /\ UNCHANGED <<audio, due>>
    /\ UNCHANGED <<g_video_player, video_ready, termed, wakeAt, clock, bootAt>>

\* the end of lv_start_video: video_ready under the mutex, pthread_cond_signal
Signal ==
    /\ ui = "signal" /\ ui' = "timer"
    /\ video_ready' = TRUE
    /\ \/ /\ audio = "waiting" /\ audio' = "woken" /\ due' = clock + MaxDelay
       \/ /\ audio # "waiting" /\ UNCHANGED <<audio, due>>
    /\ UNCHANGED <<videoVars, termed, wakeAt, clock, bootAt>>

\* main creates the boot timer and enters its loop
CreateTimer ==
    /\ ui = "timer" /\ ui' = "loop"
    /\ bootAt' = clock + BootSeconds
    /\ UNCHANGED <<videoVars, video_ready, threadVars, clock>>

\* the frame timer is due
Frame ==
    /\ ui = "loop" /\ player.timer = "running"
    /\ \E got \in BOOLEAN :
        /\ got => player.frame < LastFrame
        /\ GoesOn("loop", FrameUpdate(player, got), Undefined(player))
    /\ UNCHANGED <<g_video_player, noMemory, video_ready, threadVars, clock, bootAt>>

BootTimer_OnlyWithVideo ==
    /\ ui = "loop" /\ clock >= bootAt /\ g_video_player
    /\ GoesOn("killall", SetCmd(player, "STOP"), Undefined(player))
    /\ UNCHANGED <<g_video_player, noMemory, video_ready, threadVars, clock, bootAt>>

\* boot_animation_timer_cb and lv_stop_video up to the command STOP
BootTimer ==
    /\ ui = "loop" /\ clock >= bootAt
    /\ \/ /\ g_video_player
          /\ GoesOn("killall", SetCmd(player, "STOP"), Undefined(player))
       \/ /\ ~g_video_player
          /\ GoesOn("clean", player, FALSE)
    /\ UNCHANGED <<g_video_player, noMemory, video_ready, threadVars, clock, bootAt>>

Killall_OtherName ==
    /\ ui = "killall" /\ ui' = "reset"
    /\ g_video_player' = FALSE
    /\ UNCHANGED <<player, noMemory, video_ready, threadVars, clock, bootAt>>

\* killall sends SIGTERM to a process called madplay; a shell that has not become madplay
\* yet is not one
Killall ==
    /\ ui = "killall" /\ ui' = "reset"
    /\ termed' = (audio = "playing")
    /\ g_video_player' = FALSE
    /\ UNCHANGED <<player, noMemory, video_ready, audio, wakeAt, due, clock, bootAt>>

Reset_JoinsAudio ==
    /\ ui = "reset" /\ ui' = "clean"
    /\ audio = "ended"
    /\ video_ready' = FALSE
    /\ UNCHANGED <<videoVars, threadVars, clock, bootAt>>

\* the end of lv_stop_video
Reset ==
    /\ ui = "reset" /\ ui' = "clean"
    /\ video_ready' = FALSE
    /\ UNCHANGED <<videoVars, threadVars, clock, bootAt>>

\* lv_obj_clean deletes the player, Screen() shows the lock screen
CleanUp ==
    /\ ui = "clean"
    /\ GoesOn("locked", Destroyed(player), Undefined(player))
    /\ UNCHANGED <<g_video_player, noMemory, video_ready, threadVars, clock, bootAt>>

-----------------------------------------------------------------------------
(* The audio thread and its child. *)

Audio(from, to) == /\ Alive /\ audio = from /\ audio' = to
                   /\ UNCHANGED <<ui, videoVars, video_ready, termed, clock, bootAt>>

\* the thread's next step is done at most MaxDelay after time t
DueFrom(t) == due' = t + MaxDelay

Check_WaitsFirst ==
    \/ /\ Audio("lock", "waiting")
       /\ UNCHANGED <<wakeAt, due>>
    \/ /\ video_ready /\ Audio("woken", "sleep")
       /\ wakeAt' = clock + SleepSeconds /\ DueFrom(wakeAt')

\* the thread has the mutex and tests video_ready: it waits, or unlocks and sleeps
Check ==
    \E from \in {"lock", "woken"} :
        \/ /\ ~video_ready /\ Audio(from, "waiting")
           /\ UNCHANGED <<wakeAt, due>>
        \/ /\ video_ready /\ Audio(from, "sleep")
           /\ wakeAt' = clock + SleepSeconds /\ DueFrom(wakeAt')

\* pthread_cond_wait returns without a signal
SpuriousWake ==
    /\ Audio("waiting", "woken")
    /\ DueFrom(clock) /\ UNCHANGED wakeAt

\* sleep is over, system() forks a shell, or cannot fork
RunShell ==
    /\ clock >= wakeAt
    /\ \/ Audio("sleep", "sh")
       \/ Audio("sleep", "ended")
    /\ DueFrom(clock) /\ UNCHANGED wakeAt

\* the shell becomes madplay, or there is no madplay
Exec ==
    /\ \/ Audio("sh", "playing")
       \/ Audio("sh", "ended")
    /\ UNCHANGED <<wakeAt, due>>

SongEnds ==
    /\ ~termed /\ Audio("playing", "ended")
    /\ UNCHANGED <<wakeAt, due>>

\* madplay takes the signal, system() and the thread return
DieOfTerm ==
    /\ Alive /\ audio = "playing" /\ termed
    /\ audio' = "ended" /\ termed' = FALSE
    /\ UNCHANGED <<ui, videoVars, video_ready, wakeAt, due, clock, bootAt>>

-----------------------------------------------------------------------------

\* A second passes.  The audio thread is not kept waiting beyond due, and the UI thread is
\* at most MaxLate seconds late.
Tick ==
    /\ audio \in {"lock", "woken", "sleep", "sh"} => clock < due
    /\ \/ ui \in Starting /\ clock < MaxLate
       \/ ui \in Stopping \cup {"loop"} /\ clock < bootAt + MaxLate
    /\ clock' = clock + 1
    /\ UNCHANGED <<ui, videoVars, video_ready, threadVars, bootAt>>

UiStep == \/ OpenVideo \/ StartThread \/ Signal \/ CreateTimer
          \/ BootTimer \/ Killall \/ Reset \/ CleanUp

AudioStep == Check \/ RunShell \/ Exec \/ DieOfTerm

Next == UiStep \/ Frame \/ AudioStep \/ SpuriousWake \/ SongEnds \/ Tick

Spec == Init /\ [][Next]_vars

\* Both threads are scheduled, time passes, and the timers of LVGL's loop are called when
\* they stay due; nothing is assumed of frames, spurious wake-ups and the length of the song.
FairSpec == Spec /\ WF_vars(UiStep) /\ WF_vars(AudioStep) /\ WF_vars(Tick)

-----------------------------------------------------------------------------
(* Properties. *)

\* The audio starts after the video: the thread gets past its condition variable only when
\* lv_start_video has started the player and set video_ready, whether the signal comes
\* before the wait, during it, or the wait ends by itself.
AudioAfterVideo ==
    audio \in {"sleep", "sh", "playing"} => ui \notin {"start", "thread", "signal"}

\* On the lock screen no madplay plays on or is about to start: the one killall of
\* lv_stop_video is late enough to find it, since it plays by then or never will.
SilentWhenLocked ==
    ui = "locked" => /\ audio \notin {"sleep", "sh"}
                     /\ audio = "playing" => termed

\* Both together: the sound lies within the video.
SoundIsWithinVideo == AudioAfterVideo /\ SilentWhenLocked

\* The video does not stop before lv_stop_video: at its end, or when a frame cannot be
\* decoded, the frame callback starts it again.
VideoRunsUntilStopped ==
    ui = "loop" /\ player.ffmpeg_ctx = "open" => player.timer = "running"

\* The frame timer has its player and an open file whenever it may fire, and is deleted
\* with the player; only a failed allocation leaves it a freed context.
FrameFindsPlayer ==
    /\ player.timer # "none" => player.obj
    /\ player.timer = "running" => player.ffmpeg_ctx = "open" \/ noMemory

\* what the two threads need not wait for
UiIsOn == ui \in Starting \cup Stopping \/ (ui = "loop" /\ clock >= bootAt)

AudioIsOn == Alive /\ (audio \in {"lock", "woken", "sh"} \/ (audio = "sleep" /\ clock >= wakeAt))

\* Nobody is stuck: each thread has a next step wherever the mutex, the condition variable
\* and the clock let it go on, and if both wait for the clock then it moves.
NobodyIsStuck ==
    /\ UiIsOn => ENABLED <<UiStep>>_vars
    /\ AudioIsOn => ENABLED <<AudioStep>>_vars
    /\ ui = "loop" /\ ~UiIsOn /\ ~AudioIsOn => ENABLED <<Tick>>_vars

\* The lock screen follows the boot animation, with a video or without.
LockScreenFollows == <>(ui \in {"locked", "dead"})

\* The audio thread does not wait for ever: the signal that comes before its wait is not
\* lost, and lv_stop_video does not take video_ready back before it was seen.
AudioThreadGoesOn == audio = "lock" ~> (audio \in {"playing", "ended"} \/ ~Alive)
=============================================================================
