--------------------------- MODULE BootVideoProofs ---------------------------
(***************************************************************************)
(* Theorems about BootVideo, for every length of the video, of the sleep,  *)
(* of the animation and of the scheduler's delays that DelayAssumption     *)
(* admits.                                                                 *)
(***************************************************************************)
EXTENDS BootVideo, TLAPS

\* The moment from which the audio thread's delays are counted: the boot timer is not
\* created before it.
Base == IF ui \in Starting THEN clock ELSE bootAt - BootSeconds

\* What the threads know of each other.
Control ==
    /\ ui \in {"start", "thread"} => audio = "none"
    /\ video_ready => ui \notin {"start", "thread", "signal"}
    /\ ui \in {"timer", "loop", "killall", "reset"} => video_ready \/ audio = "none"
    /\ audio = "waiting" => ui \in {"signal", "dead"}
    /\ ui \in {"thread", "signal"} => g_video_player
    /\ ui \in {"timer", "loop"} /\ ~g_video_player => audio = "none"
    /\ termed => audio = "playing"

\* The deadlines of the audio thread add up from Base.
Deadlines ==
    ui # "dead" =>
    /\ audio \in {"lock", "woken", "sleep", "sh"} => clock <= due
    /\ audio \in {"lock", "woken"} => due <= Base + MaxDelay
    /\ audio = "sleep" => due <= Base + SleepSeconds + 2 * MaxDelay
    /\ audio = "sh" => due <= Base + SleepSeconds + 3 * MaxDelay
    /\ ui \in Stopping \cup {"locked"} => clock >= bootAt
    /\ ui \in {"reset", "clean", "locked"} =>
         audio \in {"none", "ended"} \/ (audio = "playing" /\ termed)

\* The player and its timer.
Video ==
    /\ ui = "start" => player = NoPlayer
    /\ ui \in {"thread", "signal", "timer", "loop"} /\ player.ffmpeg_ctx = "open" =>
         player.timer = "running" /\ player.auto_restart
    /\ player.timer # "none" \/ player.ffmpeg_ctx # "none" => player.obj
    /\ player.timer = "running" => player.ffmpeg_ctx # "none"
    /\ player.ffmpeg_ctx = "freed" => noMemory

IndInv == TypeOK /\ AudioAfterVideo /\ Control /\ Deadlines /\ Video

USE FrameAssumption, TimeAssumption, DelayAssumption
    DEF FrameAssumption, TimeAssumption, DelayAssumption

-----------------------------------------------------------------------------

\* The widget's functions return players, and undefined behaviour needs a freed context.
LEMMA PlayerTypes ==
    /\ NoPlayer \in Players /\ Created \in Players
    /\ \A p \in Players :
        /\ \A o \in {"opened", "no file", "no memory"} : SetSrc(p, o) \in Players
        /\ \A b \in BOOLEAN : SetAutoRestart(p, b) \in Players
        /\ \A c \in {"START", "STOP"} : SetCmd(p, c) \in Players
        /\ \A b \in BOOLEAN : (b => p.frame < LastFrame) => FrameUpdate(p, b) \in Players
        /\ Destroyed(p) \in Players
<1> USE DEF Players
<1>0. 0 \in Frames
  BY DEF Frames
<1>1. NoPlayer \in Players /\ Created \in Players
  BY <1>0 DEF NoPlayer, Created
<1>2. ASSUME NEW p \in Players
      PROVE  /\ \A o \in {"opened", "no file", "no memory"} : SetSrc(p, o) \in Players
             /\ \A b \in BOOLEAN : SetAutoRestart(p, b) \in Players
             /\ \A c \in {"START", "STOP"} : SetCmd(p, c) \in Players
             /\ \A b \in BOOLEAN : (b => p.frame < LastFrame) => FrameUpdate(p, b) \in Players
             /\ Destroyed(p) \in Players
  <2>1. \A o \in {"opened", "no file", "no memory"} : SetSrc(p, o) \in Players
    BY <1>0 DEF SetSrc
  <2>2. \A b \in BOOLEAN : SetAutoRestart(p, b) \in Players
    BY DEF SetAutoRestart
  <2>3. \A c \in {"START", "STOP"} : SetCmd(p, c) \in Players
    BY <1>0 DEF SetCmd
  <2>4. ASSUME NEW b \in BOOLEAN, b => p.frame < LastFrame
        PROVE  FrameUpdate(p, b) \in Players
    <3>1. b => p.frame + 1 \in Frames
      BY <2>4 DEF Frames
    <3> QED BY <2>3, <3>1 DEF FrameUpdate
  <2>5. Destroyed(p) \in Players
    BY <1>1 DEF Destroyed
  <2> QED BY <2>1, <2>2, <2>3, <2>4, <2>5
<1> QED BY <1>1, <1>2

\* What lv_start_video makes of a new player, by the outcome of opening the file.
LEMMA Opened ==
    ASSUME NEW outcome \in {"opened", "no file", "no memory"}
    PROVE  LET p == SetAutoRestart(SetSrc(Created, outcome), TRUE)
               q == SetCmd(p, "START")
           IN  /\ p \in Players /\ q \in Players
               /\ q.obj /\ q.auto_restart
               /\ q.ffmpeg_ctx = p.ffmpeg_ctx
               /\ outcome = "opened" => q.ffmpeg_ctx = "open" /\ q.timer = "running"
               /\ outcome = "no file" => q.ffmpeg_ctx = "none" /\ q.timer = "paused"
               /\ outcome = "no memory" => q.ffmpeg_ctx = "freed"
<1> DEFINE c == SetSrc(Created, outcome)
           p == SetAutoRestart(c, TRUE)
           q == SetCmd(p, "START")
<1>1. /\ c \in Players /\ c.obj /\ c.timer = "paused"
      /\ outcome = "opened" => c.ffmpeg_ctx = "open"
      /\ outcome = "no file" => c.ffmpeg_ctx = "none"
      /\ outcome = "no memory" => c.ffmpeg_ctx = "freed"
  <2>1. Created \in Players /\ Created.obj
    BY PlayerTypes DEF Created, NoPlayer
  <2>2. c \in Players
    BY <2>1, PlayerTypes
  <2>3. /\ c.obj = Created.obj /\ c.timer = "paused"
        /\ c.ffmpeg_ctx = CASE outcome = "opened" -> "open"
                            [] outcome = "no file" -> "none"
                            [] outcome = "no memory" -> "freed"
    BY <2>1 DEF SetSrc, Players
  <2> QED BY <2>1, <2>2, <2>3
<1> HIDE DEF c
<1>2. /\ p \in Players /\ p.obj /\ p.auto_restart /\ p.timer = "paused"
      /\ p.ffmpeg_ctx = c.ffmpeg_ctx
  <2>1. p \in Players
    BY <1>1, PlayerTypes
  <2> QED BY <1>1, <2>1 DEF SetAutoRestart, Players
<1> HIDE DEF p
<1>3. /\ q \in Players /\ q.obj /\ q.auto_restart /\ q.ffmpeg_ctx = p.ffmpeg_ctx
      /\ q.timer = IF p.ffmpeg_ctx = "none" THEN p.timer ELSE "running"
  <2>1. q \in Players
    BY <1>2, PlayerTypes
  <2> QED BY <1>2, <2>1 DEF SetCmd, Players
<1> HIDE DEF q
<1>4. /\ p \in Players /\ q \in Players /\ q.obj /\ q.auto_restart
      /\ q.ffmpeg_ctx = p.ffmpeg_ctx
      /\ outcome = "opened" => q.ffmpeg_ctx = "open" /\ q.timer = "running"
      /\ outcome = "no file" => q.ffmpeg_ctx = "none" /\ q.timer = "paused"
      /\ outcome = "no memory" => q.ffmpeg_ctx = "freed"
  BY <1>1, <1>2, <1>3
<1> QED BY <1>4 DEF q, p, c

LEMMA InitInv == Init => IndInv
<1> SUFFICES ASSUME Init PROVE IndInv
  OBVIOUS
<1>1. TypeOK
  <2>1. NoPlayer \in Players
    BY PlayerTypes
  <2> QED BY <2>1 DEF Init, TypeOK, Starting, Stopping
<1> QED
  BY <1>1 DEF Init, IndInv, AudioAfterVideo, Control, Deadlines, Video, NoPlayer, Starting, Stopping

-----------------------------------------------------------------------------
(* Types. *)

LEMMA TypeNext == ASSUME IndInv, [Next]_vars PROVE TypeOK'
<1> USE DEF Starting, Stopping
<1>0. TypeOK
  BY DEF IndInv
<1>1. CASE OpenVideo
  <2>1. player' \in Players
    BY <1>1, PlayerTypes, Opened DEF OpenVideo, GoesOn
  <2> QED BY <1>0, <1>1, <2>1 DEF OpenVideo, GoesOn, TypeOK, threadVars
<1>2. CASE StartThread
  <2>1. player' = player /\ ui' \in {"signal", "dead"}
    BY <1>2 DEF StartThread, GoesOn
  <2>2. audio' \in {audio, "lock"} /\ due' \in {due, clock + MaxDelay}
    BY <1>2 DEF StartThread
  <2>3. noMemory' \in {noMemory, TRUE}
    BY <1>2 DEF StartThread
  <2>4. UNCHANGED <<g_video_player, video_ready, termed, wakeAt, clock, bootAt>>
    BY <1>2 DEF StartThread
  <2>5. due' \in Nat /\ player' \in Players
    BY <1>0, <2>1, <2>2 DEF TypeOK
  <2>6. noMemory' \in BOOLEAN
    BY <1>0, <2>3, Zenon DEF TypeOK
  <2> QED BY <1>0, <2>1, <2>2, <2>4, <2>5, <2>6 DEF TypeOK
<1>3. CASE Signal
  BY <1>0, <1>3 DEF Signal, TypeOK, videoVars
<1>4. CASE CreateTimer
  BY <1>0, <1>4 DEF CreateTimer, TypeOK, videoVars, threadVars
<1>5. CASE BootTimer
  <2>1. player' \in Players
    BY <1>0, <1>5, PlayerTypes DEF BootTimer, GoesOn, TypeOK
  <2> QED BY <1>0, <1>5, <2>1 DEF BootTimer, GoesOn, TypeOK, threadVars
<1>6. CASE Killall
  BY <1>0, <1>6 DEF Killall, TypeOK
<1>7. CASE Reset
  BY <1>0, <1>7 DEF Reset, TypeOK, videoVars, threadVars
<1>8. CASE CleanUp
  <2>1. player' \in Players
    BY <1>0, <1>8, PlayerTypes DEF CleanUp, GoesOn, TypeOK
  <2> QED BY <1>0, <1>8, <2>1 DEF CleanUp, GoesOn, TypeOK, threadVars
<1>9. CASE Frame
  <2>1. player' \in Players
    BY <1>0, <1>9, PlayerTypes DEF Frame, GoesOn, TypeOK
  <2> QED BY <1>0, <1>9, <2>1 DEF Frame, GoesOn, TypeOK, threadVars
<1>10. CASE Check
  BY <1>0, <1>10 DEF Check, Audio, DueFrom, TypeOK, videoVars
<1>11. CASE SpuriousWake \/ RunShell
  BY <1>0, <1>11 DEF SpuriousWake, RunShell, Audio, DueFrom, TypeOK, videoVars
<1>12. CASE Exec \/ SongEnds
  BY <1>0, <1>12 DEF Exec, SongEnds, Audio, TypeOK, videoVars
<1>13. CASE DieOfTerm
  BY <1>0, <1>13 DEF DieOfTerm, TypeOK, videoVars
<1>14. CASE Tick
  BY <1>0, <1>14 DEF Tick, TypeOK, videoVars, threadVars
<1>15. CASE UNCHANGED vars
  BY <1>0, <1>15 DEF vars, TypeOK, videoVars, threadVars
<1> QED
  BY <1>1, <1>2, <1>3, <1>4, <1>5, <1>6, <1>7, <1>8, <1>9, <1>10, <1>11, <1>12, <1>13,
     <1>14, <1>15 DEF Next, UiStep, AudioStep

-----------------------------------------------------------------------------
(* The video. *)

LEMMA VideoNext == ASSUME IndInv, [Next]_vars PROVE Video'
<1> USE DEF IndInv, Video
<1>0. TypeOK /\ player \in Players
  BY DEF TypeOK
<1>1. CASE OpenVideo
  <2>1. CASE player' = NoPlayer /\ ui' \in {"timer", "dead"}
    BY <2>1 DEF NoPlayer
  <2>2. CASE \E outcome \in {"opened", "no file", "no memory"} :
               LET p == SetAutoRestart(SetSrc(Created, outcome), TRUE) IN
               /\ noMemory' = (outcome = "no memory")
               /\ player' = SetCmd(p, "START")
               /\ ui' \in {"thread", "dead"}
    BY <2>2, Opened
  <2> QED BY <1>1, <2>1, <2>2 DEF OpenVideo, GoesOn
<1>2. CASE StartThread
  BY <1>2 DEF StartThread, GoesOn
<1>3. CASE BootTimer
  <2>1. LET q == SetCmd(player, "STOP") IN
        /\ q.obj = player.obj /\ q.ffmpeg_ctx = player.ffmpeg_ctx
        /\ q.timer = IF player.ffmpeg_ctx = "none" THEN player.timer ELSE "paused"
    BY <1>0 DEF SetCmd, Players
  <2>2. /\ player' \in {player, SetCmd(player, "STOP")}
        /\ ui' \in {"killall", "clean", "dead"} /\ noMemory' = noMemory
    BY <1>3 DEF BootTimer, GoesOn
  <2> QED BY <2>1, <2>2
<1>4. CASE CleanUp
  BY <1>4 DEF CleanUp, GoesOn, Destroyed, NoPlayer
<1>5. CASE Frame
  BY <1>0, <1>5 DEF Frame, GoesOn, FrameUpdate, SetCmd, Players
<1>6. CASE Signal \/ CreateTimer \/ Killall \/ Reset
  BY <1>6 DEF Signal, CreateTimer, Killall, Reset, videoVars
<1>7. CASE AudioStep \/ SpuriousWake \/ SongEnds \/ Tick
  BY <1>7 DEF AudioStep, Check, RunShell, Exec, DieOfTerm, SpuriousWake, SongEnds, Tick,
              Audio, videoVars
<1>8. CASE UNCHANGED vars
  BY <1>8 DEF vars, videoVars
<1> QED
  BY <1>1, <1>2, <1>3, <1>4, <1>5, <1>6, <1>7, <1>8 DEF Next, UiStep

-----------------------------------------------------------------------------
(* The threads. *)

\* When the boot timer fires, the audio thread has started madplay or never will.
LEMMA NobodyOnTheWay ==
    ASSUME IndInv, ui # "dead", clock >= bootAt, ui \notin Starting
    PROVE  audio \in {"none", "playing", "ended"}
<1>1. /\ clock \in Int /\ due \in Int /\ bootAt \in Int
      /\ audio \in {"none", "lock", "waiting", "woken", "sleep", "sh", "playing", "ended"}
  BY DEF IndInv, TypeOK
<1>2. audio # "waiting"
  BY DEF IndInv, Control, Starting
<1>3. audio \notin {"lock", "woken", "sleep", "sh"}
  BY <1>1 DEF IndInv, Deadlines, Base
<1> QED BY <1>1, <1>2, <1>3

LEMMA ThreadsNext ==
    ASSUME IndInv, [Next]_vars
    PROVE  AudioAfterVideo' /\ Control' /\ Deadlines'
<1> USE DEF AudioAfterVideo, Control, Deadlines, Base, Starting, Stopping
<1>0. AudioAfterVideo /\ Control /\ Deadlines
  BY DEF IndInv
<1>a. /\ clock \in Int /\ due \in Int /\ bootAt \in Int /\ wakeAt \in Int
      /\ audio \in {"none", "lock", "waiting", "woken", "sleep", "sh", "playing", "ended"}
  BY DEF IndInv, TypeOK
<1>b. video_ready \in BOOLEAN /\ g_video_player \in BOOLEAN /\ termed \in BOOLEAN
  BY DEF IndInv, TypeOK
<1>1. CASE OpenVideo
  BY <1>0, <1>a, <1>1 DEF OpenVideo, GoesOn, threadVars
<1>2. CASE StartThread
  BY <1>0, <1>a, <1>2 DEF StartThread, GoesOn
<1>3. CASE Signal
  BY <1>0, <1>a, <1>3 DEF Signal, videoVars
<1>4. CASE CreateTimer
  BY <1>0, <1>a, <1>4 DEF CreateTimer, videoVars, threadVars
<1>5. CASE BootTimer
  BY <1>0, <1>a, <1>5, NobodyOnTheWay DEF BootTimer, GoesOn, threadVars
<1>6. CASE Killall
  BY <1>0, <1>a, <1>6, NobodyOnTheWay DEF Killall
<1>7. CASE Reset
  BY <1>0, <1>a, <1>7, NobodyOnTheWay DEF Reset, videoVars, threadVars
<1>8. CASE CleanUp
  BY <1>0, <1>a, <1>8, NobodyOnTheWay DEF CleanUp, GoesOn, threadVars
<1>9. CASE Frame
  BY <1>0, <1>a, <1>9 DEF Frame, GoesOn, threadVars
<1>10. CASE Check
  <2>1. ui # "dead"
    BY <1>10 DEF Check, Audio, Alive
  <2>2. CASE \E from \in {"lock", "woken"} :
               /\ ~video_ready /\ Audio(from, "waiting") /\ UNCHANGED <<wakeAt, due>>
    <3>1. ui \in {"signal", "dead"}
      <4>1. audio \in {"lock", "woken"} /\ ~video_ready
        BY <2>2 DEF Audio
      <4>2. ui \notin {"start", "thread", "timer", "loop", "killall", "reset"}
        BY <4>1, <1>0
      <4>3. ui \notin {"clean", "locked"}
        BY <4>1, <1>0
      <4> QED BY <4>2, <4>3 DEF IndInv, TypeOK
    <3> QED BY <1>0, <1>a, <2>2, <3>1 DEF Audio, videoVars
  <2>3. CASE \E from \in {"lock", "woken"} :
               /\ video_ready /\ Audio(from, "sleep")
               /\ wakeAt' = clock + SleepSeconds /\ DueFrom(wakeAt')
    BY <1>0, <1>a, <2>1, <2>3 DEF Audio, DueFrom, videoVars
  <2> QED BY <1>10, <2>2, <2>3 DEF Check
<1>11. CASE SpuriousWake
  BY <1>0, <1>a, <1>11 DEF SpuriousWake, Audio, Alive, DueFrom, videoVars
<1>12. CASE RunShell
  BY <1>0, <1>a, <1>12 DEF RunShell, Audio, Alive, DueFrom, videoVars
<1>13. CASE Exec
  BY <1>0, <1>a, <1>13 DEF Exec, Audio, Alive, videoVars
<1>14. CASE SongEnds
  BY <1>0, <1>a, <1>14 DEF SongEnds, Audio, Alive, videoVars
<1>15. CASE DieOfTerm
  BY <1>0, <1>a, <1>15 DEF DieOfTerm, Alive, videoVars
<1>16. CASE Tick
  BY <1>0, <1>a, <1>16 DEF Tick, videoVars, threadVars
<1>17. CASE UNCHANGED vars
  BY <1>0, <1>a, <1>17 DEF vars, videoVars, threadVars
<1> QED
  BY <1>1, <1>2, <1>3, <1>4, <1>5, <1>6, <1>7, <1>8, <1>9, <1>10, <1>11, <1>12, <1>13,
     <1>14, <1>15, <1>16, <1>17 DEF Next, UiStep, AudioStep

-----------------------------------------------------------------------------
(* The theorems. *)

LEMMA Invariance == Spec => []IndInv
<1>1. IndInv /\ [Next]_vars => IndInv'
  BY TypeNext, VideoNext, ThreadsNext DEF IndInv
<1> QED BY <1>1, InitInv, PTL DEF Spec

\* Every reachable state has the types of the variables.
THEOREM TypeCorrect == Spec => []TypeOK
<1>1. IndInv => TypeOK
  BY DEF IndInv
<1> QED BY <1>1, Invariance, PTL

\* The audio never starts before the video does, whatever the order of signal and wait.
THEOREM AudioWaits == Spec => []AudioAfterVideo
<1>1. IndInv => AudioAfterVideo
  BY DEF IndInv
<1> QED BY <1>1, Invariance, PTL

\* With delays that add up to less than the length of the animation, one killall silences
\* the boot animation for good.
THEOREM Silence == Spec => []SilentWhenLocked
<1>1. IndInv => SilentWhenLocked
  BY DEF IndInv, Deadlines, SilentWhenLocked
<1> QED BY <1>1, Invariance, PTL

\* Both ends of the sound.
THEOREM SoundWithinVideo == Spec => []SoundIsWithinVideo
BY AudioWaits, Silence, PTL DEF SoundIsWithinVideo

\* The video goes on from its beginning whenever it ends.
THEOREM VideoGoesOn == Spec => []VideoRunsUntilStopped
<1>1. IndInv => VideoRunsUntilStopped
  BY DEF IndInv, Video, VideoRunsUntilStopped
<1> QED BY <1>1, Invariance, PTL

\* The frame timer never outlives its player.
THEOREM FrameTimerSafe == Spec => []FrameFindsPlayer
<1>1. IndInv => FrameFindsPlayer
  BY DEF IndInv, TypeOK, Players, Video, FrameFindsPlayer
<1> QED BY <1>1, Invariance, PTL
-----------------------------------------------------------------------------
(* The guard behind NobodyIsStuck: who waits for the clock does not stop it. *)

SleepHasTime == audio = "sleep" => wakeAt < due

LEMMA SleepKeepsTime == Spec => []SleepHasTime
<1>1. Init => SleepHasTime
  BY DEF Init, SleepHasTime
<1>2. ASSUME TypeOK, SleepHasTime, [Next]_vars PROVE SleepHasTime'
  <2> USE <1>2 DEF SleepHasTime
  <2>1. CASE OpenVideo \/ StartThread \/ Signal \/ CreateTimer
    BY <2>1 DEF OpenVideo, StartThread, Signal, CreateTimer, threadVars
  <2>2. CASE BootTimer \/ Killall \/ Reset \/ CleanUp \/ Frame
    BY <2>2 DEF BootTimer, Killall, Reset, CleanUp, Frame, threadVars
  <2>3. CASE Check
    BY <2>3 DEF Check, Audio, DueFrom, TypeOK
  <2>4. CASE RunShell \/ Exec \/ DieOfTerm \/ SpuriousWake \/ SongEnds
    BY <2>4 DEF RunShell, Exec, DieOfTerm, SpuriousWake, SongEnds, Audio
  <2>5. CASE Tick \/ UNCHANGED vars
    BY <2>5 DEF Tick, threadVars, vars
  <2> QED BY <2>1, <2>2, <2>3, <2>4, <2>5 DEF Next, UiStep, AudioStep
<1> QED BY <1>1, <1>2, TypeCorrect, PTL DEF Spec

\* A second can pass whenever both threads wait for the clock.
WayOn ==
    ui = "loop" /\ ~ UiIsOn /\ ~ AudioIsOn =>
        /\ clock < bootAt + MaxLate
        /\ audio \in {"lock", "woken", "sleep", "sh"} => clock < due

\* The two bounds on delays never contradict each other: no time is left in which nobody moves,
\* for any lengths of the sleep, the animation and the delays.
THEOREM ClockFindsItsWay == Spec => []WayOn
<1>1. TypeOK /\ SleepHasTime => WayOn
  BY DEF TypeOK, SleepHasTime, WayOn, UiIsOn, AudioIsOn, Alive
<1> QED BY <1>1, TypeCorrect, SleepKeepsTime, PTL

-----------------------------------------------------------------------------
(* Liveness.  What fairness needs to know of ENABLED is NobodyIsStuck,      *)
(* which TLC checks; what counting seconds comes to is TicksAddUp below.    *)

At(where) == ui = where

Late == ui = "loop" /\ clock >= bootAt

\* Each step of the UI thread leads to the next place.
LEMMA UiMoves ==
    ASSUME IndInv, UiStep
    PROVE  /\ At("start") => At("thread")' \/ At("timer")' \/ ~Alive'
           /\ At("thread") => At("signal")' \/ ~Alive'
           /\ At("signal") => At("timer")' /\ video_ready' /\ audio' # "waiting"
                              /\ (audio \in {"lock", "woken"} => audio' \in {"lock", "woken"})
           /\ At("timer") => At("loop")'
           /\ Late => At("killall")' \/ At("clean")' \/ ~Alive'
           /\ At("killall") => At("reset")'
           /\ At("reset") => At("clean")'
           /\ At("clean") => At("locked")' \/ ~Alive'
           /\ Alive /\ ~At("locked") /\ (At("loop") => Late)
<1> USE DEF At, Late, Alive, GoesOn
<1>1. CASE OpenVideo
  BY <1>1 DEF OpenVideo
<1>2. CASE StartThread
  BY <1>2 DEF StartThread
<1>3. CASE Signal
  BY <1>3 DEF Signal
<1>4. CASE CreateTimer
  BY <1>4 DEF CreateTimer
<1>5. CASE BootTimer
  BY <1>5 DEF BootTimer
<1>6. CASE Killall
  BY <1>6 DEF Killall
<1>7. CASE Reset
  BY <1>7 DEF Reset
<1>8. CASE CleanUp
  BY <1>8 DEF CleanUp
<1> QED BY <1>1, <1>2, <1>3, <1>4, <1>5, <1>6, <1>7, <1>8 DEF UiStep

\* Nothing else moves it, but a frame of the video may be its end.
LEMMA UiStays ==
    ASSUME IndInv, [Next]_vars, ~ UiStep
    PROVE  /\ ui' = ui \/ (At("loop") /\ ~Alive')
           /\ UNCHANGED <<bootAt, video_ready>>
           /\ clock' \in Nat /\ clock' >= clock
<1>1. clock \in Nat
  BY DEF IndInv, TypeOK
<1>2. CASE Frame
  BY <1>1, <1>2 DEF Frame, GoesOn, At, Alive
<1>3. CASE AudioStep
  BY <1>1, <1>3 DEF AudioStep, Check, RunShell, Exec, DieOfTerm, Audio
<1>4. CASE SpuriousWake \/ SongEnds
  BY <1>1, <1>4 DEF SpuriousWake, SongEnds, Audio
<1>5. CASE Tick
  BY <1>1, <1>5 DEF Tick
<1>6. CASE UNCHANGED vars
  BY <1>1, <1>6 DEF vars
<1> QED BY <1>2, <1>3, <1>4, <1>5, <1>6 DEF Next

\* Where the audio thread is on its way to madplay: before the signal, past it, asleep, and in
\* its shell.
BeforeSignal == ui = "signal" /\ audio \in {"lock", "waiting", "woken"}

PastSignal == Alive /\ video_ready /\ audio \in {"lock", "woken"}

Asleep == Alive /\ audio = "sleep"

Rested == Asleep /\ clock >= wakeAt

InShell == Alive /\ audio = "sh"

AudioDone == audio \in {"playing", "ended"} \/ ~Alive

\* The thread begins before the signal or past it.
LEMMA AudioBegins == ASSUME IndInv, audio = "lock" PROVE BeforeSignal \/ PastSignal \/ AudioDone
<1>1. ui \in Starting \cup Stopping \cup {"loop", "locked", "dead"}
  BY DEF IndInv, TypeOK
<1>2. ui \notin {"start", "thread", "clean", "locked"}
  BY DEF IndInv, Control, Deadlines
<1>3. ui \in {"timer", "loop", "killall", "reset"} => video_ready
  BY DEF IndInv, Control
<1> QED BY <1>1, <1>2, <1>3 DEF BeforeSignal, PastSignal, AudioDone, Alive, Starting, Stopping

\* It goes no way but forward: once set, video_ready is not taken back before it was seen.
LEMMA AudioStays ==
    ASSUME IndInv, [Next]_vars
    PROVE  /\ BeforeSignal => BeforeSignal' \/ PastSignal' \/ AudioDone'
           /\ PastSignal => PastSignal' \/ Asleep' \/ AudioDone'
           /\ Asleep => Asleep' \/ InShell' \/ AudioDone'
           /\ Rested => Rested' \/ InShell' \/ AudioDone'
           /\ InShell => InShell' \/ AudioDone'
<1> USE DEF BeforeSignal, PastSignal, Asleep, Rested, InShell, AudioDone, Alive
<1>1. clock \in Nat /\ wakeAt \in Nat
  BY DEF IndInv, TypeOK
<1>2. /\ BeforeSignal => ~video_ready
      /\ ui = "thread" => audio = "none"
      /\ ui = "reset" => audio \in {"none", "playing", "ended"}
  BY DEF IndInv, Control, Deadlines
<1>3. CASE UiStep
  <2>1. CASE OpenVideo
    BY <1>1, <2>1 DEF OpenVideo, GoesOn, threadVars
  <2>2. CASE StartThread
    BY <1>1, <1>2, <2>2 DEF StartThread, GoesOn
  <2>3. CASE Signal
    BY <1>1, <1>2, <2>3 DEF Signal
  <2>4. CASE CreateTimer
    BY <1>1, <2>4 DEF CreateTimer, threadVars
  <2>5. CASE BootTimer
    BY <1>1, <2>5 DEF BootTimer, GoesOn, threadVars
  <2>6. CASE Killall
    BY <1>1, <2>6 DEF Killall
  <2>7. CASE Reset
    BY <1>1, <1>2, <2>7 DEF Reset, threadVars
  <2>8. CASE CleanUp
    BY <1>1, <2>8 DEF CleanUp, GoesOn, threadVars
  <2> QED BY <1>3, <2>1, <2>2, <2>3, <2>4, <2>5, <2>6, <2>7, <2>8 DEF UiStep
<1>4. CASE Frame
  BY <1>1, <1>4 DEF Frame, GoesOn, threadVars
<1>5. CASE AudioStep
  BY <1>1, <1>2, <1>5 DEF AudioStep, Check, RunShell, Exec, DieOfTerm, Audio
<1>6. CASE SpuriousWake \/ SongEnds
  BY <1>1, <1>6 DEF SpuriousWake, SongEnds, Audio
<1>7. CASE Tick
  BY <1>1, <1>7 DEF Tick, threadVars, videoVars
<1>8. CASE UNCHANGED vars
  BY <1>1, <1>8 DEF vars, threadVars, videoVars
<1> QED BY <1>3, <1>4, <1>5, <1>6, <1>7, <1>8 DEF Next

\* The signal brings it past the condition variable, each step of its own one place further.
LEMMA AudioMoves ==
    ASSUME IndInv
    PROVE  /\ UiStep /\ BeforeSignal => PastSignal' \/ AudioDone'
           /\ AudioStep /\ PastSignal => Asleep'
           /\ AudioStep /\ Rested => InShell' \/ AudioDone'
           /\ AudioStep /\ InShell => AudioDone'
<1> USE DEF BeforeSignal, PastSignal, Asleep, Rested, InShell, AudioDone, Alive
<1>1. ASSUME UiStep, BeforeSignal
      PROVE  PastSignal'
  BY <1>1 DEF UiStep, OpenVideo, StartThread, Signal, CreateTimer, BootTimer, Killall, Reset,
              CleanUp
<1>2. ASSUME AudioStep, PastSignal
      PROVE  Asleep'
  BY <1>2 DEF AudioStep, Check, RunShell, Exec, DieOfTerm, Audio
<1>3. ASSUME AudioStep, Rested
      PROVE  InShell' \/ AudioDone'
  BY <1>3 DEF AudioStep, Check, RunShell, Exec, DieOfTerm, Audio
<1>4. ASSUME AudioStep, InShell
      PROVE  AudioDone'
  BY <1>4 DEF AudioStep, Check, RunShell, Exec, DieOfTerm, Audio
<1> QED BY <1>1, <1>2, <1>3, <1>4

-----------------------------------------------------------------------------
(* The clock. *)

\* The UI thread has nothing to do but to wait for the boot timer.
Waits == ui = "loop" /\ clock < bootAt

\* The audio thread sleeps, and has to sleep on.
Dozes == Asleep /\ clock < wakeAt

\* The audio thread has nothing to do, or is not there.
Idle == audio \in {"none", "playing", "ended"}

\* What induction over the seconds would give: ticks without end do not stay below bootAt, which
\* is fixed while the UI thread waits for it.
TicksAddUp == []<><<Tick>>_vars => ~<>[]Waits

\* The moments that the threads wait for.
TimeComes ==
    /\ audio = "sleep" ~> clock >= wakeAt \/ ~Alive
    /\ ui = "loop" ~> clock >= bootAt \/ ~Alive

\* Whoever sleeps does so before the boot timer is due.
LEMMA WaitingPlaces ==
    ASSUME IndInv
    PROVE  /\ Waits => PastSignal \/ Rested \/ Dozes \/ InShell \/ Idle
           /\ Dozes => At("timer") \/ Waits
           /\ audio = "sleep" => Dozes \/ clock >= wakeAt \/ ~Alive
           /\ ui = "loop" => Waits \/ Late
<1> USE DEF Waits, Dozes, Idle, PastSignal, Rested, Asleep, InShell, At, Late, Alive
<1>1. /\ clock \in Nat /\ wakeAt \in Nat /\ bootAt \in Nat /\ due \in Nat
      /\ audio \in {"none", "lock", "waiting", "woken", "sleep", "sh", "playing", "ended"}
      /\ ui \in Starting \cup Stopping \cup {"loop", "locked", "dead"}
  BY DEF IndInv, TypeOK
<1>2. ui = "loop" => audio # "waiting" /\ (video_ready \/ audio = "none")
  BY DEF IndInv, Control
<1>3. ui # "dead" /\ audio = "sleep" =>
        /\ clock <= due
        /\ due <= Base + SleepSeconds + 2 * MaxDelay
        /\ ui \in Stopping \cup {"locked"} => clock >= bootAt
  BY DEF IndInv, Deadlines
<1>4. audio = "sleep" => ui \notin {"start", "thread", "signal"}
  BY DEF IndInv, AudioAfterVideo
<1>5. ASSUME ui # "dead", audio = "sleep", ui # "timer"
      PROVE  ui = "loop" /\ clock < bootAt
  <2>1. ui \notin Starting
    BY <1>4, <1>5 DEF Starting
  <2>2. Base = bootAt - BootSeconds
    BY <2>1 DEF Base
  <2>3. clock < bootAt
    BY <1>1, <1>3, <1>5, <2>2
  <2> QED BY <1>1, <1>3, <1>5, <2>1, <2>3
<1> QED BY <1>1, <1>2, <1>5

\* Nobody leaves its place before the moment has come.
LEMMA WaitingStays ==
    ASSUME IndInv, [Next]_vars
    PROVE  /\ Waits => Waits' \/ Late' \/ ~Alive'
           /\ Waits /\ Idle => Idle'
           /\ Dozes => Dozes' \/ Rested' \/ ~Alive'
<1> USE DEF Waits, Dozes, Idle, Rested, Asleep, Late, Alive
<1>1. clock \in Nat /\ wakeAt \in Nat /\ bootAt \in Nat
  BY DEF IndInv, TypeOK
<1>2. CASE UiStep
  <2>1. ~ Waits
    <3>1. ASSUME ui = "loop" PROVE BootTimer
      BY <1>2, <3>1 DEF UiStep, OpenVideo, StartThread, Signal, CreateTimer, Killall, Reset, CleanUp
    <3>2. BootTimer => ~(clock < bootAt)
      BY <1>1 DEF BootTimer
    <3> QED BY <3>1, <3>2
  <2>2. ui = "thread" => audio = "none"
    BY DEF IndInv, Control
  <2>3. Dozes => UNCHANGED <<audio, wakeAt, clock>>
    BY <1>2, <2>2 DEF UiStep, OpenVideo, StartThread, Signal, CreateTimer, BootTimer, Killall,
                      Reset, CleanUp, threadVars
  <2> QED BY <1>1, <2>1, <2>3
<1>3. CASE Frame
  BY <1>1, <1>3 DEF Frame, GoesOn, threadVars
<1>4. CASE AudioStep
  BY <1>1, <1>4 DEF AudioStep, Check, RunShell, Exec, DieOfTerm, Audio
<1>5. CASE SpuriousWake \/ SongEnds
  BY <1>1, <1>5 DEF SpuriousWake, SongEnds, Audio
<1>6. CASE Tick
  BY <1>1, <1>6 DEF Tick, threadVars, videoVars
<1>7. CASE UNCHANGED vars
  BY <1>1, <1>7 DEF vars, threadVars, videoVars
<1> QED BY <1>2, <1>3, <1>4, <1>5, <1>6, <1>7 DEF Next

\* The clock is kept from those moments by neither thread: who waits for one lets it tick, and who
\* need not wait goes on and comes to wait or to its end.
LEMMA ClockComes == FairSpec /\ []NobodyIsStuck /\ TicksAddUp => TimeComes
<1> DEFINE Timer == At("timer")
<1>1. NobodyIsStuck => /\ UiIsOn => ENABLED <<UiStep>>_vars
                       /\ AudioIsOn => ENABLED <<AudioStep>>_vars
                       /\ ui = "loop" /\ ~UiIsOn /\ ~AudioIsOn => ENABLED <<Tick>>_vars
  BY DEF NobodyIsStuck
<1>2. /\ Timer => UiIsOn
      /\ PastSignal \/ Rested \/ InShell => AudioIsOn
  BY DEF At, UiIsOn, AudioIsOn, PastSignal, Rested, Asleep, InShell, Starting
<1>3. IndInv => (Waits /\ (Idle \/ Dozes) => ui = "loop" /\ ~UiIsOn /\ ~AudioIsOn)
  BY DEF IndInv, TypeOK, Waits, Idle, Dozes, Asleep, UiIsOn, AudioIsOn, Starting, Stopping
<1>4. IndInv => /\ <<UiStep>>_vars /\ Timer => At("loop")'
                /\ <<AudioStep>>_vars /\ PastSignal => Asleep'
                /\ <<AudioStep>>_vars /\ Rested => InShell' \/ AudioDone'
                /\ <<AudioStep>>_vars /\ InShell => AudioDone'
  BY UiMoves, AudioMoves
<1>5. IndInv /\ [Next]_vars =>
        /\ PastSignal => PastSignal' \/ Asleep' \/ AudioDone'
        /\ Rested => Rested' \/ InShell' \/ AudioDone'
        /\ InShell => InShell' \/ AudioDone'
        /\ Waits => Waits' \/ Late' \/ ~Alive'
        /\ Waits /\ Idle => Idle'
        /\ Dozes => Dozes' \/ Rested' \/ ~Alive'
  BY AudioStays, WaitingStays
<1>6. IndInv => /\ Waits => PastSignal \/ Rested \/ Dozes \/ InShell \/ Idle
                /\ Dozes => Timer \/ Waits
                /\ audio = "sleep" => Dozes \/ clock >= wakeAt \/ ~Alive
                /\ ui = "loop" => Waits \/ Late
                /\ Asleep => Dozes \/ Rested
  BY WaitingPlaces DEF IndInv, TypeOK, Asleep, Dozes, Rested
<1>7. IndInv => /\ Waits /\ AudioDone => Idle
                /\ Waits => Alive /\ ~Late /\ ~Timer
                /\ Late \/ At("loop") => ~Timer
                /\ Late => clock >= bootAt
                /\ Rested => clock >= wakeAt
                /\ Dozes => ~Rested /\ Alive
  BY DEF IndInv, TypeOK, Waits, AudioDone, Idle, Late, Alive, Rested, At, Dozes, Asleep
<1>8. FairSpec => []IndInv
  BY Invariance, PTL DEF FairSpec
<1>9. FairSpec /\ []NobodyIsStuck => (InShell ~> AudioDone)
  BY <1>1, <1>2, <1>4, <1>5, <1>8, PTL DEF FairSpec, Spec
<1>10. FairSpec /\ []NobodyIsStuck => (Rested ~> InShell \/ AudioDone)
  BY <1>1, <1>2, <1>4, <1>5, <1>8, PTL DEF FairSpec, Spec
<1>11. FairSpec /\ []NobodyIsStuck => (PastSignal ~> Asleep \/ AudioDone)
  BY <1>1, <1>2, <1>4, <1>5, <1>8, PTL DEF FairSpec, Spec
<1>12. FairSpec /\ []NobodyIsStuck => (<>[]Waits => <>[](Waits /\ (Idle \/ Dozes)))
  BY <1>5, <1>6, <1>7, <1>8, <1>9, <1>10, <1>11, PTL DEF FairSpec, Spec
<1>13. FairSpec /\ []NobodyIsStuck => (<>[](Waits /\ (Idle \/ Dozes)) => []<><<Tick>>_vars)
  BY <1>1, <1>3, <1>8, PTL DEF FairSpec
<1>14. FairSpec /\ []NobodyIsStuck /\ TicksAddUp => ~<>[]Waits
  BY <1>12, <1>13, PTL DEF TicksAddUp
<1>15. FairSpec /\ []NobodyIsStuck /\ TicksAddUp => (Waits ~> Late \/ ~Alive)
  BY <1>5, <1>8, <1>14, PTL DEF FairSpec, Spec
<1>16. FairSpec /\ []NobodyIsStuck => (<>[]Dozes => <>[]Waits)
  BY <1>1, <1>2, <1>4, <1>5, <1>6, <1>7, <1>8, PTL DEF FairSpec, Spec
<1>17. FairSpec /\ []NobodyIsStuck /\ TicksAddUp => (Dozes ~> Rested \/ ~Alive)
  BY <1>5, <1>8, <1>14, <1>16, PTL DEF FairSpec, Spec
<1> QED BY <1>6, <1>7, <1>8, <1>15, <1>17, PTL DEF TimeComes

\* The lock screen is shown, with a video or without, with sound or without, unless undefined
\* behaviour ends the program first.
THEOREM LockScreenAlwaysFollows ==
    FairSpec /\ []NobodyIsStuck /\ TicksAddUp => LockScreenFollows
<1> DEFINE Start == At("start")
           Thread == At("thread")
           Sig == At("signal")
           Timer == At("timer")
           Loop == At("loop")
           Kill == At("killall")
           Rst == At("reset")
           Clean == At("clean")
           Done == At("locked") \/ ~Alive
           Due == clock >= bootAt
<1>1. NobodyIsStuck => (UiIsOn => ENABLED <<UiStep>>_vars)
  BY DEF NobodyIsStuck
<1>2. Start \/ Thread \/ Sig \/ Timer \/ Late \/ Kill \/ Rst \/ Clean => UiIsOn
  BY DEF UiIsOn, At, Late, Starting, Stopping
<1>3a. IndInv /\ UiStep =>
        /\ Start => Thread' \/ Timer' \/ Done'
        /\ Thread => Sig' \/ Done'
        /\ Sig => Timer'
        /\ Timer => Loop'
        /\ Late => Kill' \/ Clean' \/ Done'
        /\ Kill => Rst'
        /\ Rst => Clean'
        /\ Clean => Done'
  BY UiMoves
<1>3. IndInv /\ <<UiStep>>_vars =>
        /\ Start => Thread' \/ Timer' \/ Done'
        /\ Thread => Sig' \/ Done'
        /\ Sig => Timer'
        /\ Timer => Loop'
        /\ Late => Kill' \/ Clean' \/ Done'
        /\ Kill => Rst'
        /\ Rst => Clean'
        /\ Clean => Done'
  BY <1>3a
<1>4. IndInv /\ [Next]_vars =>
        /\ Start => Start' \/ Thread' \/ Timer' \/ Done'
        /\ Thread => Thread' \/ Sig' \/ Done'
        /\ Sig => Sig' \/ Timer'
        /\ Timer => Timer' \/ Loop'
        /\ Loop => Loop' \/ Kill' \/ Clean' \/ Done'
        /\ Late => Late' \/ Kill' \/ Clean' \/ Done'
        /\ Kill => Kill' \/ Rst'
        /\ Rst => Rst' \/ Clean'
        /\ Clean => Clean' \/ Done'
  <2>1. ASSUME IndInv, [Next]_vars, ~ UiStep
        PROVE  /\ \A where : At(where) => At(where)' \/ (Loop /\ Done')
               /\ Late => Late' \/ Done'
    <3>1. clock \in Nat /\ bootAt \in Nat
      BY <2>1 DEF IndInv, TypeOK
    <3> QED BY <2>1, <3>1, UiStays DEF At, Late
  <2>2. Late => Loop
    BY DEF Late, At
  <2>3. ASSUME Loop, UiStep
        PROVE  Late
    BY <2>3 DEF Late, At, UiStep, OpenVideo, StartThread, Signal, CreateTimer,
                BootTimer, Killall, Reset, CleanUp
  <2>4. ~ (Loop /\ (Start \/ Thread \/ Sig \/ Timer \/ Kill \/ Rst \/ Clean))
    BY DEF At
  <2> QED BY <1>3a, <2>1, <2>2, <2>3, <2>4
<1>5. Late <=> Loop /\ Due
  BY DEF Late, At
<1>6. TimeComes => (Loop ~> Due \/ ~Alive)
  <2>1. Loop <=> ui = "loop"
    BY DEF At
  <2> QED BY <2>1, PTL DEF TimeComes
<1>7. FairSpec => []IndInv
  BY Invariance, PTL DEF FairSpec
<1>8. FairSpec /\ []NobodyIsStuck => (Clean ~> Done)
  BY <1>1, <1>2, <1>3, <1>4, <1>7, PTL DEF FairSpec, Spec
<1>9. FairSpec /\ []NobodyIsStuck => (Rst ~> Clean)
  BY <1>1, <1>2, <1>3, <1>4, <1>7, PTL DEF FairSpec, Spec
<1>10. FairSpec /\ []NobodyIsStuck => (Kill ~> Rst)
  BY <1>1, <1>2, <1>3, <1>4, <1>7, PTL DEF FairSpec, Spec
<1>11. FairSpec /\ []NobodyIsStuck => (Late ~> Kill \/ Clean \/ Done)
  BY <1>1, <1>2, <1>3, <1>4, <1>7, PTL DEF FairSpec, Spec
<1>12. FairSpec /\ TimeComes => (Loop ~> Late \/ Kill \/ Clean \/ Done)
  BY <1>4, <1>5, <1>6, <1>7, PTL DEF FairSpec, Spec
<1>13. FairSpec /\ []NobodyIsStuck => (Timer ~> Loop)
  BY <1>1, <1>2, <1>3, <1>4, <1>7, PTL DEF FairSpec, Spec
<1>14. FairSpec /\ []NobodyIsStuck => (Sig ~> Timer)
  BY <1>1, <1>2, <1>3, <1>4, <1>7, PTL DEF FairSpec, Spec
<1>15. FairSpec /\ []NobodyIsStuck => (Thread ~> Sig \/ Done)
  BY <1>1, <1>2, <1>3, <1>4, <1>7, PTL DEF FairSpec, Spec
<1>16. FairSpec /\ []NobodyIsStuck => (Start ~> Thread \/ Timer \/ Done)
  BY <1>1, <1>2, <1>3, <1>4, <1>7, PTL DEF FairSpec, Spec
<1>17. FairSpec => Start
  <2>1. Init => Start
    BY DEF Init, At
  <2> QED BY <2>1, PTL DEF FairSpec, Spec
<1>18. FairSpec /\ []NobodyIsStuck /\ TicksAddUp => <>Done
  BY ClockComes, <1>8, <1>9, <1>10, <1>11, <1>12, <1>13, <1>14, <1>15, <1>16, <1>17, PTL
<1>19. Done => ui \in {"locked", "dead"}
  BY DEF At, Alive
<1> QED BY <1>18, <1>19, PTL DEF LockScreenFollows

\* No wake-up is lost: the thread reaches madplay, or finds that there is none, whether the
\* signal comes before its wait or after, and however long each thread is kept waiting.
THEOREM AudioThreadAlwaysGoesOn ==
    FairSpec /\ []NobodyIsStuck /\ TicksAddUp => AudioThreadGoesOn
<1> DEFINE Lock == audio = "lock"
           Rest == clock >= wakeAt
<1>1. NobodyIsStuck => /\ UiIsOn => ENABLED <<UiStep>>_vars
                       /\ AudioIsOn => ENABLED <<AudioStep>>_vars
  BY DEF NobodyIsStuck
<1>2. /\ BeforeSignal => UiIsOn
      /\ PastSignal \/ Rested \/ InShell => AudioIsOn
  BY DEF UiIsOn, AudioIsOn, BeforeSignal, PastSignal, Asleep, Rested, InShell, Starting
<1>3. IndInv => /\ <<UiStep>>_vars /\ BeforeSignal => PastSignal' \/ AudioDone'
                /\ <<AudioStep>>_vars /\ PastSignal => Asleep'
                /\ <<AudioStep>>_vars /\ Rested => InShell' \/ AudioDone'
                /\ <<AudioStep>>_vars /\ InShell => AudioDone'
  BY AudioMoves
<1>4. IndInv /\ [Next]_vars =>
        /\ BeforeSignal => BeforeSignal' \/ PastSignal' \/ AudioDone'
        /\ PastSignal => PastSignal' \/ Asleep' \/ AudioDone'
        /\ Asleep => Asleep' \/ InShell' \/ AudioDone'
        /\ Rested => Rested' \/ InShell' \/ AudioDone'
        /\ InShell => InShell' \/ AudioDone'
  BY AudioStays
<1>5. IndInv => (Lock => BeforeSignal \/ PastSignal \/ AudioDone)
  BY AudioBegins
<1>6. TimeComes => (Asleep ~> Rest \/ AudioDone)
  <2>1. Asleep => audio = "sleep"
    BY DEF Asleep
  <2>2. ~ Alive => AudioDone
    BY DEF AudioDone
  <2> QED BY <2>1, <2>2, PTL DEF TimeComes
<1>7. Rested <=> Asleep /\ Rest
  BY DEF Rested
<1>8. FairSpec => []IndInv
  BY Invariance, PTL DEF FairSpec
<1>9. FairSpec /\ []NobodyIsStuck => (InShell ~> AudioDone)
  BY <1>1, <1>2, <1>3, <1>4, <1>8, PTL DEF FairSpec, Spec
<1>10. FairSpec /\ []NobodyIsStuck => (Rested ~> InShell \/ AudioDone)
  BY <1>1, <1>2, <1>3, <1>4, <1>8, PTL DEF FairSpec, Spec
<1>11. FairSpec /\ TimeComes => (Asleep ~> Rested \/ InShell \/ AudioDone)
  BY <1>4, <1>6, <1>7, <1>8, PTL DEF FairSpec, Spec
<1>12. FairSpec /\ []NobodyIsStuck => (PastSignal ~> Asleep \/ AudioDone)
  BY <1>1, <1>2, <1>3, <1>4, <1>8, PTL DEF FairSpec, Spec
<1>13. FairSpec /\ []NobodyIsStuck => (BeforeSignal ~> PastSignal \/ AudioDone)
  BY <1>1, <1>2, <1>3, <1>4, <1>8, PTL DEF FairSpec, Spec
<1>14. FairSpec /\ []NobodyIsStuck /\ TicksAddUp => (Lock ~> AudioDone)
  BY ClockComes, <1>5, <1>8, <1>9, <1>10, <1>11, <1>12, <1>13, PTL
<1>15. AudioDone <=> audio \in {"playing", "ended"} \/ ~Alive
  BY DEF AudioDone
<1> QED BY <1>14, <1>15, PTL DEF AudioThreadGoesOn
=============================================================================
