----------------------------- MODULE MusicPlayer -----------------------------
(***************************************************************************)
(* The music application, src/src/kugou_music.c: the UI thread that forks  *)
(* a command-line player for a song, pauses it, continues it, stops it and *)
(* notices once a second that it has ended, next to the children the       *)
(* kernel runs (module ChildProcess).                                      *)
(*                                                                         *)
(* The UI thread is one thread.  While pc = "idle" it is in the LVGL event *)
(* loop and takes one touch event or one timer at a time.  A handler that  *)
(* calls stop_music or play_music sleeps or blocks between its system      *)
(* calls, and the children go on meanwhile: those handlers are split at    *)
(* their system calls, pc says which one comes next.                       *)
(*                                                                         *)
(* Of the widgets only the song title and the progress timer are kept; the *)
(* captions of the play and mode buttons are drawn fully transparent.      *)
(***************************************************************************)
EXTENDS ChildProcess

CONSTANT MaxProgress   \* bound of the model on current_progress

ASSUME ProgressAssumption == MaxProgress \in Nat

VARIABLES
    pc,               \* where the UI thread is
    after,            \* where stop_music returns to: "fork" or "leave"
    target,           \* argument of the play_music that is running
    screen,           \* "away": another application; else "list", "player"
    progress_timer,   \* the 1000 ms timer of update_music_progress exists
    title,            \* song named by song_title_label, -1: none
    listed,           \* buttons of the list on the screen, or left below the desktop;
                      \* -1: no list
    music_count,
    current_index,
    play_mode,
    state,            \* g_music_player.state
    player_pid,
    current_progress

uiVars == <<pc, after, target>>
screenVars == <<screen, progress_timer, title, listed>>
playerVars == <<music_count, current_index, play_mode, state, player_pid,
                current_progress>>
vars == <<procVars, uiVars, screenVars, playerVars>>

Indices == 0 .. (music_count - 1)

TypeOK ==
    /\ ProcTypeOK
    /\ pc \in {"idle", "poll", "poll_again", "reap", "fork", "leave"}
    /\ after \in {"fork", "leave"}
    /\ target \in Songs
    /\ screen \in {"away", "list", "player"}
    /\ progress_timer \in BOOLEAN
    /\ title \in Songs \cup {-1}
    /\ listed \in -1 .. MaxMusicCount
    /\ music_count \in 0 .. MaxMusicCount
    /\ current_index \in Songs
    /\ play_mode \in {"SEQUENCE", "RANDOM"}
    /\ state \in {"STOP", "PLAYING", "PAUSED"}
    /\ player_pid \in Pids \cup {NoPid}
    /\ current_progress \in 0 .. MaxProgress

Init ==
    /\ ProcInit
    /\ pc = "idle" /\ after = "fork" /\ target = 0
    /\ screen = "away" /\ progress_timer = FALSE /\ title = -1 /\ listed = -1
    /\ music_count = 0 /\ current_index = 0 /\ play_mode = "SEQUENCE"
    /\ state = "STOP" /\ player_pid = NoPid /\ current_progress = 0

-----------------------------------------------------------------------------
(* stop_music, from its caller's point of view a subroutine. *)

(* Definitions named X_... are mutants: X with a plausible slip, used only to *)
(* see that a property notices it.                                           *)
StopReturns_KeepsPid(ret) ==
    /\ player_pid' = player_pid
    /\ state' = "STOP" /\ current_progress' = 0 /\ pc' = ret

StopReturns_KeepsProgress(ret) ==
    /\ player_pid' = NoPid /\ state' = "STOP" /\ pc' = ret
    /\ UNCHANGED current_progress

\* the end of stop_music: no player any more, on to the caller
StopReturns(ret) ==
    /\ player_pid' = NoPid
    /\ state' = "STOP"
    /\ current_progress' = 0
    /\ pc' = ret

\* the beginning of stop_music: SIGTERM, if there is a player
StopMusic(ret) ==
    /\ after' = ret
    /\ \/ /\ player_pid # NoPid
          /\ Kill(player_pid, "TERM")
          /\ pc' = "poll"
          /\ UNCHANGED <<player_pid, state, current_progress>>
       \/ /\ player_pid = NoPid
          /\ StopReturns(ret)
          /\ UNCHANGED procVars

\* waitpid(WNOHANG) right after SIGTERM: reaped, or sleep for 100 ms
Poll ==
    /\ pc = "poll"
    /\ \/ /\ Live(player_pid)
          /\ pc' = "poll_again"
          /\ UNCHANGED <<procVars, player_pid, state, current_progress>>
       \/ Reap(player_pid) /\ StopReturns(after)
    /\ UNCHANGED <<after, target, screenVars, music_count, current_index, play_mode>>

PollAgain_NoKill ==
    /\ pc = "poll_again"
    /\ \/ /\ Live(player_pid)
          /\ pc' = "poll_again"
          /\ UNCHANGED <<procVars, player_pid, state, current_progress>>
       \/ Reap(player_pid) /\ StopReturns(after)
    /\ UNCHANGED <<after, target, screenVars, music_count, current_index, play_mode>>

\* waitpid(WNOHANG) after the sleep: reaped, or SIGKILL
PollAgain ==
    /\ pc = "poll_again"
    /\ \/ /\ Live(player_pid)
          /\ Kill(player_pid, "KILL")
          /\ pc' = "reap"
          /\ UNCHANGED <<player_pid, state, current_progress>>
       \/ Reap(player_pid) /\ StopReturns(after)
    /\ UNCHANGED <<after, target, screenVars, music_count, current_index, play_mode>>

\* the blocking waitpid after SIGKILL
WaitKilled ==
    /\ pc = "reap"
    /\ Reap(player_pid) /\ StopReturns(after)
    /\ UNCHANGED <<after, target, screenVars, music_count, current_index, play_mode>>

-----------------------------------------------------------------------------
(* play_music: stop_music, a sleep of 50 ms, then fork. *)

PlayMusic_NoStop(i) ==
    /\ i \in Indices
    /\ target' = i
    /\ after' = "fork" /\ pc' = "fork"
    /\ UNCHANGED <<procVars, player_pid, state, current_progress>>

PlayMusic(i) ==
    /\ i \in Indices
    /\ target' = i
    /\ StopMusic("fork")

Selected_KeepsIndex ==
    /\ pc = "fork" /\ pc' = "idle"
    /\ current_progress' = 0 /\ UNCHANGED current_index

\* what play_music does before fork, whatever fork returns
Selected ==
    /\ pc = "fork"
    /\ pc' = "idle"
    /\ current_index' = target
    /\ current_progress' = 0

ForkPlayer(p) ==
    /\ Selected
    /\ Fork(p, target)
    /\ player_pid' = p
    /\ state' = "PLAYING"
    /\ title' = IF screen = "player" THEN target ELSE title
    /\ UNCHANGED <<after, target, screen, progress_timer, listed, music_count, play_mode>>

ForkFails_Unnoticed ==
    /\ Selected
    /\ state' = "PLAYING"
    /\ UNCHANGED <<procVars, after, target, screenVars, music_count, play_mode,
                   player_pid>>

ForkFails ==
    /\ Selected
    /\ state' = "STOP"
    /\ UNCHANGED <<procVars, after, target, screenVars, music_count, play_mode,
                   player_pid>>

NextIndices_NoWrap ==
    IF play_mode = "RANDOM" THEN Indices ELSE {current_index + 1}

NextIndices ==
    IF play_mode = "RANDOM" THEN Indices
    ELSE {(current_index + 1) % music_count}

PrevIndices ==
    IF play_mode = "RANDOM" THEN Indices
    ELSE {(current_index - 1 + music_count) % music_count}

-----------------------------------------------------------------------------
(* Handlers of the event loop. *)

\* the desktop is gone and no window opened: a list left below it gets the touch, unless a
\* lock window has covered it since
Uncover ==
    /\ screen' = "away" \/ (screen' = "list" /\ listed # -1)
    /\ UNCHANGED <<progress_timer, title, listed>>

StartMusicApp_NoMemset(n) ==
    /\ pc = "idle" /\ screen = "away"
    /\ music_count' = n
    /\ state' = "STOP" /\ player_pid' = NoPid
    /\ \/ n = 0 /\ Uncover
       \/ n > 0 /\ screen' = "list" /\ progress_timer' = FALSE /\ title' = -1 /\ listed' = n
    /\ UNCHANGED <<procVars, uiVars, current_index, play_mode, current_progress>>

\* start_music_app: n songs are found; without a song only a message box
StartMusicApp(n) ==
    /\ pc = "idle" /\ screen = "away"
    /\ music_count' = n
    /\ current_index' = 0
    /\ play_mode' = "SEQUENCE"
    /\ state' = "STOP"
    /\ player_pid' = NoPid
    /\ \/ n = 0 /\ Uncover
       \/ n > 0 /\ screen' = "list" /\ progress_timer' = FALSE /\ title' = -1 /\ listed' = n
    /\ UNCHANGED <<procVars, uiVars, current_progress>>

\* start_gallery_app: a message box, or a window for which the screen is cleaned
StartGallery ==
    /\ pc = "idle" /\ screen = "away"
    /\ \/ Uncover
       \/ listed' = -1 /\ UNCHANGED <<screen, progress_timer, title>>
    /\ UNCHANGED <<procVars, uiVars, playerVars>>

\* music_list_item_cb: the player screen, then play_music, which returns at once if the
\* song is not there any more
ListItem(i) ==
    /\ pc = "idle" /\ screen = "list" /\ i < listed
    /\ current_index' = i
    /\ screen' = "player" /\ progress_timer' = TRUE /\ listed' = -1
    /\ title' = IF music_count > 0 THEN i ELSE -1
    /\ \/ PlayMusic(i)
       \/ i \notin Indices /\ UNCHANGED <<procVars, uiVars, player_pid, state, current_progress>>
    /\ UNCHANGED <<music_count, play_mode>>

\* music_list_touch_cb, swipe to the right: cleanup_music_player, desktop
SwipeRight ==
    /\ pc = "idle" /\ screen = "list"
    /\ progress_timer' = FALSE
    /\ StopMusic("leave")
    /\ UNCHANGED <<target, screen, title, listed, music_count, current_index, play_mode>>

Leave ==
    /\ pc = "leave" /\ pc' = "idle"
    /\ screen' = "away" /\ title' = -1
    /\ state' = "STOP" /\ player_pid' = NoPid /\ current_progress' = 0
    /\ UNCHANGED <<procVars, after, target, progress_timer, listed, music_count,
                   current_index, play_mode>>

\* music_player_back_cb: the list again; the song goes on
Back ==
    /\ pc = "idle" /\ screen = "player"
    /\ screen' = "list" /\ progress_timer' = FALSE /\ title' = -1 /\ listed' = music_count
    /\ UNCHANGED <<procVars, uiVars, playerVars>>

PauseMusic ==
    /\ pc = "idle" /\ screen = "player" /\ state = "PLAYING"
    /\ player_pid # NoPid
    /\ Kill(player_pid, "STOP")
    /\ state' = "PAUSED"
    /\ UNCHANGED <<uiVars, screenVars, music_count, current_index, play_mode,
                   player_pid, current_progress>>

ResumeMusic ==
    /\ pc = "idle" /\ screen = "player" /\ state = "PAUSED"
    /\ player_pid # NoPid
    /\ Kill(player_pid, "CONT")
    /\ state' = "PLAYING"
    /\ UNCHANGED <<uiVars, screenVars, music_count, current_index, play_mode,
                   player_pid, current_progress>>

\* music_play_pause_cb in state STOP
PlayCurrent ==
    /\ pc = "idle" /\ screen = "player" /\ state = "STOP" /\ music_count > 0
    /\ PlayMusic(current_index)
    /\ UNCHANGED <<screenVars, music_count, current_index, play_mode>>

NextMusic ==
    /\ pc = "idle" /\ screen = "player" /\ music_count > 0
    /\ \E i \in NextIndices : PlayMusic(i)
    /\ UNCHANGED <<screenVars, music_count, current_index, play_mode>>

PrevMusic ==
    /\ pc = "idle" /\ screen = "player" /\ music_count > 0
    /\ \E i \in PrevIndices : PlayMusic(i)
    /\ UNCHANGED <<screenVars, music_count, current_index, play_mode>>

TogglePlayMode ==
    /\ pc = "idle" /\ screen = "player"
    /\ play_mode' = IF play_mode = "SEQUENCE" THEN "RANDOM" ELSE "SEQUENCE"
    /\ UNCHANGED <<procVars, uiVars, screenVars, music_count, current_index,
                   state, player_pid, current_progress>>

TickEnded_NoNext ==
    /\ pc = "idle" /\ progress_timer
    /\ player_pid # NoPid /\ proc[player_pid] = "zombie"
    /\ Reap(player_pid)
    /\ StopReturns("idle")
    /\ UNCHANGED <<after, target, screenVars, music_count, current_index, play_mode>>

\* update_music_progress finds the player dead: reap it, next_music
TickEnded ==
    /\ pc = "idle" /\ progress_timer
    /\ player_pid # NoPid /\ proc[player_pid] = "zombie"
    /\ Reap(player_pid)
    /\ \E i \in NextIndices : i \in Indices /\ target' = i
    /\ after' = "fork"
    /\ StopReturns("fork")
    /\ UNCHANGED <<screenVars, music_count, current_index, play_mode>>

\* update_music_progress counts a second; unless PLAYING it does nothing
TickAdvances ==
    /\ pc = "idle" /\ progress_timer
    /\ player_pid # NoPid => proc[player_pid] # "zombie"
    /\ state = "PLAYING"
    /\ screen = "player"
    /\ current_progress < MaxProgress
    /\ current_progress' = current_progress + 1
    /\ UNCHANGED <<procVars, uiVars, screenVars, music_count, current_index,
                   play_mode, state, player_pid>>

-----------------------------------------------------------------------------
UserStep ==
    \/ \E n \in 0 .. MaxMusicCount : StartMusicApp(n)
    \/ StartGallery
    \/ \E i \in Songs : ListItem(i)
    \/ SwipeRight \/ Back
    \/ PauseMusic \/ ResumeMusic \/ PlayCurrent
    \/ NextMusic \/ PrevMusic \/ TogglePlayMode

\* the rest of a handler that has begun
HandlerStep ==
    Poll \/ PollAgain \/ WaitKilled \/ (\E p \in Pids : ForkPlayer(p)) \/ ForkFails \/ Leave

\* the kernel's part of a step: one of the children moves, the program does not
ByChild(A) == A /\ UNCHANGED <<uiVars, screenVars, playerVars>>

ChildSteps == ByChild(\E p \in Pids : ChildStep(p))

Next == UserStep \/ HandlerStep \/ TickEnded \/ TickAdvances \/ ChildSteps

KilledDies == ByChild(\E p \in Pids : DieOfKill(p))

(***************************************************************************)
(* Fairness.  A handler runs to its end; a timer that stays due runs; a    *)
(* killed child dies, a forked one executes the player or exits, and a     *)
(* song that is allowed to sound comes to its end.  Nothing is assumed of  *)
(* the user, nor of how a player reacts to SIGTERM.  There is never more   *)
(* than one child (PlayerIsOwned), so fairness to some child is fairness   *)
(* to each.                                                                *)
(***************************************************************************)
Fairness ==
    /\ WF_vars(HandlerStep)
    /\ WF_vars(TickEnded)
    /\ WF_vars(KilledDies)
    /\ WF_vars(ByChild(\E p \in Pids : Exec(p) \/ ExecFails(p)))
    /\ WF_vars(ByChild(\E p \in Pids : SongEnds(p)))

Spec == Init /\ [][Next]_vars

FairSpec == Spec /\ Fairness

-----------------------------------------------------------------------------
(* Safety. *)

\* No player outlives its owner: whenever a child has not been reaped yet,
\* player_pid names it.  There is never a second player, and between the
\* return of stop_music and fork there is none.
NoOrphan == \A p \in Pids : proc[p] # "free" => p = player_pid

\* A pid that kill or waitpid may be given is that of a child not yet reaped,
\* never one the kernel may have handed to somebody else meanwhile.
PidIsChild == player_pid # NoPid => proc[player_pid] # "free"

\* Outside the application there is no child, alive or dead, and no timer that
\* would start one: the memset of init_music_player forgets nothing.
QuietOutsideApp ==
    screen = "away" => ~ progress_timer /\ \A p \in Pids : proc[p] = "free"

\* All three: player_pid owns the one child there is, inside the application and after it, for
\* any sequence of handlers, song ends and signals, with pids that the kernel hands out again.
PlayerIsOwned == NoOrphan /\ PidIsChild /\ QuietOutsideApp

\* In the event loop the state agrees with the child, however it got there: STOP
\* without a child, PLAYING with one that is not stopped, PAUSED with a stopped
\* one or with one that had ended before the pause.
StateFitsPlayer ==
    pc = "idle" =>
        /\ state = "STOP" <=> player_pid = NoPid
        /\ state = "PLAYING" => player_pid \notin stopped
        /\ state = "PAUSED" => player_pid \in stopped \/ proc[player_pid] = "zombie"

\* In the event loop the song of the child is the one selected, and the one the
\* player screen names; also after a fork that failed and a song that ended.
LiveIsSelected ==
    pc = "idle" =>
        \A p \in Pids : Live(p) =>
            /\ song[p] = current_index
            /\ screen = "player" => title = current_index

\* music_list is only read at an index it has, by fork's child and by the title, and the
\* buttons on the screen stand for its songs: also those of a list that was left below the
\* desktop and comes up when a later scan finds nothing, unless that scan emptied the list.
IndexInList ==
    /\ music_count > 0 => current_index \in Indices
    /\ pc = "fork" => target \in Indices
    /\ music_count > 0 /\ listed # -1 => listed = music_count

-----------------------------------------------------------------------------
(* What a step may never do. *)

\* Every song is timed from zero (line 1022 of the source says so): the counter is
\* zero after each step that changes the player.
EverySongFromZero == [][player_pid' # player_pid => current_progress' = 0]_vars

\* A second is counted only for a child that is alive and not held.
SecondsOfLivingSong ==
    [][current_progress' > current_progress =>
            Live(player_pid) /\ player_pid \notin stopped]_vars

-----------------------------------------------------------------------------
(* Liveness, under Fairness. *)

\* a handler has begun, and does not wait for a child to die
HandlerIsOn == pc # "idle" /\ ~ (pc = "reap" /\ Live(player_pid))

\* the progress timer is going to find the player dead
EndIsDue == pc = "idle" /\ progress_timer /\ player_pid # NoPid /\ ~ Live(player_pid)

\* Nobody is stuck: a handler that has begun can go on, and where it blocks in waitpid
\* the child it waits for was sent SIGKILL and can die; a song that has ended always has
\* a next one.
NobodyIsStuck ==
    /\ HandlerIsOn => ENABLED <<HandlerStep>>_vars
    /\ pc = "reap" /\ Live(player_pid) => ENABLED <<KilledDies>>_vars
    /\ EndIsDue => ENABLED <<TickEnded>>_vars

\* stop_music never hangs the UI thread, whether the player plays, is paused or
\* ignores SIGTERM: every handler returns to the event loop.
HandlersReturn == pc # "idle" ~> pc = "idle"

\* While the player screen is shown a song that has ended is followed by a fork of
\* the next one, unless the user leaves the screen.
NextSongFollows ==
    (pc = "idle" /\ screen = "player" /\ player_pid # NoPid /\ ~ Live(player_pid))
        ~> (pc = "fork" \/ screen # "player")

-----------------------------------------------------------------------------
(* Implementation of the abstract specifications. *)

Voices ==
    {[player |-> p, song |-> song[p], is |-> IF p \in stopped THEN "held" ELSE "sounds"] :
        p \in {q \in Pids : Live(q)}}

Abstract == INSTANCE Jukebox WITH Players <- Pids, voices <- Voices

\* The application is a jukebox with one voice (module Jukebox).
OneVoice == Abstract!Spec

Map == INSTANCE Navigation
       WITH Known <- {"list", "player"}, Elsewhere <- "away", shown <- screen

\* The two windows of this module, with the list that may come up again, are a view of the
\* map that Shell follows too.
FollowsMap == Map!Spec

-----------------------------------------------------------------------------
(* What comments of the source say and the code does not do. *)

\* Lines 1024 and 1030: a player that has ended is reaped.  The timer that does so
\* does not exist on the list screen.
ZombiesAreReaped == \A p \in Pids : proc[p] = "zombie" ~> proc[p] = "free"
=============================================================================
