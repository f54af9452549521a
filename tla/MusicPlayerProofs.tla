-------------------------- MODULE MusicPlayerProofs --------------------------
(***************************************************************************)
(* Proofs about MusicPlayer, for any set of pids, any capacity of the list *)
(* and any bound on the progress counter.                                  *)
(*                                                                         *)
(* None of the safety invariants is inductive alone.  NoOrphan needs to    *)
(* know that fork is reached without a player, PidIsChild that nobody      *)
(* reaps behind the UI thread's back, LiveIsSelected that a stop which is  *)
(* under way ends in fork or outside the application, IndexInList that a   *)
(* list left below the desktop is that of the last scan, unless that found *)
(* nothing, and that there is no player then.  Control states this of each *)
(* value of pc, and IndInv is its conjunction with the invariants.         *)
(***************************************************************************)
EXTENDS MusicPlayer, TLAPS

Stopping == pc \in {"poll", "poll_again", "reap"}

Control ==
    /\ Stopping => player_pid # NoPid
    /\ pc \in {"fork", "leave"} => player_pid = NoPid /\ state = "STOP" /\ pc = after
    /\ pc # "idle" /\ after = "fork" => screen = "player" /\ target \in Indices
    /\ pc # "idle" /\ after = "leave" => screen = "list"
    /\ screen = "away" => player_pid = NoPid
    /\ player_pid # NoPid => music_count > 0
    /\ music_count > 0 => current_index \in Indices
    /\ music_count > 0 /\ listed # -1 => listed = music_count
    /\ progress_timer => screen = "player"
    /\ \A p \in stopped : Live(p)

IndInv ==
    /\ TypeOK
    /\ Control
    /\ NoOrphan
    /\ PidIsChild
    /\ StateFitsPlayer
    /\ LiveIsSelected

-----------------------------------------------------------------------------
(* An index computed by next_music or prev_music is one of the list. *)
LEMMA NeighbourIndices ==
    ASSUME NEW n \in Nat \ {0}, NEW i \in 0 .. (n - 1)
    PROVE  /\ (i + 1) % n \in 0 .. (n - 1)
           /\ (i - 1 + n) % n \in 0 .. (n - 1)
  OBVIOUS

\* Init establishes the inductive invariant.
LEMMA InitInv == Init => IndInv
<1> SUFFICES ASSUME Init PROVE IndInv
  OBVIOUS
<1>1. /\ \A p \in Pids : proc[p] = "free" /\ ~ Live(p)
      /\ pc = "idle" /\ screen = "away" /\ state = "STOP"
      /\ player_pid = NoPid /\ stopped = {} /\ progress_timer = FALSE /\ music_count = 0
  BY DEF Init, ProcInit, Live, LiveStates
<1>2. TypeOK
  <2>1. 0 \in Songs
    BY CountAssumption DEF Songs
  <2>2. ProcTypeOK
    BY <2>1 DEF Init, ProcInit, ProcTypeOK, LiveStates
  <2>3. 0 \in 0 .. MaxMusicCount /\ 0 \in 0 .. MaxProgress
    BY CountAssumption, ProgressAssumption
  <2>4. listed \in -1 .. MaxMusicCount
    BY CountAssumption DEF Init
  <2> QED
    BY <2>1, <2>2, <2>3, <2>4 DEF Init, TypeOK
<1>3. Control
  BY <1>1 DEF Control, Stopping
<1>4. NoOrphan /\ PidIsChild /\ StateFitsPlayer /\ LiveIsSelected
  BY <1>1 DEF NoOrphan, PidIsChild, StateFitsPlayer, LiveIsSelected
<1> QED
  BY <1>2, <1>3, <1>4 DEF IndInv

-----------------------------------------------------------------------------
(* What the shared pieces of the handlers do to the kernel's tables. *)

\* A signal leaves the process table alone; only STOP adds a stopped child,
\* and it adds a live one.
LEMMA KillEffect ==
    ASSUME ProcTypeOK, NEW p \in Pids, NEW sig \in {"STOP", "CONT", "TERM", "KILL"},
           Kill(p, sig)
    PROVE  /\ ProcTypeOK'
           /\ UNCHANGED <<proc, song>>
           /\ sig \in {"TERM", "KILL"} => UNCHANGED stopped
           /\ sig = "STOP" => stopped' = IF Live(p) THEN stopped \cup {p} ELSE stopped
           /\ sig = "CONT" => stopped' = IF Live(p) THEN stopped \ {p} ELSE stopped
  BY DEF ProcTypeOK, Kill, Live

\* A successful waitpid frees the pid it is given and nothing else.
LEMMA ReapEffect ==
    ASSUME ProcTypeOK, NEW p \in Pids, Reap(p)
    PROVE  /\ ProcTypeOK'
           /\ ~ Live(p)
           /\ proc'[p] = "free"
           /\ \A q \in Pids : q # p => proc'[q] = proc[q]
           /\ UNCHANGED <<song, stopped, termed, killed>>
  BY DEF ProcTypeOK, Reap

\* A child of its own accord only executes the player or becomes a zombie.
LEMMA ChildEffect ==
    ASSUME ProcTypeOK, NEW p \in Pids, ChildStep(p)
    PROVE  /\ ProcTypeOK'
           /\ Live(p)
           /\ UNCHANGED song
           /\ \A q \in Pids : q # p => proc'[q] = proc[q]
           /\ \/ proc'[p] = "playing" /\ UNCHANGED stopped
              \/ proc'[p] = "zombie" /\ stopped' = stopped \ {p}
  BY DEF ProcTypeOK, ChildStep, Exec, ExecFails, SongEnds, DieOfTerm, DieOfKill,
         Exit, Live, LiveStates

-----------------------------------------------------------------------------
(* stop_music keeps the invariant, from each of its callers. *)

\* The first segment of stop_music: SIGTERM and on to waitpid, or straight to
\* the caller; the process table is as before.
LEMMA StopMusicEffect ==
    ASSUME IndInv, NEW ret \in {"fork", "leave"}, StopMusic(ret)
    PROVE  /\ ProcTypeOK'
           /\ UNCHANGED <<proc, song, stopped>>
           /\ after' = ret
           /\ \/ /\ pc' = "poll" /\ player_pid # NoPid
                 /\ UNCHANGED <<player_pid, state, current_progress>>
              \/ /\ pc' = ret /\ player_pid = NoPid /\ player_pid' = NoPid
                 /\ state' = "STOP" /\ current_progress' = 0
<1>1. ProcTypeOK /\ player_pid \in Pids \cup {NoPid}
  BY DEF IndInv, TypeOK
<1>2. CASE player_pid # NoPid /\ Kill(player_pid, "TERM") /\ pc' = "poll"
            /\ UNCHANGED <<player_pid, state, current_progress>>
  <2>1. ProcTypeOK' /\ UNCHANGED <<proc, song, stopped>>
    BY <1>1, <1>2, KillEffect
  <2> QED
    BY <1>2, <2>1 DEF StopMusic
<1>3. CASE player_pid = NoPid /\ StopReturns(ret) /\ UNCHANGED procVars
  BY <1>1, <1>3 DEF StopMusic, StopReturns, procVars, ProcTypeOK
<1> QED
  BY <1>2, <1>3 DEF StopMusic

\* Whatever a handler does to the screen before it calls stop_music.
LEMMA StopMusicInv ==
    ASSUME IndInv, NEW ret \in {"fork", "leave"}, StopMusic(ret),
           music_count' = music_count, play_mode' = play_mode,
           current_index' \in Songs, music_count > 0 => current_index' \in Indices,
           target' \in Songs, ret = "fork" => target' \in Indices,
           listed' \in {-1, listed},
           screen' = IF ret = "fork" THEN "player" ELSE "list",
           title' \in Songs \cup {-1},
           progress_timer' \in BOOLEAN, progress_timer' => screen' = "player"
    PROVE  IndInv'
<1>1. /\ ProcTypeOK'
      /\ UNCHANGED <<proc, song, stopped>>
      /\ after' = ret
      /\ \/ /\ pc' = "poll" /\ player_pid # NoPid
            /\ UNCHANGED <<player_pid, state, current_progress>>
         \/ /\ pc' = ret /\ player_pid = NoPid /\ player_pid' = NoPid
            /\ state' = "STOP" /\ current_progress' = 0
  BY StopMusicEffect
<1>2. TypeOK /\ Control /\ NoOrphan /\ PidIsChild
  BY DEF IndInv
<1>3. Indices' = Indices /\ Songs' = Songs
  BY DEF Indices, Songs
<1>4. TypeOK'
  BY <1>1, <1>2, <1>3, CountAssumption, ProgressAssumption DEF TypeOK
<1>5. Control'
  BY <1>1, <1>2, <1>3 DEF Control, Stopping, Live
<1>6. NoOrphan' /\ PidIsChild'
  BY <1>1, <1>2 DEF NoOrphan, PidIsChild
<1>7. pc' # "idle"
  BY <1>1
<1> QED
  BY <1>4, <1>5, <1>6, <1>7 DEF IndInv, StateFitsPlayer, LiveIsSelected

\* The last segment of stop_music: the child is reaped, its pid forgotten.
LEMMA ReapInv ==
    ASSUME IndInv, Stopping, Reap(player_pid), StopReturns(after),
           UNCHANGED <<after, target, screenVars, music_count, current_index, play_mode>>
    PROVE  IndInv'
<1>1. TypeOK /\ Control /\ NoOrphan /\ PidIsChild /\ player_pid \in Pids
  BY DEF IndInv, Control, TypeOK
<1>2. /\ ProcTypeOK'
      /\ proc'[player_pid] = "free"
      /\ \A q \in Pids : q # player_pid => proc'[q] = proc[q]
      /\ UNCHANGED <<song, stopped, termed, killed>>
      /\ ~ Live(player_pid)
  BY <1>1, ReapEffect DEF TypeOK
<1>3. /\ player_pid' = NoPid /\ state' = "STOP" /\ current_progress' = 0
      /\ pc' = after /\ after' = after /\ target' = target
      /\ after \in {"fork", "leave"}
  BY <1>1 DEF StopReturns, TypeOK
<1>4. TypeOK'
  BY <1>1, <1>2, <1>3, ProgressAssumption DEF TypeOK, screenVars, Songs
<1>5. \A p \in Pids : proc'[p] = "free"
  BY <1>1, <1>2 DEF NoOrphan
<1>6. \A p \in stopped' : Live(p)'
  BY <1>1, <1>2 DEF Control, Live
<1>7. Control'
  BY <1>1, <1>3, <1>6 DEF Control, Stopping, screenVars, Indices
<1>8. NoOrphan' /\ PidIsChild'
  BY <1>3, <1>5 DEF NoOrphan, PidIsChild
<1> QED
  BY <1>3, <1>4, <1>7, <1>8 DEF IndInv, StateFitsPlayer, LiveIsSelected

-----------------------------------------------------------------------------
(* Each step keeps the invariant. *)

\* The handlers of the event loop.
LEMMA UserStepInv == ASSUME IndInv, UserStep PROVE IndInv'
<1>1. /\ TypeOK /\ Control /\ NoOrphan /\ PidIsChild /\ StateFitsPlayer
      /\ LiveIsSelected
  BY DEF IndInv
<1>2. music_count \in Nat /\ Indices \subseteq Songs /\ Songs \subseteq Int
  BY <1>1, CountAssumption DEF TypeOK, Songs, Indices
<1>3. ASSUME NEW n \in 0 .. MaxMusicCount, StartMusicApp(n) PROVE IndInv'
  <2>1. player_pid = NoPid /\ \A p \in Pids : proc[p] = "free"
    BY <1>1, <1>3, PidAssumption DEF StartMusicApp, Control, NoOrphan
  <2>2. UNCHANGED procVars /\ UNCHANGED uiVars /\ UNCHANGED current_progress
    BY <1>3 DEF StartMusicApp
  <2>3. TypeOK'
    <3>1. 0 \in Songs
      BY CountAssumption DEF Songs
    <3>2. ProcTypeOK'
      BY <1>1, <2>2 DEF TypeOK, ProcTypeOK, procVars, Songs
    <3>3. listed' \in -1 .. MaxMusicCount
      BY <1>1, <1>3, CountAssumption DEF TypeOK, StartMusicApp, Uncover
    <3> QED
      BY <1>1, <1>3, <2>2, <3>1, <3>2, <3>3 DEF TypeOK, uiVars, StartMusicApp, Uncover
  <2>4. \A p \in Pids : ~ Live(p)'
    BY <2>1, <2>2 DEF Live, LiveStates, procVars
  <2>5. Control'
    BY <1>1, <1>3, <2>2, <2>4, CountAssumption
    DEF Control, StartMusicApp, Uncover, Stopping, uiVars, procVars, Indices, Live
  <2>6. NoOrphan' /\ PidIsChild' /\ StateFitsPlayer' /\ LiveIsSelected'
    BY <1>3, <2>1, <2>2, <2>4
    DEF NoOrphan, PidIsChild, StateFitsPlayer, LiveIsSelected, StartMusicApp, procVars
  <2> QED
    BY <2>3, <2>5, <2>6 DEF IndInv
<1>4. ASSUME NEW i \in Songs, ListItem(i) PROVE IndInv'
  <2>1. music_count > 0 => i \in Indices
    BY <1>1, <1>2, <1>4 DEF ListItem, Control, Indices, Songs, TypeOK
  <2>2. CASE PlayMusic(i)
    BY <1>1, <1>2, <1>4, <2>1, <2>2, StopMusicInv DEF ListItem, PlayMusic
  <2>3. CASE i \notin Indices /\ UNCHANGED <<procVars, uiVars, player_pid, state,
                                            current_progress>>
    <3>1. music_count = 0 /\ player_pid = NoPid /\ music_count' = 0
      BY <1>1, <1>2, <1>4, <2>1, <2>3 DEF Control, ListItem
    <3>2. \A p \in Pids : proc[p] = "free" /\ ~ Live(p)
      BY <1>1, <3>1, PidAssumption DEF NoOrphan, Live, LiveStates
    <3>3. ProcTypeOK'
      BY <1>1, <2>3 DEF TypeOK, ProcTypeOK, procVars, Songs
    <3>4. TypeOK'
      BY <1>1, <1>4, <2>3, <3>3, CountAssumption DEF TypeOK, ListItem, uiVars, Songs
    <3>5. Control'
      BY <1>1, <1>4, <2>3, <3>1
      DEF Control, Stopping, ListItem, procVars, uiVars, Indices, Live
    <3>6. NoOrphan' /\ PidIsChild' /\ StateFitsPlayer' /\ LiveIsSelected'
      BY <1>1, <2>3, <3>1, <3>2
      DEF NoOrphan, PidIsChild, StateFitsPlayer, LiveIsSelected, procVars, uiVars, Live
    <3> QED
      BY <3>4, <3>5, <3>6 DEF IndInv
  <2> QED
    BY <1>4, <2>2, <2>3 DEF ListItem
<1>5. CASE SwipeRight
  <2>1. /\ current_index \in Songs
        /\ music_count > 0 => current_index \in Indices
        /\ target \in Songs /\ title \in Songs \cup {-1}
    BY <1>1, <1>5 DEF SwipeRight, Control, TypeOK
  <2> QED
    BY <1>5, <2>1, StopMusicInv DEF SwipeRight
<1>6. CASE Back
  <2>1. /\ UNCHANGED <<procVars, uiVars, playerVars>>
        /\ pc = "idle" /\ screen = "player" /\ screen' = "list"
        /\ progress_timer' = FALSE /\ title' = -1 /\ listed' = music_count
    BY <1>6 DEF Back
  <2>2. TypeOK'
    <3>1. listed' \in -1 .. MaxMusicCount
      BY <1>1, <2>1, CountAssumption DEF TypeOK
    <3> QED
      BY <1>1, <2>1, <3>1 DEF TypeOK, ProcTypeOK, procVars, uiVars, playerVars
  <2>3. Control'
    BY <1>1, <2>1 DEF Control, Stopping, procVars, uiVars, playerVars, Indices, Live
  <2>4. NoOrphan' /\ PidIsChild' /\ StateFitsPlayer' /\ LiveIsSelected'
    BY <1>1, <2>1
    DEF NoOrphan, PidIsChild, StateFitsPlayer, LiveIsSelected, procVars, uiVars,
        playerVars, Live
  <2> QED
    BY <2>2, <2>3, <2>4 DEF IndInv
<1>7. CASE PauseMusic
  <2>1. player_pid \in Pids /\ ProcTypeOK
    BY <1>1, <1>7 DEF PauseMusic, TypeOK
  <2>2. /\ ProcTypeOK' /\ UNCHANGED <<proc, song>>
        /\ stopped' = IF Live(player_pid) THEN stopped \cup {player_pid} ELSE stopped
    BY <1>7, <2>1, KillEffect DEF PauseMusic
  <2>3. TypeOK'
    BY <1>1, <1>7, <2>2 DEF TypeOK, PauseMusic, uiVars, screenVars, Songs
  <2>4. Control'
    BY <1>1, <1>7, <2>2
    DEF Control, Stopping, PauseMusic, uiVars, screenVars, Indices, Live
  <2>5. Live(player_pid) \/ proc[player_pid] = "zombie"
    BY <1>1, <1>7, <2>1 DEF PidIsChild, PauseMusic, ProcTypeOK, Live
  <2>6. StateFitsPlayer'
    BY <1>7, <2>2, <2>5 DEF StateFitsPlayer, PauseMusic, uiVars
  <2>7. NoOrphan' /\ PidIsChild' /\ LiveIsSelected'
    BY <1>1, <1>7, <2>2
    DEF NoOrphan, PidIsChild, LiveIsSelected, PauseMusic, uiVars, screenVars, Live
  <2> QED
    BY <2>3, <2>4, <2>6, <2>7 DEF IndInv
<1>8. CASE ResumeMusic
  <2>1. player_pid \in Pids /\ ProcTypeOK
    BY <1>1, <1>8 DEF ResumeMusic, TypeOK
  <2>2. /\ ProcTypeOK' /\ UNCHANGED <<proc, song>>
        /\ stopped' = IF Live(player_pid) THEN stopped \ {player_pid} ELSE stopped
    BY <1>8, <2>1, KillEffect DEF ResumeMusic
  <2>3. TypeOK'
    BY <1>1, <1>8, <2>2 DEF TypeOK, ResumeMusic, uiVars, screenVars, Songs
  <2>4. Control'
    BY <1>1, <1>8, <2>2
    DEF Control, Stopping, ResumeMusic, uiVars, screenVars, Indices, Live
  <2>5. player_pid \notin stopped'
    BY <1>1, <2>2 DEF Control
  <2>6. StateFitsPlayer'
    BY <1>8, <2>5 DEF StateFitsPlayer, ResumeMusic, uiVars
  <2>7. NoOrphan' /\ PidIsChild' /\ LiveIsSelected'
    BY <1>1, <1>8, <2>2
    DEF NoOrphan, PidIsChild, LiveIsSelected, ResumeMusic, uiVars, screenVars, Live
  <2> QED
    BY <2>3, <2>4, <2>6, <2>7 DEF IndInv
<1>9. ASSUME NEW i \in Indices, PlayMusic(i), pc = "idle", screen = "player",
             UNCHANGED <<screenVars, music_count, current_index, play_mode>>
      PROVE  IndInv'
  <2>1. /\ current_index \in Songs
        /\ music_count > 0 => current_index \in Indices
        /\ title \in Songs \cup {-1} /\ progress_timer \in BOOLEAN
    BY <1>1, <1>9 DEF Control, TypeOK
  <2> QED
    BY <1>2, <1>9, <2>1, StopMusicInv DEF PlayMusic, screenVars
<1>10. CASE PlayCurrent
  <2>1. current_index \in Indices
    BY <1>1, <1>10 DEF PlayCurrent, Control
  <2> QED
    BY <1>9, <1>10, <2>1 DEF PlayCurrent
<1>11. CASE NextMusic
  BY <1>9, <1>11 DEF NextMusic, PlayMusic
<1>12. CASE PrevMusic
  BY <1>9, <1>12 DEF PrevMusic, PlayMusic
<1>13. CASE TogglePlayMode
  <2>1. /\ UNCHANGED <<procVars, uiVars, screenVars, music_count, current_index,
                       state, player_pid, current_progress>>
        /\ play_mode' \in {"SEQUENCE", "RANDOM"}
    BY <1>13 DEF TogglePlayMode
  <2>2. TypeOK'
    BY <1>1, <2>1 DEF TypeOK, ProcTypeOK, procVars, uiVars, screenVars, Songs
  <2>3. Control'
    BY <1>1, <2>1 DEF Control, Stopping, procVars, uiVars, screenVars, Indices, Live
  <2>4. NoOrphan' /\ PidIsChild' /\ StateFitsPlayer' /\ LiveIsSelected'
    BY <1>1, <2>1
    DEF NoOrphan, PidIsChild, StateFitsPlayer, LiveIsSelected, procVars, uiVars,
        screenVars, Live
  <2> QED
    BY <2>2, <2>3, <2>4 DEF IndInv
<1>14. CASE StartGallery
  <2>1. /\ UNCHANGED <<procVars, uiVars, playerVars, progress_timer, title>>
        /\ pc = "idle" /\ screen = "away"
        /\ screen' \in {"away", "list"} /\ listed' \in {-1, listed}
    BY <1>14 DEF StartGallery, Uncover
  <2>2. player_pid = NoPid /\ ~ progress_timer
    BY <1>1, <2>1 DEF Control
  <2>3. \A p \in Pids : proc[p] = "free" /\ ~ Live(p)
    BY <1>1, <2>2, PidAssumption DEF NoOrphan, Live, LiveStates
  <2>4. TypeOK'
    BY <1>1, <2>1, CountAssumption DEF TypeOK, ProcTypeOK, procVars, uiVars, playerVars, Songs
  <2>5. Control'
    BY <1>1, <2>1, <2>2 DEF Control, Stopping, procVars, uiVars, playerVars, Indices, Live
  <2>6. NoOrphan' /\ PidIsChild' /\ StateFitsPlayer' /\ LiveIsSelected'
    BY <1>1, <2>1, <2>3
    DEF NoOrphan, PidIsChild, StateFitsPlayer, LiveIsSelected, procVars, uiVars, playerVars, Live
  <2> QED
    BY <2>4, <2>5, <2>6 DEF IndInv
<1> QED
  BY <1>3, <1>4, <1>5, <1>6, <1>7, <1>8, <1>10, <1>11, <1>12, <1>13, <1>14 DEF UserStep

\* The segments of a handler that has begun.
LEMMA HandlerStepInv == ASSUME IndInv, HandlerStep PROVE IndInv'
<1>1. /\ TypeOK /\ Control /\ NoOrphan /\ PidIsChild /\ StateFitsPlayer
      /\ LiveIsSelected
  BY DEF IndInv
<1>2. ASSUME Live(player_pid), pc' \in {"poll_again", "reap"}, Stopping,
             ProcTypeOK', UNCHANGED <<proc, song, stopped>>,
             UNCHANGED <<player_pid, state, current_progress>>,
             UNCHANGED <<after, target, screenVars, music_count, current_index, play_mode>>
      PROVE  IndInv'
  <2>1. TypeOK'
    BY <1>1, <1>2 DEF TypeOK, screenVars, Songs
  <2>2. Control'
    BY <1>1, <1>2 DEF Control, Stopping, screenVars, Indices, Live
  <2>3. NoOrphan' /\ PidIsChild'
    BY <1>1, <1>2 DEF NoOrphan, PidIsChild
  <2> QED
    BY <1>2, <2>1, <2>2, <2>3 DEF IndInv, StateFitsPlayer, LiveIsSelected
<1>3. CASE Poll
  <2>1. CASE Live(player_pid) /\ pc' = "poll_again"
             /\ UNCHANGED <<procVars, player_pid, state, current_progress>>
    BY <1>1, <1>2, <1>3, <2>1 DEF Poll, Stopping, procVars, ProcTypeOK, TypeOK
  <2>2. CASE Reap(player_pid) /\ StopReturns(after)
    BY <1>3, <2>2, ReapInv DEF Poll, Stopping
  <2> QED
    BY <1>3, <2>1, <2>2 DEF Poll
<1>4. CASE PollAgain
  <2>1. CASE Live(player_pid) /\ Kill(player_pid, "KILL") /\ pc' = "reap"
             /\ UNCHANGED <<player_pid, state, current_progress>>
    <3>1. player_pid \in Pids /\ ProcTypeOK
      BY <1>1, <2>1 DEF TypeOK, Live
    <3>2. ProcTypeOK' /\ UNCHANGED <<proc, song, stopped>>
      BY <2>1, <3>1, KillEffect
    <3> QED
      BY <1>2, <1>4, <2>1, <3>2 DEF PollAgain, Stopping
  <2>2. CASE Reap(player_pid) /\ StopReturns(after)
    BY <1>4, <2>2, ReapInv DEF PollAgain, Stopping
  <2> QED
    BY <1>4, <2>1, <2>2 DEF PollAgain
<1>5. CASE WaitKilled
  BY <1>5, ReapInv DEF WaitKilled, Stopping
<1>6. ASSUME NEW p \in Pids, ForkPlayer(p) PROVE IndInv'
  <2>1. /\ pc = "fork" /\ pc' = "idle" /\ current_index' = target
        /\ current_progress' = 0 /\ player_pid' = p /\ state' = "PLAYING"
        /\ proc' = [proc EXCEPT ![p] = "forked"]
        /\ song' = [song EXCEPT ![p] = target]
        /\ UNCHANGED <<stopped, termed, killed>>
        /\ UNCHANGED <<after, target, screen, progress_timer, listed, music_count, play_mode>>
        /\ title' = IF screen = "player" THEN target ELSE title
    BY <1>6 DEF ForkPlayer, Selected, Fork
  <2>2. /\ player_pid = NoPid /\ screen = "player" /\ target \in Indices
        /\ target \in Songs /\ music_count > 0
    BY <1>1, <2>1, CountAssumption DEF Control, TypeOK, Indices
  <2>3. \A q \in Pids : proc[q] = "free" /\ ~ Live(q)
    BY <1>1, <2>2, PidAssumption DEF NoOrphan, Live, LiveStates
  <2>4. stopped = {}
    BY <1>1, <2>3 DEF Control, TypeOK, ProcTypeOK
  <2>5. /\ proc'[p] = "forked" /\ song'[p] = target
        /\ \A q \in Pids : q # p => proc'[q] = "free"
    BY <1>1, <2>1, <2>3 DEF TypeOK, ProcTypeOK
  <2>6. TypeOK'
    BY <1>1, <2>1, <2>2, ProgressAssumption DEF TypeOK, ProcTypeOK, LiveStates, Songs
  <2>7. Control'
    BY <1>1, <2>1, <2>2, <2>4 DEF Control, Stopping, Indices
  <2>8. NoOrphan' /\ PidIsChild' /\ StateFitsPlayer'
    BY <2>1, <2>4, <2>5, PidAssumption DEF NoOrphan, PidIsChild, StateFitsPlayer
  <2>9. LiveIsSelected'
    BY <2>1, <2>2, <2>5 DEF LiveIsSelected, Live, LiveStates
  <2> QED
    BY <2>6, <2>7, <2>8, <2>9 DEF IndInv
<1>7. CASE ForkFails
  <2>1. /\ pc = "fork" /\ pc' = "idle" /\ current_index' = target
        /\ current_progress' = 0 /\ state' = "STOP"
        /\ UNCHANGED <<procVars, after, target, screenVars, music_count, play_mode,
                       player_pid>>
    BY <1>7 DEF ForkFails, Selected
  <2>2. /\ player_pid = NoPid /\ screen = "player" /\ target \in Indices
        /\ target \in Songs
    BY <1>1, <2>1 DEF Control, TypeOK
  <2>3. \A q \in Pids : proc[q] = "free" /\ ~ Live(q)
    BY <1>1, <2>2, PidAssumption DEF NoOrphan, Live, LiveStates
  <2>4. TypeOK'
    BY <1>1, <2>1, <2>2, ProgressAssumption
    DEF TypeOK, ProcTypeOK, procVars, screenVars, Songs
  <2>5. Control'
    BY <1>1, <2>1, <2>2 DEF Control, Stopping, Indices, procVars, screenVars, Live
  <2>6. NoOrphan' /\ PidIsChild' /\ StateFitsPlayer' /\ LiveIsSelected'
    BY <2>1, <2>2, <2>3
    DEF NoOrphan, PidIsChild, StateFitsPlayer, LiveIsSelected, procVars, Live
  <2> QED
    BY <2>4, <2>5, <2>6 DEF IndInv
<1>8. CASE Leave
  <2>1. /\ pc = "leave" /\ pc' = "idle" /\ screen' = "away" /\ title' = -1
        /\ state' = "STOP" /\ player_pid' = NoPid /\ current_progress' = 0
        /\ UNCHANGED <<procVars, after, target, progress_timer, listed, music_count,
                       current_index, play_mode>>
    BY <1>8 DEF Leave
  <2>2. player_pid = NoPid /\ screen = "list" /\ ~ progress_timer
    BY <1>1, <2>1 DEF Control, TypeOK
  <2>3. \A q \in Pids : proc[q] = "free" /\ ~ Live(q)
    BY <1>1, <2>2, PidAssumption DEF NoOrphan, Live, LiveStates
  <2>4. TypeOK'
    BY <1>1, <2>1, ProgressAssumption DEF TypeOK, ProcTypeOK, procVars, Songs
  <2>5. Control'
    BY <1>1, <2>1, <2>2 DEF Control, Stopping, Indices, procVars, Live
  <2>6. NoOrphan' /\ PidIsChild' /\ StateFitsPlayer' /\ LiveIsSelected'
    BY <2>1, <2>2, <2>3
    DEF NoOrphan, PidIsChild, StateFitsPlayer, LiveIsSelected, procVars, Live
  <2> QED
    BY <2>4, <2>5, <2>6 DEF IndInv
<1> QED
  BY <1>3, <1>4, <1>5, <1>6, <1>7, <1>8 DEF HandlerStep

\* The progress timer.
LEMMA TickInv == ASSUME IndInv, TickEnded \/ TickAdvances PROVE IndInv'
<1>1. /\ TypeOK /\ Control /\ NoOrphan /\ PidIsChild /\ StateFitsPlayer
      /\ LiveIsSelected
  BY DEF IndInv
<1>2. CASE TickEnded
  <2>1. PICK i \in Indices : target' = i
    BY <1>2 DEF TickEnded
  <2>2. /\ player_pid \in Pids /\ screen = "player" /\ target' \in Indices
        /\ target' \in Songs
    BY <1>1, <1>2, <2>1, CountAssumption
    DEF TickEnded, TypeOK, Control, Indices, Songs
  <2>3. /\ ProcTypeOK'
        /\ proc'[player_pid] = "free"
        /\ \A q \in Pids : q # player_pid => proc'[q] = proc[q]
        /\ UNCHANGED <<song, stopped>>
    BY <1>1, <1>2, <2>2, ReapEffect DEF TickEnded, TypeOK
  <2>4. /\ player_pid' = NoPid /\ state' = "STOP" /\ current_progress' = 0
        /\ pc' = "fork" /\ after' = "fork"
        /\ UNCHANGED <<screenVars, music_count, current_index, play_mode>>
    BY <1>2 DEF TickEnded, StopReturns
  <2>5. \A p \in Pids : proc'[p] = "free"
    BY <1>1, <2>3 DEF NoOrphan
  <2>6. TypeOK'
    BY <1>1, <2>2, <2>3, <2>4, ProgressAssumption DEF TypeOK, screenVars, Songs
  <2>7. \A p \in stopped' : Live(p)'
    BY <1>1, <1>2, <2>3 DEF Control, Live, TickEnded, LiveStates
  <2>8. Control'
    BY <1>1, <2>2, <2>4, <2>7 DEF Control, Stopping, screenVars, Indices
  <2>9. NoOrphan' /\ PidIsChild' /\ StateFitsPlayer' /\ LiveIsSelected'
    BY <2>4, <2>5 DEF NoOrphan, PidIsChild, StateFitsPlayer, LiveIsSelected
  <2> QED
    BY <2>6, <2>8, <2>9 DEF IndInv
<1>3. CASE TickAdvances
  <2>1. /\ UNCHANGED <<procVars, uiVars, screenVars, music_count, current_index,
                       play_mode, state, player_pid>>
        /\ current_progress' \in 0 .. MaxProgress
    BY <1>1, <1>3, ProgressAssumption DEF TickAdvances, TypeOK
  <2>2. TypeOK'
    BY <1>1, <2>1 DEF TypeOK, ProcTypeOK, procVars, uiVars, screenVars, Songs
  <2>3. Control'
    BY <1>1, <2>1 DEF Control, Stopping, procVars, uiVars, screenVars, Indices, Live
  <2>4. NoOrphan' /\ PidIsChild' /\ StateFitsPlayer' /\ LiveIsSelected'
    BY <1>1, <2>1
    DEF NoOrphan, PidIsChild, StateFitsPlayer, LiveIsSelected, procVars, uiVars,
        screenVars, Live
  <2> QED
    BY <2>2, <2>3, <2>4 DEF IndInv
<1> QED
  BY <1>2, <1>3

\* The children.
LEMMA ChildStepsInv == ASSUME IndInv, ChildSteps PROVE IndInv'
<1>1. /\ TypeOK /\ Control /\ NoOrphan /\ PidIsChild /\ StateFitsPlayer
      /\ LiveIsSelected
  BY DEF IndInv
<1>2. PICK p \in Pids : ChildStep(p)
  BY DEF ChildSteps, ByChild
<1>3. UNCHANGED <<uiVars, screenVars, playerVars>>
  BY DEF ChildSteps, ByChild
<1>4. /\ ProcTypeOK'
      /\ Live(p)
      /\ UNCHANGED song
      /\ \A q \in Pids : q # p => proc'[q] = proc[q]
      /\ \/ proc'[p] = "playing" /\ UNCHANGED stopped
         \/ proc'[p] = "zombie" /\ stopped' = stopped \ {p}
  BY <1>1, <1>2, ChildEffect DEF TypeOK
<1>5. p = player_pid
  BY <1>1, <1>4 DEF NoOrphan, Live, LiveStates
<1>6. TypeOK'
  BY <1>1, <1>3, <1>4 DEF TypeOK, uiVars, screenVars, playerVars, Songs
<1>7. \A q \in stopped' : Live(q)'
  BY <1>1, <1>4 DEF Control, Live, LiveStates
<1>8. Control'
  BY <1>1, <1>3, <1>7 DEF Control, Stopping, uiVars, screenVars, playerVars, Indices
<1>9. NoOrphan' /\ PidIsChild'
  BY <1>1, <1>3, <1>4, <1>5 DEF NoOrphan, PidIsChild, playerVars
<1>10. StateFitsPlayer'
  <2>1. UNCHANGED <<pc, state, player_pid>>
    BY <1>3 DEF uiVars, playerVars
  <2>2. CASE proc'[p] = "playing" /\ UNCHANGED stopped
    <3>1. proc[player_pid] # "zombie"
      BY <1>4, <1>5 DEF Live, LiveStates
    <3> QED
      BY <1>1, <2>1, <2>2, <3>1 DEF StateFitsPlayer
  <2>3. CASE proc'[p] = "zombie" /\ stopped' = stopped \ {p}
    BY <1>1, <1>5, <2>1, <2>3 DEF StateFitsPlayer
  <2> QED
    BY <1>4, <2>2, <2>3
<1>11. LiveIsSelected'
  <2>1. \A q \in Pids : Live(q)' => Live(q)
    BY <1>4 DEF Live
  <2> QED
    BY <1>1, <1>3, <1>4, <2>1 DEF LiveIsSelected, uiVars, screenVars, playerVars
<1> QED
  BY <1>6, <1>8, <1>9, <1>10, <1>11 DEF IndInv

\* Every step of the specification.
LEMMA NextInv == IndInv /\ [Next]_vars => IndInv'
<1> SUFFICES ASSUME IndInv, [Next]_vars PROVE IndInv'
  OBVIOUS
<1>1. CASE UNCHANGED vars
  <2>1. UNCHANGED <<procVars, uiVars, screenVars, playerVars>>
    BY <1>1 DEF vars
  <2> QED
    BY <2>1
    DEF IndInv, TypeOK, ProcTypeOK, Control, NoOrphan, PidIsChild, StateFitsPlayer,
        LiveIsSelected, Stopping, Indices, Live, Songs, procVars, uiVars, screenVars,
        playerVars
<1> QED
  BY <1>1, UserStepInv, HandlerStepInv, TickInv, ChildStepsInv DEF Next

-----------------------------------------------------------------------------
(* The theorems. *)

\* IndInv holds in every reachable state.
THEOREM Invariance == Spec => []IndInv
  BY InitInv, NextInv, PTL DEF Spec

\* Type correctness of kugou_music.c's state and of the process table.
THEOREM TypeCorrect == Spec => []TypeOK
<1>1. IndInv => TypeOK
  BY DEF IndInv
<1> QED
  BY <1>1, Invariance, PTL

\* Outside the application no child and no timer is left.
THEOREM QuietOutside == Spec => []QuietOutsideApp
<1>1. IndInv => QuietOutsideApp
  BY PidAssumption DEF IndInv, Control, NoOrphan, QuietOutsideApp
<1> QED
  BY <1>1, Invariance, PTL

\* play_music, stop_music and the memset of init_music_player never lose a child, and
\* kill and waitpid are never given a pid that has been reaped already.
THEOREM PlayerHasOwner == Spec => []PlayerIsOwned
<1>1. IndInv /\ QuietOutsideApp => PlayerIsOwned
  BY DEF IndInv, PlayerIsOwned
<1> QED
  BY <1>1, Invariance, QuietOutside, PTL

\* In the event loop the player's state agrees with its child.
THEOREM StateAgrees == Spec => []StateFitsPlayer
<1>1. IndInv => StateFitsPlayer
  BY DEF IndInv
<1> QED
  BY <1>1, Invariance, PTL

\* In the event loop the child plays the selected song, the one on the screen.
THEOREM SelectionAgrees == Spec => []LiveIsSelected
<1>1. IndInv => LiveIsSelected
  BY DEF IndInv
<1> QED
  BY <1>1, Invariance, PTL

\* The play list is only read inside its bounds.
THEOREM ListIsReadInBounds == Spec => []IndexInList
<1>1. IndInv => IndexInList
  BY DEF IndInv, TypeOK, Control, IndexInList
<1> QED
  BY <1>1, Invariance, PTL

\* The progress counter starts from zero with every new player.
THEOREM SongsStartAtZero == Spec => EverySongFromZero
<1>1. IndInv /\ [Next]_vars => [player_pid' # player_pid => current_progress' = 0]_vars
  <2> SUFFICES ASSUME IndInv, [Next]_vars, player_pid' # player_pid
               PROVE  current_progress' = 0
    OBVIOUS
  <2>1. ASSUME NEW ret, StopMusic(ret) PROVE current_progress' = 0
    BY <2>1 DEF StopMusic, StopReturns
  <2>2. screen = "away" => player_pid = NoPid
    BY DEF IndInv, Control
  <2>3. CASE UserStep
    BY <2>1, <2>2, <2>3
    DEF UserStep, StartMusicApp, StartGallery, ListItem, SwipeRight, Back, PauseMusic, ResumeMusic,
        PlayCurrent, NextMusic, PrevMusic, TogglePlayMode, PlayMusic, playerVars
  <2>4. CASE HandlerStep
    BY <2>4
    DEF HandlerStep, Poll, PollAgain, WaitKilled, ForkPlayer, ForkFails, Selected,
        Leave, StopReturns
  <2>5. CASE TickEnded \/ TickAdvances
    BY <2>5 DEF TickEnded, TickAdvances, StopReturns
  <2>6. CASE ChildSteps \/ UNCHANGED vars
    BY <2>6 DEF ChildSteps, ByChild, playerVars, vars
  <2> QED
    BY <2>3, <2>4, <2>5, <2>6 DEF Next
<1> QED
  BY <1>1, Invariance, PTL DEF Spec, EverySongFromZero

\* A second is only ever added for a child that lives and is not held: the tick
\* tests state alone, and the invariant turns that into a fact about the child.
THEOREM SecondsAreHeard == Spec => SecondsOfLivingSong
<1>1. IndInv /\ [Next]_vars =>
          [current_progress' > current_progress =>
               Live(player_pid) /\ player_pid \notin stopped]_vars
  <2> SUFFICES ASSUME IndInv, [Next]_vars, current_progress' > current_progress
               PROVE  Live(player_pid) /\ player_pid \notin stopped
    OBVIOUS
  <2>1. current_progress \in Nat
    BY ProgressAssumption DEF IndInv, TypeOK
  <2>2. current_progress' # 0 /\ current_progress' # current_progress
    BY <2>1
  <2>3. \A ret : ~ StopMusic(ret) /\ ~ StopReturns(ret)
    BY <2>2 DEF StopMusic, StopReturns
  <2>4. ~ UserStep
    BY <2>2, <2>3
    DEF UserStep, StartMusicApp, StartGallery, ListItem, SwipeRight, Back, PauseMusic, ResumeMusic,
        PlayCurrent, NextMusic, PrevMusic, TogglePlayMode, PlayMusic, playerVars
  <2>5. ~ HandlerStep
    BY <2>2, <2>3
    DEF HandlerStep, Poll, PollAgain, WaitKilled, ForkPlayer, ForkFails, Selected, Leave
  <2>6. TickAdvances
    BY <2>2, <2>3, <2>4, <2>5 DEF Next, TickEnded, ChildSteps, ByChild, playerVars, vars
  <2>7. player_pid \in Pids /\ player_pid \notin stopped
    BY <2>6 DEF TickAdvances, IndInv, StateFitsPlayer, TypeOK
  <2>8. proc[player_pid] \notin {"zombie", "free"}
    BY <2>6, <2>7, PidAssumption DEF TickAdvances, IndInv, PidIsChild
  <2> QED
    BY <2>7, <2>8 DEF IndInv, TypeOK, ProcTypeOK, Live
<1> QED
  BY <1>1, Invariance, PTL DEF Spec, SecondsOfLivingSong

-----------------------------------------------------------------------------
(* The application implements Jukebox. *)

\* Init maps to Init, and every step to a step of the jukebox or to a stutter.
THEOREM OneVoiceAtATime == Spec => OneVoice
<1>1. Init => Abstract!Init
  BY DEF Init, ProcInit, Abstract!Init, Voices, Live, LiveStates
<1>2. IndInv /\ IndInv' /\ [Next]_vars => [Abstract!Next]_Voices
  <2> SUFFICES ASSUME IndInv, IndInv', [Next]_vars PROVE [Abstract!Next]_Voices
    OBVIOUS
  <2>1. Voices = IF Live(player_pid)
                 THEN {[player |-> player_pid, song |-> song[player_pid],
                        is |-> IF player_pid \in stopped THEN "held" ELSE "sounds"]}
                 ELSE {}
    <3>1. {q \in Pids : Live(q)} = IF Live(player_pid) THEN {player_pid} ELSE {}
      BY DEF Live, LiveStates, IndInv, NoOrphan
    <3> QED
      BY <3>1 DEF Voices
  <2>2. Voices' = IF Live(player_pid)'
                  THEN {[player |-> player_pid', song |-> song'[player_pid'],
                         is |-> IF player_pid' \in stopped' THEN "held" ELSE "sounds"]}
                  ELSE {}
    <3>1. {q \in Pids : Live(q)'} = IF Live(player_pid)' THEN {player_pid'} ELSE {}
      BY DEF Live, LiveStates, IndInv, NoOrphan
    <3> QED
      BY <3>1 DEF Voices
  <2>3. TypeOK /\ Control /\ StateFitsPlayer /\ player_pid \in Pids \cup {NoPid}
    BY DEF IndInv, TypeOK
  <2>4. ASSUME UNCHANGED <<proc, song, stopped>> PROVE Voices' = Voices
    BY <2>4 DEF Voices, Live
  <2>5. ASSUME NEW ret \in {"fork", "leave"}, StopMusic(ret) PROVE Voices' = Voices
    BY <2>4, <2>5, StopMusicEffect
  <2>6. ASSUME Reap(player_pid), player_pid' = NoPid PROVE Voices' = Voices
    BY <2>1, <2>2, <2>6, PidAssumption DEF Reap, Live
  <2>7. CASE PauseMusic
    <3>1. /\ player_pid \in Pids /\ player_pid' = player_pid
          /\ player_pid \notin stopped
      BY <2>3, <2>7 DEF PauseMusic, StateFitsPlayer
    <3>2. /\ UNCHANGED <<proc, song>>
          /\ stopped' = IF Live(player_pid) THEN stopped \cup {player_pid} ELSE stopped
      BY <2>3, <2>7, <3>1, KillEffect DEF PauseMusic, TypeOK
    <3>3. CASE Live(player_pid)
      <4>1. song[player_pid] \in Songs /\ Live(player_pid)'
        BY <2>3, <3>1, <3>2, <3>3 DEF TypeOK, ProcTypeOK, Live
      <4>2. /\ Voices = {Abstract!Voice(player_pid, song[player_pid], "sounds")}
            /\ Voices' = {Abstract!Voice(player_pid, song[player_pid], "held")}
        BY <2>1, <2>2, <3>1, <3>2, <3>3, <4>1 DEF Abstract!Voice
      <4> QED
        BY <3>1, <4>1, <4>2 DEF Abstract!Next, Abstract!Hold
    <3>4. CASE ~ Live(player_pid)
      BY <2>4, <3>2, <3>4
    <3> QED
      BY <3>3, <3>4
  <2>8. CASE ResumeMusic
    <3>1. player_pid \in Pids /\ player_pid' = player_pid
      BY <2>3, <2>8 DEF ResumeMusic
    <3>2. /\ UNCHANGED <<proc, song>>
          /\ stopped' = IF Live(player_pid) THEN stopped \ {player_pid} ELSE stopped
      BY <2>3, <2>8, <3>1, KillEffect DEF ResumeMusic, TypeOK
    <3>3. CASE Live(player_pid)
      <4>1. song[player_pid] \in Songs /\ Live(player_pid)'
        BY <2>3, <3>1, <3>2, <3>3 DEF TypeOK, ProcTypeOK, Live
      <4>2. player_pid \in stopped
        BY <2>3, <2>8, <3>3 DEF ResumeMusic, StateFitsPlayer, Live, LiveStates
      <4>3. /\ Voices = {Abstract!Voice(player_pid, song[player_pid], "held")}
            /\ Voices' = {Abstract!Voice(player_pid, song[player_pid], "sounds")}
        BY <2>1, <2>2, <3>1, <3>2, <3>3, <4>1, <4>2 DEF Abstract!Voice
      <4> QED
        BY <3>1, <4>1, <4>3 DEF Abstract!Next, Abstract!Continue
    <3>4. CASE ~ Live(player_pid)
      BY <2>4, <3>2, <3>4
    <3> QED
      BY <3>3, <3>4
  <2>9. CASE UserStep /\ ~ PauseMusic /\ ~ ResumeMusic
    <3>1. CASE \E ret \in {"fork", "leave"} : StopMusic(ret)
      BY <2>5, <3>1
    <3>2. CASE UNCHANGED procVars
      BY <2>4, <3>2 DEF procVars
    <3> QED
      BY <2>9, <3>1, <3>2
      DEF UserStep, StartMusicApp, StartGallery, ListItem, SwipeRight, Back, PlayCurrent, NextMusic,
          PrevMusic, TogglePlayMode, PlayMusic
  <2>10. ASSUME NEW p \in Pids, ForkPlayer(p) PROVE Abstract!Next
    <3>1. /\ player_pid = NoPid /\ player_pid' = p /\ target \in Songs
          /\ proc' = [proc EXCEPT ![p] = "forked"]
          /\ song' = [song EXCEPT ![p] = target] /\ stopped' = stopped
      BY <2>3, <2>10 DEF ForkPlayer, Fork, Selected, Control, TypeOK
    <3>2. Voices = {} /\ p \notin stopped
      BY <2>1, <2>3, <2>10, <3>1, PidAssumption
      DEF Live, Control, ForkPlayer, Fork, LiveStates
    <3>3. proc'[p] = "forked" /\ song'[p] = target
      BY <2>3, <3>1 DEF TypeOK, ProcTypeOK
    <3>4. Voices' = {Abstract!Voice(p, target, "sounds")}
      BY <2>2, <3>1, <3>2, <3>3 DEF Live, LiveStates, Abstract!Voice
    <3> QED
      BY <3>1, <3>2, <3>4 DEF Abstract!Next, Abstract!Start
  <2>11. CASE Poll \/ PollAgain \/ WaitKilled
    <3>1. CASE Reap(player_pid) /\ StopReturns(after)
      BY <2>6, <3>1 DEF StopReturns
    <3>2. CASE Live(player_pid) /\ Kill(player_pid, "KILL")
      BY <2>3, <2>4, <3>2, KillEffect DEF Live, TypeOK
    <3>3. CASE UNCHANGED procVars
      BY <2>4, <3>3 DEF procVars
    <3> QED
      BY <2>11, <3>1, <3>2, <3>3 DEF Poll, PollAgain, WaitKilled
  <2>12. CASE ForkFails \/ Leave
    BY <2>4, <2>12 DEF ForkFails, Leave, procVars
  <2>13. CASE TickEnded \/ TickAdvances
    BY <2>4, <2>6, <2>13 DEF TickEnded, TickAdvances, StopReturns, procVars
  <2>14. CASE ChildSteps
    <3>1. PICK p \in Pids : ChildStep(p)
      BY <2>14 DEF ChildSteps, ByChild
    <3>2. player_pid' = player_pid
      BY <2>14 DEF ChildSteps, ByChild, playerVars
    <3>3. /\ Live(p) /\ UNCHANGED song
          /\ \/ proc'[p] = "playing" /\ UNCHANGED stopped
             \/ proc'[p] = "zombie" /\ stopped' = stopped \ {p}
      BY <2>3, <3>1, ChildEffect DEF TypeOK
    <3>4. p = player_pid
      BY <3>3 DEF IndInv, NoOrphan, Live, LiveStates
    <3>5. CASE proc'[p] = "playing" /\ UNCHANGED stopped
      BY <2>1, <2>2, <3>2, <3>3, <3>4, <3>5 DEF Live, LiveStates
    <3>6. CASE proc'[p] = "zombie"
      BY <2>1, <2>2, <3>2, <3>3, <3>4, <3>6
      DEF Live, LiveStates, Abstract!Next, Abstract!Silence
    <3> QED
      BY <3>3, <3>5, <3>6
  <2>15. CASE UNCHANGED vars
    BY <2>4, <2>15 DEF vars, procVars
  <2> QED
    BY <2>7, <2>8, <2>9, <2>10, <2>11, <2>12, <2>13, <2>14, <2>15
    DEF Next, HandlerStep
<1> QED
  BY <1>1, <1>2, Invariance, PTL DEF Spec, OneVoice, Abstract!Spec

\* With the list that is left below the desktop, the two windows of the application follow
\* each other only the way the map of the whole program says.
THEOREM PlayerFollowsMap == Spec => FollowsMap
<1> USE DEF Map!View
<1>1. Init => Map!Init
  BY DEF Init, Map!Init
<1>2. IndInv /\ [Next]_vars => [Map!Next]_screen
  <2> SUFFICES ASSUME IndInv, [Next]_vars, screen' # screen
               PROVE  \E way \in Map!Ways : screen = Map!View(way[1]) /\ screen' = Map!View(way[2])
    BY DEF Map!Next
  <2>1. \/ screen = "away" /\ screen' = "list"
        \/ screen = "list" /\ screen' = "player"
        \/ screen = "list" /\ screen' = "away"
        \/ screen = "player" /\ screen' = "list"
    <3>1. CASE UserStep
      BY <3>1
      DEF UserStep, StartMusicApp, StartGallery, Uncover, ListItem, SwipeRight, Back, PauseMusic,
          ResumeMusic, PlayCurrent, NextMusic, PrevMusic, TogglePlayMode, screenVars
    <3>2. CASE HandlerStep
      BY <3>2
      DEF HandlerStep, Poll, PollAgain, WaitKilled, ForkPlayer, ForkFails, Leave, screenVars,
          IndInv, Control
    <3>3. CASE TickEnded \/ TickAdvances \/ ChildSteps \/ UNCHANGED vars
      BY <3>3 DEF TickEnded, TickAdvances, ChildSteps, ByChild, screenVars, vars
    <3> QED
      BY <3>1, <3>2, <3>3 DEF Next
  <2>2. /\ <<"desktop", "list">> \in Map!Ways /\ <<"list", "desktop">> \in Map!Ways
        /\ <<"list", "player">> \in Map!Ways /\ <<"player", "list">> \in Map!Ways
    BY DEF Map!Ways
  <2> QED
    BY <2>1, <2>2
<1> QED
  BY <1>1, <1>2, Invariance, PTL DEF Spec, FollowsMap, Map!Spec

-----------------------------------------------------------------------------
(* The guards behind NobodyIsStuck. *)

\* waitpid blocks only on a child that SIGKILL is on its way to, and a song that has ended
\* leaves a zombie to reap and a next index that play_music does not refuse.
WayOn ==
    /\ pc = "reap" /\ Live(player_pid) => player_pid \in killed
    /\ EndIsDue => proc[player_pid] = "zombie" /\ NextIndices \cap Indices # {}

KillIsPending == pc = "reap" /\ Live(player_pid) => player_pid \in killed

LEMMA KillStaysPending == Spec => []KillIsPending
<1>1. Init => KillIsPending
  BY DEF Init, KillIsPending
<1>2. ASSUME IndInv, KillIsPending, [Next]_vars PROVE KillIsPending'
  <2> USE DEF KillIsPending
  <2>1. CASE UserStep \/ TickEnded \/ TickAdvances
    <3>1. pc' # "reap"
      BY <2>1 DEF UserStep, StartMusicApp, StartGallery, ListItem, SwipeRight, Back, PauseMusic,
         ResumeMusic, PlayCurrent, NextMusic, PrevMusic, TogglePlayMode, TickEnded, TickAdvances, PlayMusic,
         StopMusic, StopReturns, uiVars
    <3> QED BY <3>1
  <2>2. CASE PollAgain
    <3>1. CASE Live(player_pid) /\ Kill(player_pid, "KILL") /\ UNCHANGED player_pid
      BY <1>2, <3>1, KillEffect DEF IndInv, TypeOK, Kill, Live
    <3>2. CASE StopReturns(after)
      BY <1>2, <3>2 DEF StopReturns, IndInv, TypeOK
    <3> QED BY <2>2, <3>1, <3>2 DEF PollAgain
  <2>3. CASE Poll \/ WaitKilled \/ (\E p \in Pids : ForkPlayer(p)) \/ ForkFails \/ Leave
    <3>1. pc' # "reap"
      BY <1>2, <2>3 DEF Poll, WaitKilled, ForkPlayer, ForkFails, Leave, Selected, StopReturns, IndInv,
                  TypeOK
    <3> QED BY <3>1
  <2>4. CASE ChildSteps
    <3>1. PICK p \in Pids : ChildStep(p)
      BY <2>4 DEF ChildSteps, ByChild
    <3>2. UNCHANGED <<pc, player_pid>>
      BY <2>4 DEF ChildSteps, ByChild, uiVars, playerVars
    <3>3. proc \in [Pids -> {"free", "zombie"} \cup LiveStates]
      BY <1>2 DEF IndInv, TypeOK, ProcTypeOK
    <3>4. CASE Exec(p)
      BY <1>2, <3>2, <3>3, <3>4 DEF Exec, Live, LiveStates
    <3>5. CASE Exit(p)
      BY <1>2, <3>2, <3>3, <3>5 DEF Exit, Live, LiveStates
    <3> QED BY <3>1, <3>4, <3>5 DEF ChildStep, ExecFails, SongEnds, DieOfTerm, DieOfKill
  <2>5. CASE UNCHANGED vars
    BY <1>2, <2>5 DEF vars, procVars, uiVars, playerVars, Live
  <2> QED BY <1>2, <2>1, <2>2, <2>3, <2>4, <2>5 DEF Next, HandlerStep
<1> QED BY <1>1, <1>2, Invariance, PTL DEF Spec

\* No wait of the UI thread is for somebody who need not answer, for any number of pids and
\* songs and in both play modes.
THEOREM EveryWaitEnds == Spec => []WayOn
<1>1. IndInv /\ KillIsPending => WayOn
  <2> SUFFICES ASSUME IndInv, KillIsPending, EndIsDue
               PROVE  proc[player_pid] = "zombie" /\ NextIndices \cap Indices # {}
    BY DEF WayOn, KillIsPending
  <2>1. player_pid \in Pids /\ proc[player_pid] = "zombie"
    BY DEF IndInv, TypeOK, ProcTypeOK, PidIsChild, EndIsDue, Live
  <2>2. music_count \in Nat \ {0} /\ current_index \in 0 .. (music_count - 1)
    BY CountAssumption DEF IndInv, TypeOK, Control, EndIsDue, Indices
  <2>3. (current_index + 1) % music_count \in Indices
    BY <2>2, NeighbourIndices DEF Indices
  <2>4. NextIndices \subseteq Indices /\ NextIndices # {}
    BY <2>3 DEF NextIndices
  <2> QED BY <2>1, <2>4
<1> QED BY <1>1, Invariance, KillStaysPending, PTL

-----------------------------------------------------------------------------
(* Liveness.  The provers know nothing of ENABLED: what fairness needs to   *)
(* know of it is the state predicate NobodyIsStuck, and the theorems take   *)
(* it for granted (TLC checks it).  From there on a handler that stops the  *)
(* player goes through the places below, each of which it leaves by one of  *)
(* the fair actions and to a later place only.                              *)

AtPoll == pc = "poll"
AtPollAgain == pc = "poll_again"
Blocked == pc = "reap" /\ Live(player_pid)
CanReap == pc = "reap" /\ ~ Live(player_pid)
Ending == pc \in {"fork", "leave"}
Idle == pc = "idle"

\* While a handler is on, only its own steps and those of the children happen.
LEMMA HandlerAlone ==
    ASSUME IndInv, [Next]_vars, ~ Idle
    PROVE  HandlerStep \/ ChildSteps \/ UNCHANGED vars
  BY DEF Next, Idle, UserStep, StartMusicApp, StartGallery, ListItem, SwipeRight, Back,
         PauseMusic, ResumeMusic, PlayCurrent, NextMusic, PrevMusic, TogglePlayMode, TickEnded, TickAdvances

\* A child may die meanwhile, but never comes to life.
LEMMA NobodyWakes ==
    ASSUME IndInv, ChildSteps \/ UNCHANGED vars
    PROVE  /\ UNCHANGED <<uiVars, screenVars, playerVars>>
           /\ Live(player_pid)' => Live(player_pid)
<1>1. CASE UNCHANGED vars
  BY <1>1 DEF vars, procVars, uiVars, screenVars, playerVars, Live
<1>2. CASE ChildSteps
  <2>1. UNCHANGED <<uiVars, screenVars, playerVars>>
    BY <1>2 DEF ChildSteps, ByChild
  <2>2. PICK p \in Pids : ChildStep(p)
    BY <1>2 DEF ChildSteps, ByChild
  <2>3. proc \in [Pids -> {"free", "zombie"} \cup LiveStates]
    BY DEF IndInv, TypeOK, ProcTypeOK
  <2>4. player_pid' = player_pid
    BY <2>1 DEF playerVars
  <2>5. Live(p) /\ \A q \in Pids \ {p} : proc'[q] = proc[q]
    BY <2>2, <2>3 DEF ChildStep, Exec, ExecFails, SongEnds, DieOfTerm, DieOfKill, Exit, Live, LiveStates
  <2> QED BY <2>1, <2>3, <2>4, <2>5 DEF Live
<1> QED BY <1>1, <1>2

\* What a handler step does in each place.
LEMMA HandlerMoves ==
    ASSUME IndInv, HandlerStep
    PROVE  /\ AtPoll => AtPollAgain' \/ Ending'
           /\ AtPollAgain => Blocked' \/ CanReap' \/ Ending'
           /\ CanReap => Ending'
           /\ ~ Blocked
           /\ Ending => Idle'
<1> USE DEF AtPoll, AtPollAgain, Blocked, CanReap, Ending, Idle
<1>1. after \in {"fork", "leave"}
  BY DEF IndInv, TypeOK
<1>2. CASE Poll
  BY <1>1, <1>2 DEF Poll, StopReturns
<1>3. CASE PollAgain
  BY <1>1, <1>3 DEF PollAgain, StopReturns
<1>4. CASE WaitKilled
  BY <1>1, <1>4 DEF WaitKilled, StopReturns, Reap
<1>5. CASE (\E p \in Pids : ForkPlayer(p)) \/ ForkFails \/ Leave
  BY <1>5 DEF ForkPlayer, ForkFails, Leave, Selected
<1> QED BY <1>2, <1>3, <1>4, <1>5 DEF HandlerStep

\* Nothing else leads out of a place, but the death of the child.
LEMMA HandlerStays ==
    ASSUME IndInv, [Next]_vars
    PROVE  /\ AtPoll => AtPoll' \/ AtPollAgain' \/ Ending'
           /\ AtPollAgain => AtPollAgain' \/ Blocked' \/ CanReap' \/ Ending'
           /\ Blocked => Blocked' \/ CanReap'
           /\ CanReap => CanReap' \/ Ending'
           /\ Ending => Ending' \/ Idle'
<1>1. CASE Idle
  BY <1>1 DEF AtPoll, AtPollAgain, Blocked, CanReap, Ending, Idle
<1>2. CASE HandlerStep
  BY <1>2, HandlerMoves
<1>3. CASE ChildSteps \/ UNCHANGED vars
  BY <1>3, NobodyWakes DEF uiVars, AtPoll, AtPollAgain, Blocked, CanReap, Ending
<1> QED BY <1>1, <1>2, <1>3, HandlerAlone

\* The child that dies is the one the handler waits for.
LEMMA KillReleases == ASSUME IndInv, Blocked, KilledDies PROVE CanReap'
<1>1. PICK p \in Pids : DieOfKill(p)
  BY DEF KilledDies, ByChild
<1>2. pc' = pc /\ player_pid' = player_pid
  BY DEF KilledDies, ByChild, uiVars, playerVars
<1>3. proc \in [Pids -> {"free", "zombie"} \cup LiveStates]
  BY DEF IndInv, TypeOK, ProcTypeOK
<1>4. p = player_pid
  BY <1>1, <1>3 DEF IndInv, NoOrphan, DieOfKill, Live, LiveStates
<1>5. proc'[p] = "zombie"
  BY <1>1, <1>3 DEF DieOfKill, Exit
<1> QED BY <1>2, <1>4, <1>5 DEF Blocked, CanReap, Live, LiveStates

\* Every handler returns to the event loop, for any number of pids and whatever the players
\* do with SIGTERM: no user waits for a screen that is stuck in waitpid.
THEOREM HandlersAlwaysReturn == FairSpec /\ []NobodyIsStuck => HandlersReturn
<1>1. NobodyIsStuck => (HandlerIsOn => ENABLED <<HandlerStep>>_vars)
                       /\ (Blocked => ENABLED <<KilledDies>>_vars)
  BY DEF NobodyIsStuck, Blocked
<1>2. AtPoll \/ AtPollAgain \/ CanReap \/ Ending => HandlerIsOn
  BY DEF AtPoll, AtPollAgain, CanReap, Ending, HandlerIsOn
<1>3. IndInv /\ [Next]_vars =>
        /\ AtPoll => AtPoll' \/ AtPollAgain' \/ Ending'
        /\ AtPollAgain => AtPollAgain' \/ Blocked' \/ CanReap' \/ Ending'
        /\ Blocked => Blocked' \/ CanReap'
        /\ CanReap => CanReap' \/ Ending'
        /\ Ending => Ending' \/ Idle'
  BY HandlerStays
<1>4. IndInv /\ <<HandlerStep>>_vars =>
        /\ AtPoll => AtPollAgain' \/ Ending'
        /\ AtPollAgain => Blocked' \/ CanReap' \/ Ending'
        /\ CanReap => Ending'
        /\ Ending => Idle'
  BY HandlerMoves
<1>5. IndInv /\ <<KilledDies>>_vars => (Blocked => CanReap')
  BY KillReleases
<1>6. IndInv => AtPoll \/ AtPollAgain \/ Blocked \/ CanReap \/ Ending \/ Idle
  BY DEF IndInv, TypeOK, AtPoll, AtPollAgain, Blocked, CanReap, Ending, Idle
<1>7. FairSpec /\ []NobodyIsStuck => (Ending ~> Idle)
  BY <1>1, <1>2, <1>3, <1>4, Invariance, PTL DEF FairSpec, Spec, Fairness
<1>8. FairSpec /\ []NobodyIsStuck => (CanReap ~> Ending)
  BY <1>1, <1>2, <1>3, <1>4, Invariance, PTL DEF FairSpec, Spec, Fairness
<1>9. FairSpec /\ []NobodyIsStuck => (Blocked ~> CanReap)
  BY <1>1, <1>3, <1>5, Invariance, PTL DEF FairSpec, Spec, Fairness
<1>10. FairSpec /\ []NobodyIsStuck => (AtPollAgain ~> Blocked \/ CanReap \/ Ending)
  BY <1>1, <1>2, <1>3, <1>4, Invariance, PTL DEF FairSpec, Spec, Fairness
<1>11. FairSpec /\ []NobodyIsStuck => (AtPoll ~> AtPollAgain \/ Ending)
  BY <1>1, <1>2, <1>3, <1>4, Invariance, PTL DEF FairSpec, Spec, Fairness
<1>12. FairSpec => []IndInv
  BY Invariance, PTL DEF FairSpec
<1>13. FairSpec /\ []NobodyIsStuck => (~ Idle ~> Idle)
  BY <1>6, <1>7, <1>8, <1>9, <1>10, <1>11, <1>12, PTL
<1>14. (Idle <=> pc = "idle") /\ (~ Idle <=> pc # "idle")
  BY DEF Idle
<1> QED BY <1>13, <1>14, PTL DEF HandlersReturn
-----------------------------------------------------------------------------
(* The next song.  Until the timer finds the player dead the user may do    *)
(* something else, but not bring it to life: pause and resume are lost on   *)
(* it, and play, next and previous reap it on their way to fork.            *)

Ended == Idle /\ screen = "player" /\ player_pid # NoPid /\ ~ Live(player_pid)
Replacing == AtPoll /\ ~ Live(player_pid) /\ after = "fork"
Followed == pc = "fork" \/ screen # "player"

\* The player screen has its timer.
LEMMA PlayerHasTimer == Spec => [](screen = "player" => progress_timer)
<1> DEFINE Inv == screen = "player" => progress_timer
<1>1. Init => Inv
  BY DEF Init
<1>2. ASSUME TypeOK, Inv, [Next]_vars PROVE Inv'
  <2>1. CASE UserStep
    <3>1. CASE (\E n \in 0 .. MaxMusicCount : StartMusicApp(n)) \/ StartGallery
      BY <1>2, <3>1 DEF StartMusicApp, StartGallery, Uncover
    <3>2. CASE \E i \in Songs : ListItem(i)
      BY <3>2 DEF ListItem
    <3>3. CASE SwipeRight \/ Back
      BY <1>2, <3>3 DEF SwipeRight, Back
    <3>4. CASE PauseMusic \/ ResumeMusic \/ PlayCurrent \/ NextMusic \/ PrevMusic \/ TogglePlayMode
      BY <1>2, <3>4 DEF PauseMusic, ResumeMusic, PlayCurrent, NextMusic, PrevMusic,
                        TogglePlayMode, screenVars
    <3> QED BY <2>1, <3>1, <3>2, <3>3, <3>4 DEF UserStep
  <2>2. CASE HandlerStep
    BY <1>2, <2>2 DEF HandlerStep, Poll, PollAgain, WaitKilled, ForkPlayer, ForkFails, Leave,
                      screenVars
  <2>3. CASE TickEnded \/ TickAdvances \/ ChildSteps \/ UNCHANGED vars
    BY <1>2, <2>3 DEF TickEnded, TickAdvances, ChildSteps, ByChild, screenVars, vars
  <2> QED BY <1>2, <2>1, <2>2, <2>3 DEF Next
<1> QED BY <1>1, <1>2, TypeCorrect, PTL DEF Spec

\* A player that is dead stays so until it is reaped.
LEMMA DeadStaysDead ==
    ASSUME IndInv, NEW sig, ~ Live(player_pid), Kill(player_pid, sig), player_pid' = player_pid
    PROVE  ~ Live(player_pid)'
  BY DEF Kill, Live

\* What can happen to a player that has ended.
LEMMA EndedStays ==
    ASSUME IndInv, [Next]_vars, Ended
    PROVE  Ended' \/ Replacing' \/ Followed'
<1> USE DEF Ended, Replacing, Followed, Idle, AtPoll
<1>1. CASE (\E n \in 0 .. MaxMusicCount : StartMusicApp(n)) \/ StartGallery
  BY <1>1 DEF StartMusicApp, StartGallery
<1>2. CASE \E i \in Songs : ListItem(i)
  BY <1>2 DEF ListItem
<1>3. CASE SwipeRight \/ Back
  BY <1>3 DEF SwipeRight, Back
<1>4. CASE PauseMusic \/ ResumeMusic
  BY <1>4, DeadStaysDead DEF PauseMusic, ResumeMusic, uiVars, screenVars
<1>5. CASE PlayCurrent \/ NextMusic \/ PrevMusic
  <2>1. PICK i : PlayMusic(i)
    BY <1>5 DEF PlayCurrent, NextMusic, PrevMusic
  <2>2. after' = "fork" /\ pc' = "poll" /\ Kill(player_pid, "TERM") /\ player_pid' = player_pid
    BY <2>1 DEF PlayMusic, StopMusic
  <2> QED BY <2>2, DeadStaysDead
<1>6. CASE TogglePlayMode \/ TickAdvances
  BY <1>6 DEF TogglePlayMode, TickAdvances, procVars, uiVars, screenVars, Live
<1>7. CASE HandlerStep
  BY <1>7 DEF HandlerStep, Poll, PollAgain, WaitKilled, ForkPlayer, ForkFails, Leave, Selected
<1>8. CASE TickEnded
  BY <1>8 DEF TickEnded, StopReturns
<1>9. CASE ChildSteps \/ UNCHANGED vars
  BY <1>9, NobodyWakes DEF uiVars, screenVars, playerVars
<1> QED
  BY <1>1, <1>2, <1>3, <1>4, <1>5, <1>6, <1>7, <1>8, <1>9 DEF Next, UserStep

\* A handler that replaces it reaps it at once.
LEMMA ReplacingStays ==
    ASSUME IndInv, [Next]_vars, Replacing
    PROVE  /\ Replacing' \/ Followed'
           /\ HandlerStep => Followed'
<1> USE DEF Replacing, Followed, Idle, AtPoll
<1>1. HandlerStep => Followed'
  BY DEF HandlerStep, Poll, PollAgain, WaitKilled, ForkPlayer, ForkFails, Leave, Selected,
         StopReturns
<1>2. CASE ChildSteps \/ UNCHANGED vars
  BY <1>1, <1>2, NobodyWakes DEF uiVars, screenVars, playerVars
<1> QED BY <1>1, <1>2, HandlerAlone

\* A song that ends on the player screen is followed by a fork of the next one, however its
\* end falls between ticks, pauses and other taps.
THEOREM NextSongAlwaysFollows == FairSpec /\ []NobodyIsStuck => NextSongFollows
<1> DEFINE HasTimer == screen = "player" => progress_timer
<1>1. NobodyIsStuck => /\ HandlerIsOn => ENABLED <<HandlerStep>>_vars
                       /\ EndIsDue => ENABLED <<TickEnded>>_vars
  BY DEF NobodyIsStuck
<1>2. HasTimer => (Ended => EndIsDue)
  BY DEF Ended, EndIsDue, Idle
<1>3. Replacing => HandlerIsOn
  BY DEF Replacing, HandlerIsOn, AtPoll
<1>4. IndInv /\ [Next]_vars => /\ Ended => Ended' \/ Replacing' \/ Followed'
                               /\ Replacing => Replacing' \/ Followed'
  BY EndedStays, ReplacingStays
<1>5. <<TickEnded>>_vars => Followed'
  BY DEF TickEnded, StopReturns, Followed
<1>6. IndInv /\ [Next]_vars /\ <<HandlerStep>>_vars => (Replacing => Followed')
  BY ReplacingStays
<1>7. FairSpec => []IndInv /\ []HasTimer
  BY Invariance, PlayerHasTimer, PTL DEF FairSpec
<1>8. FairSpec /\ []NobodyIsStuck => (Ended ~> Replacing \/ Followed)
  BY <1>1, <1>2, <1>4, <1>5, <1>7, PTL DEF FairSpec, Spec, Fairness
<1>9. FairSpec /\ []NobodyIsStuck => (Replacing ~> Followed)
  BY <1>1, <1>3, <1>4, <1>6, <1>7, PTL DEF FairSpec, Spec, Fairness
<1>10. /\ pc = "idle" /\ screen = "player" /\ player_pid # NoPid /\ ~ Live(player_pid) => Ended
       /\ Followed => pc = "fork" \/ screen # "player"
  BY DEF Ended, Idle, Followed
<1> QED BY <1>8, <1>9, <1>10, PTL DEF NextSongFollows
=============================================================================
