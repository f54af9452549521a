---------------------------- MODULE ChildProcess ----------------------------
(***************************************************************************)
(* The part of the operating system that src/src/kugou_music.c talks to:   *)
(* the table of the program's child processes and the calls fork, kill and *)
(* waitpid (none of it is code of the repository; it is modelled from how  *)
(* play_music, pause_music, resume_music, stop_music and                   *)
(* update_music_progress use it).                                          *)
(*                                                                         *)
(* A pid is free, or names a child that was forked and has not executed    *)
(* the player yet, a child that plays, or a zombie nobody has waited for.  *)
(* A reaped pid is free again, so fork may hand it out a second time.      *)
(* SIGTERM and SIGKILL are pending until the child is scheduled; a stopped *)
(* child takes SIGKILL and leaves SIGTERM pending.  SIGSTOP and SIGCONT    *)
(* act at once (kill returns after the child left the run queue).          *)
(***************************************************************************)
EXTENDS Integers

CONSTANTS
    Pids,           \* the process identifiers the kernel hands out
    NoPid,          \* the code's -1
    MaxMusicCount   \* MAX_MUSIC_COUNT, the capacity of music_list

ASSUME PidAssumption == NoPid \notin Pids
ASSUME CountAssumption == MaxMusicCount \in Nat \ {0}

Songs == 0 .. (MaxMusicCount - 1)   \* indices into music_list

VARIABLES
    proc,     \* proc[p]: state of process p
    song,     \* song[p]: music_list index child p was forked for
    stopped,  \* children under SIGSTOP
    termed,   \* children with SIGTERM pending
    killed    \* children with SIGKILL pending

procVars == <<proc, song, stopped, termed, killed>>

LiveStates == {"forked", "playing"}

ProcTypeOK ==
    /\ proc \in [Pids -> {"free", "zombie"} \cup LiveStates]
    /\ song \in [Pids -> Songs]
    /\ stopped \subseteq Pids
    /\ termed \subseteq Pids
    /\ killed \subseteq Pids

ProcInit ==
    /\ proc = [p \in Pids |-> "free"]
    /\ song = [p \in Pids |-> 0]
    /\ stopped = {}
    /\ termed = {}
    /\ killed = {}

Live(p) == p \in Pids /\ proc[p] \in LiveStates

-----------------------------------------------------------------------------
(* System calls of the program. *)

\* fork() succeeded with pid p for song s
Fork(p, s) ==
    /\ proc[p] = "free"
    /\ proc' = [proc EXCEPT ![p] = "forked"]
    /\ song' = [song EXCEPT ![p] = s]
    /\ UNCHANGED <<stopped, termed, killed>>

\* kill(p, sig): without effect unless p is a live child
Kill(p, sig) ==
    /\ stopped' = CASE sig = "STOP" /\ Live(p) -> stopped \cup {p}
                    [] sig = "CONT" /\ Live(p) -> stopped \ {p}
                    [] OTHER -> stopped
    /\ termed' = IF sig = "TERM" /\ Live(p) THEN termed \cup {p} ELSE termed
    /\ killed' = IF sig = "KILL" /\ Live(p) THEN killed \cup {p} ELSE killed
    /\ UNCHANGED <<proc, song>>

\* waitpid(p) returned something else than 0: the zombie, if there is one, is
\* reaped and its pid is free again
Reap(p) ==
    /\ ~ Live(p)
    /\ proc' = [q \in Pids |-> IF q = p THEN "free" ELSE proc[q]]
    /\ UNCHANGED <<song, stopped, termed, killed>>

-----------------------------------------------------------------------------
(* Steps of the children. *)

Exit(p) ==
    /\ proc' = [proc EXCEPT ![p] = "zombie"]
    /\ stopped' = stopped \ {p}
    /\ termed' = termed \ {p}
    /\ killed' = killed \ {p}
    /\ UNCHANGED song

\* execl() of madplay or, failing that, of mpg123
Exec(p) ==
    /\ proc[p] = "forked" /\ p \notin stopped
    /\ proc' = [proc EXCEPT ![p] = "playing"]
    /\ UNCHANGED <<song, stopped, termed, killed>>

\* neither player can be executed: exit(1)
ExecFails(p) == proc[p] = "forked" /\ p \notin stopped /\ Exit(p)

\* the player reaches the end of the file
SongEnds(p) == proc[p] = "playing" /\ p \notin stopped /\ Exit(p)

DieOfTerm(p) == Live(p) /\ p \in termed /\ p \notin stopped /\ Exit(p)

DieOfKill(p) == Live(p) /\ p \in killed /\ Exit(p)

ChildStep(p) ==
    Exec(p) \/ ExecFails(p) \/ SongEnds(p) \/ DieOfTerm(p) \/ DieOfKill(p)
=============================================================================
