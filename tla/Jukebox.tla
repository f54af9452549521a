------------------------------- MODULE Jukebox -------------------------------
(***************************************************************************)
(* What the music application promises to whoever listens: at most one     *)
(* voice at a time.  A voice is a song being played or held by Pause.  It  *)
(* starts only out of silence, it never turns into another song, and only  *)
(* the voice that is there can be held, continued or ended.                *)
(***************************************************************************)
CONSTANTS Players, Songs

VARIABLE voices   \* what sounds or is held

\* song s on player i; it "sounds" or is "held" by Pause
Voice(i, s, h) == [player |-> i, song |-> s, is |-> h]

Init == voices = {}

Start == /\ voices = {}
         /\ \E i \in Players, s \in Songs : voices' = {Voice(i, s, "sounds")}

Hold == \E i \in Players, s \in Songs :
            voices = {Voice(i, s, "sounds")} /\ voices' = {Voice(i, s, "held")}

Continue == \E i \in Players, s \in Songs :
                voices = {Voice(i, s, "held")} /\ voices' = {Voice(i, s, "sounds")}

Silence == voices # {} /\ voices' = {}

Next == Start \/ Hold \/ Continue \/ Silence

Spec == Init /\ [][Next]_voices
=============================================================================
