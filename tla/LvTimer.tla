------------------------------- MODULE LvTimer -------------------------------
(***************************************************************************)
(* The timers of LVGL, src/lvgl/src/misc/lv_timer.c: the linked list, and  *)
(* lv_timer_handler, which main calls in a loop and which calls every      *)
(* handler of the program from inside a timer callback: the read timer of  *)
(* the touch screen delivers the clicks.  A callback may create and delete *)
(* timers, the one that is running included, while the handler holds       *)
(* pointers to the running and to the next one; two flags tell it to begin *)
(* again from the head.                                                    *)
(*                                                                         *)
(* A timer is named by its address, which malloc may hand out again.  Time *)
(* is reduced to what the handler asks of it: whether a timer is ready,    *)
(* that is, whether nothing remains of its period.  LvTick has the         *)
(* arithmetic of the 32-bit tick behind that.                              *)
(***************************************************************************)
EXTENDS Integers

CONSTANTS
    Timers,      \* addresses of timers
    None,        \* NULL
    MaxRepeat    \* bound of the model on lv_timer_set_repeat_count

ASSUME NoneAssumption == None \notin Timers
ASSUME RepeatAssumption == MaxRepeat \in Nat

VARIABLES
    pc,              \* "idle": outside of lv_timer_handler; "restart": before a pass over
                     \* the list; "exec": in lv_timer_exec; "callback": in timer_cb
    timer_active,    \* the two pointers of lv_timer_handler
    next,
    timers,          \* the list, as the set of its nodes
    before,          \* and their order, as pairs
    ready,           \* timers with no time remaining
    paused,
    repeat_count,    \* -1: for ever
    timer_deleted,
    timer_created,
    \* History, not in the code:
    seen,            \* timers that had their turn in this pass
    stale            \* pointers of the handler to a timer that was deleted since

listVars == <<timers, before>>
passVars == <<pc, timer_active, next, seen>>
vars == <<passVars, listVars, ready, paused, repeat_count, timer_deleted, timer_created, stale>>

TypeOK ==
    /\ pc \in {"idle", "restart", "exec", "callback"}
    /\ timer_active \in Timers \cup {None}
    /\ next \in Timers \cup {None}
    /\ timers \subseteq Timers
    /\ before \subseteq timers \X timers
    /\ ready \subseteq timers
    /\ paused \subseteq timers
    /\ repeat_count \in [Timers -> -1 .. MaxRepeat]
    /\ timer_deleted \in BOOLEAN
    /\ timer_created \in BOOLEAN
    /\ seen \subseteq Timers
    /\ stale \subseteq {"active", "next"}

Init ==
    /\ pc = "idle" /\ timer_active = None /\ next = None
    /\ timers = {} /\ before = {}
    /\ ready = {} /\ paused = {}
    /\ repeat_count = [t \in Timers |-> -1]
    /\ timer_deleted = FALSE /\ timer_created = FALSE
    /\ seen = {} /\ stale = {}

-----------------------------------------------------------------------------
(* The list.  n is the first of the set rest of nodes, or None. *)

IsFirst(n, rest) ==
    \/ n = None /\ rest = {}
    \/ n \in rest /\ \A m \in rest \ {n} : <<n, m>> \in before

IsHead(n) == IsFirst(n, timers)

IsNext(t, n) == IsFirst(n, {m \in timers : <<t, m>> \in before})

-----------------------------------------------------------------------------
(* What the program does with timers. *)

\* main only creates timers, before its loop; everything else happens in callbacks
InCallback == pc = "callback"

Create_NoFlag ==
    /\ pc = "idle" \/ InCallback
    /\ \E t \in Timers \ timers :
        /\ timers' = timers \cup {t}
        /\ before' = before \cup ({t} \X timers)
    /\ UNCHANGED <<passVars, ready, paused, repeat_count, timer_deleted, timer_created, stale>>

\* lv_timer_create, at the head of the list
Create ==
    /\ pc = "idle" \/ InCallback
    /\ \E t \in Timers \ timers :
        /\ timers' = timers \cup {t}
        /\ before' = before \cup ({t} \X timers)
    /\ timer_created' = TRUE
    /\ UNCHANGED <<passVars, ready, paused, repeat_count, timer_deleted, stale>>

Freed_CutsList(t) ==
    /\ timers' = timers \ {t}
    /\ before' = {p \in before : /\ t \notin {p[1], p[2]}
                                 /\ ~ (<<p[1], t>> \in before /\ <<t, p[2]>> \in before)}
    /\ ready' = ready \ {t}
    /\ paused' = paused \ {t}
    /\ repeat_count' = [repeat_count EXCEPT ![t] = -1]

\* the node is taken out and freed
Freed(t) ==
    /\ timers' = timers \ {t}
    /\ before' = {p \in before : t \notin {p[1], p[2]}}
    /\ ready' = ready \ {t}
    /\ paused' = paused \ {t}
    /\ repeat_count' = [repeat_count EXCEPT ![t] = -1]

NowStale(t) == (IF t = timer_active THEN {"active"} ELSE {}) \cup
               (IF t = next THEN {"next"} ELSE {})

Delete_NoFlag(t) ==
    /\ InCallback /\ t \in timers
    /\ Freed(t)
    /\ stale' = stale \cup NowStale(t)
    /\ UNCHANGED <<passVars, timer_deleted, timer_created>>

\* lv_timer_delete
Delete(t) ==
    /\ InCallback /\ t \in timers
    /\ Freed(t)
    /\ timer_deleted' = TRUE
    /\ stale' = stale \cup NowStale(t)
    /\ UNCHANGED <<passVars, timer_created>>

Settings == <<passVars, listVars, timer_deleted, timer_created, stale>>

\* lv_timer_pause, lv_timer_resume
Pause(t) ==
    /\ InCallback /\ t \in timers /\ paused' = paused \cup {t}
    /\ UNCHANGED <<Settings, ready, repeat_count>>

Resume(t) ==
    /\ InCallback /\ t \in timers /\ paused' = paused \ {t}
    /\ UNCHANGED <<Settings, ready, repeat_count>>

\* lv_timer_set_repeat_count; nobody gives 0
SetRepeatCount(t) ==
    /\ InCallback /\ t \in timers
    /\ \E n \in 1 .. MaxRepeat : repeat_count' = [repeat_count EXCEPT ![t] = n]
    /\ UNCHANGED <<Settings, ready, paused>>

\* lv_timer_reset, lv_timer_ready, lv_timer_set_period: less or more time remains
SetTime(t) ==
    /\ InCallback /\ t \in timers
    /\ ready' \in {ready \cup {t}, ready \ {t}}
    /\ UNCHANGED <<Settings, paused, repeat_count>>

\* the period of a timer ends, at any moment
TimePasses ==
    /\ \E t \in timers : ready' = ready \cup {t}
    /\ UNCHANGED <<Settings, paused, repeat_count>>

-----------------------------------------------------------------------------
(* lv_timer_handler. *)

\* a pass over the list begins
StartPass ==
    /\ pc \in {"idle", "restart"}
    /\ timer_deleted' = FALSE /\ timer_created' = FALSE
    /\ \E h \in Timers \cup {None} :
        /\ IsHead(h)
        /\ timer_active' = h
        /\ pc' = IF h = None THEN "idle" ELSE "exec"
    /\ next' = None /\ seen' = {} /\ stale' = {}
    /\ UNCHANGED <<listVars, ready, paused, repeat_count>>

\* timer_active had its turn; n is next, or there is none and the handler returns
GoOnWith(n) ==
    /\ timer_active' = n
    /\ pc' = IF n = None THEN "idle" ELSE "exec"
    /\ next' = None
    /\ seen' = seen \cup {timer_active}
    /\ stale' = IF "next" \in stale THEN {"active"} ELSE {}

StartAgain ==
    /\ pc' = "restart" /\ timer_active' = None /\ next' = None
    /\ seen' = {} /\ stale' = {}

\* the end of lv_timer_exec: a timer whose count is over is deleted, unless the flag says
\* that it may be gone already
Expired == ~timer_deleted /\ repeat_count[timer_active] = 0

DeleteExpired ==
    \/ /\ Expired
       /\ Freed(timer_active) /\ timer_deleted' = TRUE
    \/ /\ ~Expired
       /\ UNCHANGED <<listVars, ready, paused, repeat_count, timer_deleted>>

SkipPaused_EndsPass ==
    /\ pc = "exec" /\ timer_active \in paused
    /\ GoOnWith(None)
    /\ UNCHANGED <<listVars, ready, paused, repeat_count, timer_deleted, timer_created>>

SkipPaused ==
    /\ pc = "exec" /\ timer_active \in paused
    /\ \E n \in Timers \cup {None} : IsNext(timer_active, n) /\ GoOnWith(n)
    /\ UNCHANGED <<listVars, ready, paused, repeat_count, timer_deleted, timer_created>>

SkipNotReady_NeverDeletes ==
    /\ pc = "exec" /\ timer_active \notin paused \cup ready
    /\ \E n \in Timers \cup {None} : IsNext(timer_active, n) /\ GoOnWith(n)
    /\ UNCHANGED <<listVars, ready, paused, repeat_count, timer_deleted, timer_created>>

\* time remains: lv_timer_exec returns false, and the handler goes on even if it deleted
SkipNotReady ==
    /\ pc = "exec" /\ timer_active \notin paused \cup ready
    /\ \E n \in Timers \cup {None} : IsNext(timer_active, n) /\ GoOnWith(n)
    /\ DeleteExpired
    /\ UNCHANGED timer_created

\* the count was over before: no call
RunExpired ==
    /\ pc = "exec" /\ timer_active \in ready \ paused
    /\ repeat_count[timer_active] = 0
    /\ \/ /\ ~timer_deleted
          /\ Freed(timer_active) /\ timer_deleted' = TRUE
       \/ /\ timer_deleted
          /\ ready' = ready \ {timer_active}
          /\ UNCHANGED <<listVars, paused, repeat_count, timer_deleted>>
    /\ StartAgain
    /\ UNCHANGED timer_created

\* the count is taken down before the callback is entered
Call ==
    /\ pc = "exec" /\ timer_active \in ready \ paused
    /\ repeat_count[timer_active] # 0
    /\ ready' = ready \ {timer_active}
    /\ repeat_count' = [repeat_count EXCEPT ![timer_active] = IF @ > 0 THEN @ - 1 ELSE @]
    /\ pc' = "callback"
    /\ \E n \in Timers \cup {None} : IsNext(timer_active, n) /\ next' = n
    /\ UNCHANGED <<timer_active, seen, listVars, paused, timer_deleted, timer_created, stale>>

\* the callback is over
Return ==
    /\ pc = "callback"
    /\ DeleteExpired
    /\ \/ /\ (timer_created \/ timer_deleted') /\ StartAgain
       \/ /\ ~timer_created /\ ~timer_deleted' /\ GoOnWith(next)
    /\ UNCHANGED timer_created

HandlerStep == \/ StartPass \/ SkipPaused \/ SkipNotReady \/ RunExpired \/ Call \/ Return

ProgramStep == \/ Create
               \/ \E t \in Timers : \/ Delete(t) \/ Pause(t) \/ Resume(t)
                                    \/ SetRepeatCount(t) \/ SetTime(t)

Next == HandlerStep \/ ProgramStep \/ TimePasses

Spec == Init /\ [][Next]_vars

\* main calls the handler for ever, and every callback returns.
FairSpec == Spec /\ WF_vars(HandlerStep)

-----------------------------------------------------------------------------
(* Properties. *)

\* The handler never uses a timer that was deleted: neither the next one, when it takes
\* its turn, nor the running one, when its callback has returned and the flag is not set.
NoStaleTimer ==
    /\ pc = "exec" => timer_active \in timers /\ "active" \notin stale
    /\ pc = "callback" /\ ~timer_deleted => "active" \notin stale

\* When the handler returns, every timer of the list had its turn since the last one was
\* created or deleted: no timer is passed over because the list changed under the loop.
EveryTimerHasItsTurn ==
    [][pc # "idle" /\ timer_active # None /\ pc' = "idle" => (timers \subseteq seen)']_vars

\* The handler is never stuck while there is something to do: it finds the head of the list,
\* the successor of every timer, and one way to go on from wherever a callback left it.
HandlerIsOn == timers # {} \/ pc # "idle"

HandlerCanGoOn == HandlerIsOn => ENABLED <<HandlerStep>>_vars

\* As long as the handler returns, that is, as callbacks do not create or delete timers
\* without end, a timer that is ready is called, unless the program changes its mind: the
\* fairness that Gallery, MusicPlayer and BootVideo assume of their timers.
HandlerReturns == []<>(pc = "idle")

Due(t) == t \in ready \ paused /\ repeat_count[t] # 0

DueIsCalled == HandlerReturns => \A t \in Timers : Due(t) ~> ~Due(t)

\* And a timer whose count is over is deleted, even if lv_timer_exec had to leave it
\* because its callback deleted another one.  That takes passes in which nothing is deleted.
QuietPasses == []<>(pc = "idle" /\ ~timer_deleted)

Over(t) == t \in timers \ paused /\ repeat_count[t] = 0

ExpiredIsDeleted == QuietPasses => \A t \in Timers : Over(t) ~> ~Over(t)
=============================================================================
