---------------------------- MODULE LvTimerProofs ----------------------------
(***************************************************************************)
(* Theorems about LvTimer, for any number of timers and any repeat counts, *)
(* and about LvTick, for any width of the tick.                            *)
(***************************************************************************)
EXTENDS LvTimer, LvTick, FiniteSets, FiniteSetTheorems, WellFoundedInduction, TLAPS

\* The list is in one order.
Ordered ==
    /\ \A a \in timers : <<a, a>> \notin before
    /\ \A a, b \in timers : a # b => (<<a, b>> \in before <=> <<b, a>> \notin before)
    /\ \A a, b, c \in timers : <<a, b>> \in before /\ <<b, c>> \in before => <<a, c>> \in before

\* Every timer that stands before timer_active had its turn.
SeenSoFar == \A t \in timers : <<t, timer_active>> \in before => t \in seen

\* What the handler may rely on.  In a callback it depends on the two flags.
Pointers ==
    /\ pc \in {"idle", "restart"} => timer_active = None
    /\ pc = "exec" => /\ timer_active \in timers /\ stale = {} /\ ~timer_created
                      /\ SeenSoFar
    /\ pc = "callback" => /\ timer_active \in Timers
                          /\ ~timer_deleted => /\ timer_active \in timers /\ stale = {}
                                               /\ IsNext(timer_active, next)
                          /\ ~timer_deleted /\ ~timer_created => SeenSoFar
    /\ pc # "callback" => next = None

IndInv == TypeOK /\ Ordered /\ Pointers

-----------------------------------------------------------------------------
(* Types. *)

LEMMA FreedTypes ==
    ASSUME TypeOK, NEW t \in timers, Freed(t)
    PROVE  /\ timers' \subseteq Timers /\ before' \subseteq timers' \X timers'
           /\ ready' \subseteq timers' /\ paused' \subseteq timers'
           /\ repeat_count' \in [Timers -> -1 .. MaxRepeat]
<1>1. before' \subseteq timers' \X timers'
  BY DEF TypeOK, Freed
<1>2. repeat_count' \in [Timers -> -1 .. MaxRepeat]
  BY RepeatAssumption DEF TypeOK, Freed
<1>3. timers' \subseteq Timers /\ ready' \subseteq timers' /\ paused' \subseteq timers'
  BY DEF TypeOK, Freed
<1> QED BY <1>1, <1>2, <1>3

LEMMA DeleteExpiredTypes ==
    ASSUME TypeOK, timer_active \in timers \/ timer_deleted, DeleteExpired
    PROVE  /\ timers' \subseteq Timers /\ before' \subseteq timers' \X timers'
           /\ ready' \subseteq timers' /\ paused' \subseteq timers'
           /\ repeat_count' \in [Timers -> -1 .. MaxRepeat]
           /\ timer_deleted' \in BOOLEAN
<1>1. CASE Expired
  <2>1. timer_active \in timers /\ Freed(timer_active) /\ timer_deleted'
    BY <1>1 DEF DeleteExpired, Expired
  <2> QED BY <2>1, FreedTypes
<1>2. CASE ~Expired
  BY <1>2 DEF DeleteExpired, TypeOK, listVars
<1> QED BY <1>1, <1>2

LEMMA TypeNext == ASSUME IndInv, [Next]_vars PROVE TypeOK'
<1> USE DEF passVars, listVars
<1>0. TypeOK
  BY DEF IndInv
<1>1. CASE Create
  BY <1>0, <1>1 DEF Create, TypeOK
<1>2. ASSUME NEW t \in Timers, Delete(t) PROVE TypeOK'
  <2>1. NowStale(t) \subseteq {"active", "next"}
    BY DEF NowStale
  <2> QED BY <1>0, <1>2, <2>1, FreedTypes DEF Delete, TypeOK
<1>3. ASSUME NEW t \in Timers, Pause(t) \/ Resume(t) PROVE TypeOK'
  BY <1>0, <1>3 DEF Pause, Resume, Settings, TypeOK
<1>4. ASSUME NEW t \in Timers, SetRepeatCount(t) PROVE TypeOK'
  BY <1>0, <1>4, RepeatAssumption DEF SetRepeatCount, Settings, TypeOK
<1>5. ASSUME NEW t \in Timers, SetTime(t) PROVE TypeOK'
  BY <1>0, <1>5 DEF SetTime, Settings, TypeOK
<1>6. CASE TimePasses
  BY <1>0, <1>6 DEF TimePasses, Settings, TypeOK
<1>7. CASE StartPass
  BY <1>0, <1>7 DEF StartPass, TypeOK
<1>8. CASE SkipPaused
  BY <1>0, <1>8 DEF SkipPaused, GoOnWith, TypeOK
<1>9. CASE SkipNotReady
  <2>1. timer_active \in timers
    BY <1>9 DEF SkipNotReady, IndInv, Pointers
  <2> QED BY <1>0, <1>9, <2>1, DeleteExpiredTypes DEF SkipNotReady, GoOnWith, TypeOK
<1>10. CASE RunExpired
  <2>1. timer_active \in timers
    BY <1>10 DEF RunExpired, IndInv, Pointers
  <2> QED BY <1>0, <1>10, <2>1, FreedTypes DEF RunExpired, StartAgain, TypeOK
<1>11. CASE Call
  BY <1>0, <1>11, RepeatAssumption DEF Call, TypeOK
<1>12. CASE Return
  <2>1. timer_active \in timers \/ timer_deleted
    BY <1>12 DEF Return, IndInv, Pointers
  <2>2. DeleteExpired /\ UNCHANGED timer_created /\ (StartAgain \/ GoOnWith(next))
    BY <1>12 DEF Return
  <2>3. /\ pc' \in {"idle", "restart", "exec"} /\ timer_active' \in Timers \cup {None}
        /\ next' \in Timers \cup {None} /\ seen' \subseteq Timers
        /\ stale' \subseteq {"active", "next"}
    <3>1. timer_active \in Timers
      BY <1>12 DEF Return, IndInv, Pointers
    <3> QED BY <1>0, <2>2, <3>1 DEF StartAgain, GoOnWith, TypeOK
  <2>4. timer_created' \in BOOLEAN
    BY <1>0, <2>2 DEF TypeOK
  <2> QED BY <1>0, <2>1, <2>2, <2>3, <2>4, DeleteExpiredTypes DEF TypeOK
<1>13. CASE UNCHANGED vars
  BY <1>0, <1>13 DEF vars, TypeOK
<1> QED
  BY <1>1, <1>2, <1>3, <1>4, <1>5, <1>6, <1>7, <1>8, <1>9, <1>10, <1>11, <1>12, <1>13
     DEF Next, HandlerStep, ProgramStep

-----------------------------------------------------------------------------
(* The order of the list. *)

LEMMA OrderedFreed == ASSUME TypeOK, Ordered, NEW t, Freed(t) PROVE Ordered'
BY DEF TypeOK, Ordered, Freed

LEMMA OrderedNext == ASSUME IndInv, [Next]_vars PROVE Ordered'
<1> USE DEF passVars, listVars
<1>0. TypeOK /\ Ordered
  BY DEF IndInv
<1>1. CASE Create
  <2>1. PICK t \in Timers \ timers : /\ timers' = timers \cup {t}
                                     /\ before' = before \cup ({t} \X timers)
    BY <1>1 DEF Create
  <2>2. \A a, b : <<a, b>> \in before' <=> <<a, b>> \in before \/ (a = t /\ b \in timers)
    BY <2>1
  <2>3. \A a, b : <<a, b>> \in before => a \in timers /\ b \in timers
    BY <1>0 DEF TypeOK
  <2> QED BY <1>0, <2>1, <2>2, <2>3 DEF Ordered
<1>2. ASSUME NEW t \in Timers, Delete(t) PROVE Ordered'
  BY <1>0, <1>2, OrderedFreed DEF Delete
<1>3. CASE SkipNotReady \/ Return
  BY <1>0, <1>3, OrderedFreed DEF SkipNotReady, Return, DeleteExpired, Ordered
<1>4. CASE RunExpired
  BY <1>0, <1>4, OrderedFreed DEF RunExpired, Ordered
<1>5. CASE StartPass \/ SkipPaused \/ Call \/ TimePasses
  BY <1>0, <1>5 DEF StartPass, SkipPaused, Call, TimePasses, Settings, Ordered
<1>6. ASSUME NEW t \in Timers, Pause(t) \/ Resume(t) \/ SetRepeatCount(t) \/ SetTime(t)
      PROVE  Ordered'
  BY <1>0, <1>6 DEF Pause, Resume, SetRepeatCount, SetTime, Settings, Ordered
<1>7. CASE UNCHANGED vars
  BY <1>0, <1>7 DEF vars, Ordered
<1> QED
  BY <1>1, <1>2, <1>3, <1>4, <1>5, <1>6, <1>7 DEF Next, HandlerStep, ProgramStep

-----------------------------------------------------------------------------
(* The pass over the list. *)

\* The next of timer_active is the only one that stands between it and the rest.
LEMMA NextStandsNext ==
    ASSUME TypeOK, Ordered, timer_active \in timers, SeenSoFar,
           NEW n \in Timers \cup {None}, IsNext(timer_active, n)
    PROVE  /\ n # None => /\ n \in timers /\ n # timer_active
                          /\ \A t \in timers : <<t, n>> \in before => t \in seen \cup {timer_active}
           /\ n = None => timers \subseteq seen \cup {timer_active}
<1> USE NoneAssumption DEF TypeOK, Ordered, SeenSoFar, IsNext, IsFirst
<1>1. ASSUME n # None
      PROVE  /\ n \in timers /\ n # timer_active
             /\ \A t \in timers : <<t, n>> \in before => t \in seen \cup {timer_active}
  <2>1. n \in timers /\ <<timer_active, n>> \in before /\ n # timer_active
    BY <1>1
  <2>2. ASSUME NEW t \in timers, <<t, n>> \in before, t # timer_active PROVE t \in seen
    <3>1. CASE <<timer_active, t>> \in before
      BY <1>1, <2>1, <2>2, <3>1
    <3>2. CASE <<t, timer_active>> \in before
      BY <3>2
    <3> QED BY <2>2, <3>1, <3>2
  <2> QED BY <2>1, <2>2
<1>2. ASSUME n = None PROVE timers \subseteq seen \cup {timer_active}
  <2>1. \A m \in timers : <<timer_active, m>> \notin before
    BY <1>2
  <2> QED BY <2>1
<1> QED BY <1>1, <1>2

\* A turn of timer_active that ends with GoOnWith, whether or not timer_active is deleted.
LEMMA TurnEnds ==
    ASSUME TypeOK, Ordered, timer_active \in timers, SeenSoFar, stale = {},
           NEW n \in Timers \cup {None}, IsNext(timer_active, n), GoOnWith(n),
           ~timer_created, UNCHANGED timer_created,
           UNCHANGED listVars \/ Freed(timer_active)
    PROVE  Pointers' /\ (pc' = "idle" => (timers \subseteq seen)')
<1>1. timers' \subseteq timers /\ before' \subseteq before
      /\ \A t \in timers : t # timer_active => t \in timers'
  BY DEF Freed, listVars
<1>2. stale' = {} /\ next' = None /\ seen' = seen \cup {timer_active} /\ timer_active' = n
      /\ ~timer_created'
  BY DEF GoOnWith
<1>3. CASE n = None
  BY <1>1, <1>2, <1>3, NextStandsNext DEF GoOnWith, Pointers
<1>4. CASE n # None
  <2>1. pc' = "exec" /\ n \in timers'
    BY <1>1, <1>4, NextStandsNext DEF GoOnWith
  <2>2. \A t \in timers' : <<t, n>> \in before' => t \in seen'
    BY <1>1, <1>2, <1>4, NextStandsNext
  <2> QED BY <1>2, <2>1, <2>2 DEF Pointers, SeenSoFar
<1> QED BY <1>3, <1>4

LEMMA PointersNext ==
    ASSUME IndInv, [Next]_vars
    PROVE  /\ Pointers'
           /\ pc # "idle" /\ timer_active # None /\ pc' = "idle" => (timers \subseteq seen)'
<1> USE DEF passVars, listVars
<1>0. TypeOK /\ Ordered /\ Pointers
  BY DEF IndInv
<1>1. CASE Create
  <2>1. PICK t \in Timers \ timers : /\ timers' = timers \cup {t}
                                     /\ before' = before \cup ({t} \X timers)
    BY <1>1 DEF Create
  <2>2. /\ UNCHANGED <<pc, timer_active, next, seen, timer_deleted, stale>>
        /\ timer_created' /\ pc \in {"idle", "callback"}
    BY <1>1 DEF Create, InCallback
  <2>3. ASSUME timer_active \in timers, IsNext(timer_active, next)
        PROVE  IsNext(timer_active, next)'
    <3>1. \A m : <<timer_active, m>> \in before' <=> <<timer_active, m>> \in before
      BY <2>1, <2>3
    <3>2. {m \in timers : <<timer_active, m>> \in before}' =
          {m \in timers : <<timer_active, m>> \in before}
      BY <1>0, <2>1, <2>2, <3>1 DEF TypeOK
    <3> QED BY <2>1, <2>2, <2>3, <3>2 DEF IsNext, IsFirst
  <2> QED BY <1>0, <2>1, <2>2, <2>3 DEF Pointers
<1>2. ASSUME NEW t \in Timers, Delete(t)
      PROVE  Pointers' /\ pc' # "idle"
  BY <1>0, <1>2 DEF Delete, InCallback, Pointers
<1>3. CASE \/ \E t \in Timers : Pause(t) \/ Resume(t) \/ SetRepeatCount(t) \/ SetTime(t)
           \/ TimePasses \/ UNCHANGED vars
  <2>1. UNCHANGED Settings
    BY <1>3 DEF Pause, Resume, SetRepeatCount, SetTime, TimePasses, vars, Settings
  <2> QED BY <1>0, <2>1 DEF Settings, Pointers, SeenSoFar, IsNext, IsFirst
<1>4. CASE StartPass
  <2>1. PICK h \in Timers \cup {None} :
            /\ IsHead(h) /\ timer_active' = h
            /\ pc' = IF h = None THEN "idle" ELSE "exec"
    BY <1>4 DEF StartPass
  <2>2. /\ timer_active = None /\ next' = None /\ stale' = {} /\ ~timer_created'
        /\ UNCHANGED <<timers, before>>
    BY <1>0, <1>4 DEF StartPass, Pointers
  <2>3. h # None => /\ h \in timers
                    /\ \A t \in timers : <<t, h>> \notin before
    BY <1>0, <2>1 DEF IsHead, IsFirst, Ordered
  <2> QED BY <2>1, <2>2, <2>3 DEF Pointers, SeenSoFar
<1>5. CASE SkipPaused
  <2>1. PICK n \in Timers \cup {None} : IsNext(timer_active, n) /\ GoOnWith(n)
    BY <1>5 DEF SkipPaused
  <2> QED BY <1>0, <1>5, <2>1, TurnEnds DEF SkipPaused, Pointers
<1>6. CASE SkipNotReady
  <2>1. PICK n \in Timers \cup {None} : IsNext(timer_active, n) /\ GoOnWith(n)
    BY <1>6 DEF SkipNotReady
  <2>2. UNCHANGED listVars \/ Freed(timer_active)
    BY <1>6 DEF SkipNotReady, DeleteExpired
  <2> QED BY <1>0, <1>6, <2>1, <2>2, TurnEnds DEF SkipNotReady, Pointers
<1>7. CASE RunExpired
  BY <1>7 DEF RunExpired, StartAgain, Pointers
<1>8. CASE Call
  <2>1. PICK n \in Timers \cup {None} : IsNext(timer_active, n) /\ next' = n
    BY <1>8 DEF Call
  <2>2. /\ pc = "exec" /\ pc' = "callback"
        /\ UNCHANGED <<timer_active, seen, timers, before, timer_deleted, timer_created, stale>>
    BY <1>8 DEF Call
  <2>3. IsNext(timer_active, next)'
    BY <2>1, <2>2 DEF IsNext, IsFirst
  <2> QED BY <1>0, <2>2, <2>3 DEF Pointers, SeenSoFar, TypeOK
<1>9. CASE Return
  <2>1. CASE StartAgain
    BY <2>1 DEF StartAgain, Pointers
  <2>2. CASE ~timer_created /\ ~timer_deleted' /\ GoOnWith(next)
    <3>1. ~timer_deleted /\ UNCHANGED listVars
      BY <1>9, <2>2 DEF Return, DeleteExpired, Expired
    <3> QED BY <1>0, <1>9, <2>2, <3>1, TurnEnds DEF Return, Pointers, TypeOK
  <2> QED BY <1>9, <2>1, <2>2 DEF Return
<1> QED
  BY <1>1, <1>2, <1>3, <1>4, <1>5, <1>6, <1>7, <1>8, <1>9 DEF Next, HandlerStep, ProgramStep

-----------------------------------------------------------------------------
(* The theorems. *)

LEMMA InitInv == Init => IndInv
<1>1. [t \in Timers |-> -1] \in [Timers -> -1 .. MaxRepeat]
  BY RepeatAssumption
<1> QED BY <1>1 DEF Init, IndInv, TypeOK, Ordered, Pointers

LEMMA Invariance == Spec => []IndInv
<1>1. IndInv /\ [Next]_vars => IndInv'
  BY TypeNext, OrderedNext, PointersNext DEF IndInv
<1> QED BY InitInv, <1>1, PTL DEF Spec

\* Every reachable state has the types of the variables.
THEOREM TypeCorrect == Spec => []TypeOK
<1>1. IndInv => TypeOK
  BY DEF IndInv
<1> QED BY <1>1, Invariance, PTL

\* Whatever callbacks create and delete, lv_timer_handler uses no freed timer.
THEOREM NoDanglingTimer == Spec => []NoStaleTimer
<1>1. IndInv => NoStaleTimer
  BY DEF IndInv, Pointers, NoStaleTimer
<1> QED BY <1>1, Invariance, PTL

\* lv_timer_handler returns only after a pass in which every timer had its turn.
THEOREM NobodyPassedOver == Spec => EveryTimerHasItsTurn
<1>1. IndInv /\ [Next]_vars =>
        [pc # "idle" /\ timer_active # None /\ pc' = "idle" => (timers \subseteq seen)']_vars
  BY PointersNext
<1> QED BY <1>1, Invariance, PTL DEF Spec, EveryTimerHasItsTurn

-----------------------------------------------------------------------------
(* The way on.  That a list has a head and every timer a successor, or      *)
(* none, is where the list being finite matters.  The induction is over the *)
(* number of nodes, as the least number of a set of counterexamples.        *)

LEMMA LeastNumber ==
    ASSUME NEW T \in SUBSET Nat, T # {}
    PROVE  \E x \in T : \A y \in T : ~ (y < x)
<1>1. IsWellFoundedOn(OpToRel(<, Nat), Nat)
  BY NatLessThanWellFounded
<1>2. PICK x \in T : \A y \in T : ~ (<<y, x>> \in OpToRel(<, Nat))
  BY <1>1, WFMin
<1>3. \A y \in T : y < x => <<y, x>> \in OpToRel(<, Nat)
  BY DEF OpToRel
<1> QED BY <1>2, <1>3

HasFirst(rest) == \E n \in Timers \cup {None} : IsFirst(n, rest)

\* One node more, before or behind the first one.
LEMMA FirstOfMore ==
    ASSUME TypeOK, Ordered, NEW rest \in SUBSET timers, NEW a \in rest, HasFirst(rest \ {a})
    PROVE  HasFirst(rest)
<1>1. PICK n \in Timers \cup {None} : IsFirst(n, rest \ {a})
  BY DEF HasFirst
<1>2. a \in Timers
  BY DEF TypeOK
<1>3. CASE rest \ {a} = {}
  <2>1. IsFirst(a, rest)
    BY <1>3 DEF IsFirst
  <2> QED BY <1>2, <2>1 DEF HasFirst
<1>4. CASE rest \ {a} # {}
  <2>1. n \in rest \ {a} /\ \A m \in (rest \ {a}) \ {n} : <<n, m>> \in before
    BY <1>1, <1>4 DEF IsFirst
  <2>2. CASE <<n, a>> \in before
    <3>1. IsFirst(n, rest)
      BY <2>1, <2>2 DEF IsFirst
    <3> QED BY <3>1 DEF HasFirst
  <2>3. CASE <<n, a>> \notin before
    <3>1. <<a, n>> \in before
      BY <2>1, <2>3 DEF Ordered
    <3>2. \A m \in rest \ {a} : <<a, m>> \in before
      BY <2>1, <3>1 DEF Ordered
    <3>3. IsFirst(a, rest)
      BY <3>2 DEF IsFirst
    <3> QED BY <1>2, <3>3 DEF HasFirst
  <2> QED BY <2>2, <2>3
<1> QED BY <1>3, <1>4

\* Every part of the list has a first node, or is empty.
LEMMA FirstExists ==
    ASSUME TypeOK, Ordered, IsFiniteSet(timers), NEW rest \in SUBSET timers
    PROVE  HasFirst(rest)
<1> DEFINE Bad == {s \in SUBSET timers : ~ HasFirst(s)}
           Sizes == {Cardinality(s) : s \in Bad}
<1> SUFFICES ASSUME Bad # {} PROVE FALSE
  OBVIOUS
<1>1. \A s \in SUBSET timers : IsFiniteSet(s) /\ Cardinality(s) \in Nat
  BY FS_Subset, FS_CardinalityType
<1>2. Sizes \in SUBSET Nat /\ Sizes # {}
  BY <1>1
<1>3. PICK s \in Bad : \A r \in Bad : ~ (Cardinality(r) < Cardinality(s))
  <2> HIDE DEF Sizes, Bad
  <2>1. PICK k \in Sizes : \A j \in Sizes : ~ (j < k)
    BY <1>2, LeastNumber
  <2> QED BY <2>1 DEF Sizes
<1>4. s # {}
  <2>1. IsFirst(None, {})
    BY DEF IsFirst
  <2>2. HasFirst({})
    BY <2>1 DEF HasFirst
  <2> QED BY <2>2
<1>5. PICK a \in s : TRUE
  BY <1>4
<1>6. Cardinality(s \ {a}) = Cardinality(s) - 1
  BY <1>1, FS_RemoveElement
<1>7. s \ {a} \in SUBSET timers /\ s \ {a} \notin Bad
  BY <1>1, <1>3, <1>6
<1>8. HasFirst(s \ {a})
  BY <1>7
<1> QED BY <1>8, FirstOfMore

\* The list is always finite.
LEMMA ListIsFinite == Spec => []IsFiniteSet(timers)
<1>1. Init => IsFiniteSet(timers)
  BY FS_EmptySet DEF Init
<1>2. ASSUME IsFiniteSet(timers), [Next]_vars PROVE IsFiniteSet(timers)'
  <2>1. \A t : IsFiniteSet(timers \cup {t}) /\ IsFiniteSet(timers \ {t})
    BY <1>2, FS_AddElement, FS_RemoveElement
  <2>2. timers' = timers \/ \E t : timers' \in {timers \cup {t}, timers \ {t}}
    <3>1. CASE HandlerStep
      BY <3>1 DEF HandlerStep, StartPass, SkipPaused, SkipNotReady, RunExpired, Call, Return,
                  DeleteExpired, Freed, listVars
    <3>2. CASE ProgramStep \/ TimePasses \/ UNCHANGED vars
      BY <3>2 DEF ProgramStep, Create, Delete, Pause, Resume, SetRepeatCount, SetTime,
                  TimePasses, Freed, Settings, listVars, vars
    <3> QED BY <1>2, <3>1, <3>2 DEF Next
  <2> QED BY <1>2, <2>1, <2>2
<1> QED BY <1>1, <1>2, PTL DEF Spec

\* What the steps of lv_timer_handler look for is there: the head of the list when a pass
\* begins, and the timer behind the running one, or the end of the list.
WayOn ==
    /\ pc \in {"idle", "restart"} => \E h \in Timers \cup {None} : IsHead(h)
    /\ pc = "exec" => \E n \in Timers \cup {None} : IsNext(timer_active, n)

\* lv_timer_handler never runs off a list that the callbacks change, for any number of timers.
THEOREM HandlerFindsItsWay == Spec => []WayOn
<1>1. IndInv /\ IsFiniteSet(timers) => WayOn
  <2> SUFFICES ASSUME IndInv, IsFiniteSet(timers) PROVE WayOn
    OBVIOUS
  <2>1. HasFirst(timers) /\ HasFirst({m \in timers : <<timer_active, m>> \in before})
    BY FirstExists DEF IndInv
  <2> QED BY <2>1 DEF WayOn, HasFirst, IsHead, IsNext
<1> QED BY <1>1, Invariance, ListIsFinite, PTL

-----------------------------------------------------------------------------
(* Liveness.  What fairness needs to know of ENABLED is the state predicate *)
(* HandlerCanGoOn, which the theorems take for granted (TLC checks it).     *)
(* The argument is one of safety: from the moment a pass begins, a timer    *)
(* that stays due has its turn still to come, and the handler does not      *)
(* return before that; if it was never called the handler would not return. *)

Idle == pc = "idle"

\* t has its turn in this pass still to come
Ahead(t) == ~ Idle /\ t \notin seen /\ ~ (pc = "callback" /\ timer_active = t)

\* A pass that begins finds a timer that is on the list.
LEMMA PassBegins ==
    ASSUME IndInv, NEW t \in timers, StartPass
    PROVE  pc' = "exec" /\ t \in timers' /\ seen' = {}
<1>1. PICK h \in Timers \cup {None} : IsHead(h) /\ pc' = IF h = None THEN "idle" ELSE "exec"
  BY DEF StartPass
<1>2. h # None
  BY <1>1, NoneAssumption DEF IsHead, IsFirst, IndInv, TypeOK
<1> QED BY <1>1, <1>2 DEF StartPass, listVars

\* Outside of the handler only a pass can begin.
LEMMA IdleMoves ==
    ASSUME IndInv, NEW t \in timers, [Next]_vars, Idle
    PROVE  /\ (Idle' /\ UNCHANGED timer_deleted) \/ (pc' = "exec" /\ seen' = {})
           /\ HandlerStep => pc' = "exec" /\ seen' = {}
<1> USE DEF Idle
<1>1. HandlerStep => StartPass
  BY DEF HandlerStep, SkipPaused, SkipNotReady, RunExpired, Call, Return
<1>2. CASE StartPass
  BY <1>2, PassBegins
<1>3. CASE ProgramStep \/ TimePasses \/ UNCHANGED vars
  <2>1. UNCHANGED <<pc, timer_deleted>>
    BY <1>3 DEF ProgramStep, Create, Delete, Pause, Resume, SetRepeatCount, SetTime, TimePasses,
                InCallback, Settings, passVars, vars
  <2> QED BY <1>1, <1>2, <2>1
<1> QED BY <1>1, <1>2, <1>3 DEF Next

\* Who has its turn is the running timer; in a callback nobody has.
LEMMA TurnsAreOfActive ==
    ASSUME IndInv, [Next]_vars, ~ Idle, ~ StartPass
    PROVE  /\ seen' \in {seen, {}, seen \cup {timer_active}}
           /\ pc' = "callback" => seen' = seen /\ timer_active' = timer_active
           /\ pc' = "callback" /\ pc # "callback" => Call
<1>1. CASE SkipPaused \/ SkipNotReady
  BY <1>1 DEF SkipPaused, SkipNotReady, GoOnWith
<1>2. CASE RunExpired
  BY <1>2 DEF RunExpired, StartAgain
<1>3. CASE Call
  BY <1>3 DEF Call
<1>4. CASE Return
  BY <1>4 DEF Return, StartAgain, GoOnWith
<1>5. CASE ProgramStep \/ TimePasses \/ UNCHANGED vars
  BY <1>5 DEF ProgramStep, Create, Delete, Pause, Resume, SetRepeatCount, SetTime, TimePasses,
              Settings, passVars, vars
<1> QED BY <1>1, <1>2, <1>3, <1>4, <1>5 DEF Next, HandlerStep

\* While t stays due its turn stays to come: it is neither passed over nor skipped, and
\* the handler does not return.
LEMMA DueStaysAhead ==
    ASSUME IndInv, NEW t \in Timers, [Next]_vars, Due(t), Due(t)', Ahead(t)
    PROVE  Ahead(t)'
<1>0. TypeOK /\ Pointers /\ t \in timers /\ t \in timers'
  <2>1. TypeOK /\ TypeOK'
    BY TypeNext DEF IndInv
  <2> QED BY <2>1 DEF IndInv, TypeOK, Due
<1>1. CASE StartPass
  BY <1>0, <1>1, PassBegins DEF Ahead, Idle
<1>2. CASE ~ StartPass
  <2>1. t \notin seen'
    <3>1. timer_active = t => seen' # seen \cup {timer_active} \/ seen' = seen
      <4>1. CASE SkipPaused \/ SkipNotReady
        BY <4>1 DEF SkipPaused, SkipNotReady, Due
      <4>2. CASE Return
        BY <4>2 DEF Return, Ahead
      <4>3. CASE RunExpired
        BY <4>3 DEF RunExpired, StartAgain
      <4>4. CASE Call
        BY <4>4 DEF Call
      <4>5. CASE ProgramStep \/ TimePasses \/ UNCHANGED vars
        BY <4>5 DEF ProgramStep, Create, Delete, Pause, Resume, SetRepeatCount, SetTime,
                    TimePasses, Settings, passVars, vars
      <4> QED BY <1>2, <4>1, <4>2, <4>3, <4>4, <4>5 DEF Next, HandlerStep
    <3> QED BY <1>2, <3>1, TurnsAreOfActive DEF Ahead
  <2>2. ~ Idle'
    <3>1. CASE timer_active # None
      BY <1>0, <2>1, <3>1, PointersNext DEF Ahead, Idle
    <3>2. CASE timer_active = None
      <4>1. pc = "restart"
        BY <1>0, <3>2, NoneAssumption DEF Pointers, Ahead, Idle, TypeOK
      <4> QED BY <1>2, <4>1 DEF Next, HandlerStep, ProgramStep, StartPass, SkipPaused, SkipNotReady,
                 RunExpired, Call, Return, Create, Delete, Pause, Resume, SetRepeatCount, SetTime,
                 TimePasses, InCallback, Settings, passVars, vars, Idle
    <3> QED BY <3>1, <3>2
  <2>3. ~ (pc' = "callback" /\ timer_active' = t)
    <3>1. Call => timer_active # t
      BY DEF Call, Due
    <3> QED BY <1>2, <3>1, TurnsAreOfActive DEF Ahead
  <2> QED BY <2>1, <2>2, <2>3 DEF Ahead
<1> QED BY <1>1, <1>2

\* A timer that stays ready is called, for any number of timers and whatever the callbacks of
\* the others do, as long as lv_timer_handler returns.
THEOREM DueIsAlwaysCalled == FairSpec /\ []HandlerCanGoOn => DueIsCalled
<1>1. ASSUME NEW t \in Timers
      PROVE  FairSpec /\ []HandlerCanGoOn => (HandlerReturns => (Due(t) ~> ~Due(t)))
  <2>1. HandlerCanGoOn => (HandlerIsOn => ENABLED <<HandlerStep>>_vars)
    BY DEF HandlerCanGoOn
  <2>2. IndInv /\ Due(t) => HandlerIsOn /\ t \in timers
    BY DEF IndInv, TypeOK, Due, HandlerIsOn
  <2>3. IndInv /\ [Next]_vars /\ Due(t) /\ Idle => Idle' \/ Ahead(t)'
    BY <2>2, IdleMoves DEF Ahead, Idle
  <2>4. IndInv /\ [Next]_vars /\ <<HandlerStep>>_vars /\ Due(t) /\ Idle => Ahead(t)'
    BY <2>2, IdleMoves DEF Ahead, Idle
  <2>5. IndInv /\ [Next]_vars /\ Due(t) /\ Due(t)' /\ Ahead(t) => Ahead(t)'
    BY DueStaysAhead
  <2>6. Ahead(t) => ~ Idle
    BY DEF Ahead
  <2>7. HandlerReturns => []<>Idle
    BY PTL DEF HandlerReturns, Idle
  <2>8. FairSpec => []IndInv
    BY Invariance, PTL DEF FairSpec
  <2>9. FairSpec /\ []HandlerCanGoOn => (Idle ~> Ahead(t) \/ ~Due(t))
    BY <2>1, <2>2, <2>3, <2>4, <2>8, PTL DEF FairSpec, Spec
  <2> QED BY <2>5, <2>6, <2>7, <2>8, <2>9, PTL DEF FairSpec, Spec
<1> QED BY <1>1 DEF DueIsCalled

\* t has its turn still to come, or the flag kept it from being deleted in its turn
Passing(t) == ~ Idle /\ (t \notin seen \/ timer_deleted)

\* A pass in which t is not deleted although its count is over ends with the flag set.
Missed(t) == Passing(t) \/ (Idle /\ timer_deleted)

\* In its turn a timer whose count is over is deleted, unless the flag is set.
LEMMA OverStaysMissed ==
    ASSUME IndInv, NEW t \in Timers, [Next]_vars, Over(t), Over(t)', Missed(t)
    PROVE  Missed(t)'
<1> USE DEF Missed, Passing, Idle
<1>1. TypeOK /\ Pointers /\ t \in timers /\ t \in timers'
  BY DEF IndInv, Over
<1>2. CASE Idle
  BY <1>1, <1>2, IdleMoves
<1>3. CASE StartPass
  BY <1>1, <1>3, PassBegins
<1>4. CASE ~ Idle /\ ~ StartPass
  <2>1. CASE SkipPaused
    <3>1. timer_active \in timers /\ timer_active # t /\ UNCHANGED timer_deleted
      BY <1>1, <2>1 DEF SkipPaused, Pointers, Over
    <3>2. t \in seen' => t \in seen
      BY <2>1, <3>1 DEF SkipPaused, GoOnWith
    <3>3. pc' = "idle" => t \in seen'
      BY <1>1, <1>4, <3>1, PointersNext, NoneAssumption DEF TypeOK
    <3> QED BY <1>4, <3>1, <3>2, <3>3
  <2>2. CASE SkipNotReady
    <3>1. timer_active \in timers /\ (timer_deleted => timer_deleted')
      BY <1>1, <2>2 DEF SkipNotReady, Pointers, DeleteExpired
    <3>2. timer_active = t => timer_deleted'
      BY <2>2 DEF SkipNotReady, DeleteExpired, Expired, Freed, Over
    <3>3. t \in seen' => t \in seen \/ timer_active = t
      BY <2>2 DEF SkipNotReady, GoOnWith
    <3>4. pc' = "idle" => t \in seen'
      BY <1>1, <1>4, <3>1, PointersNext, NoneAssumption DEF TypeOK
    <3> QED BY <1>4, <3>1, <3>2, <3>3, <3>4
  <2>3. CASE RunExpired
    BY <2>3 DEF RunExpired, StartAgain
  <2>4. CASE Call
    BY <1>4, <2>4 DEF Call
  <2>5. CASE Return
    <3>1. CASE StartAgain
      BY <3>1 DEF StartAgain
    <3>2. CASE ~ timer_created /\ ~ timer_deleted' /\ GoOnWith(next)
      <4>1. ~ timer_deleted
        BY <2>5, <3>2 DEF Return, DeleteExpired
      <4>2. timer_active \in timers /\ timer_active # t
        BY <1>1, <2>5, <3>2, <4>1 DEF Return, DeleteExpired, Expired, Over, Pointers
      <4>3. t \in seen' => t \in seen
        BY <3>2, <4>2 DEF GoOnWith
      <4>4. pc' = "idle" => t \in seen'
        BY <1>1, <1>4, <4>2, PointersNext, NoneAssumption DEF TypeOK
      <4> QED BY <1>4, <4>1, <4>3, <4>4
    <3> QED BY <2>5, <3>1, <3>2 DEF Return
  <2>6. CASE ProgramStep \/ TimePasses \/ UNCHANGED vars
    <3>1. UNCHANGED <<pc, seen>> /\ (timer_deleted => timer_deleted')
      BY <2>6 DEF ProgramStep, Create, Delete, Pause, Resume, SetRepeatCount, SetTime,
                  TimePasses, Settings, passVars, vars
    <3> QED BY <1>4, <3>1
  <2> QED BY <1>4, <2>1, <2>2, <2>3, <2>4, <2>5, <2>6 DEF Next, HandlerStep
<1> QED BY <1>2, <1>3, <1>4

\* A timer whose repeat count is over is deleted, even if lv_timer_exec must leave it in the
\* turn in which its callback deletes another one.
THEOREM ExpiredIsAlwaysDeleted == FairSpec /\ []HandlerCanGoOn => ExpiredIsDeleted
<1>1. ASSUME NEW t \in Timers
      PROVE  FairSpec /\ []HandlerCanGoOn => (QuietPasses => (Over(t) ~> ~Over(t)))
  <2> DEFINE Quiet == Idle /\ ~ timer_deleted
  <2>1. HandlerCanGoOn => (HandlerIsOn => ENABLED <<HandlerStep>>_vars)
    BY DEF HandlerCanGoOn
  <2>2. Over(t) => HandlerIsOn /\ t \in timers
    BY DEF Over, HandlerIsOn
  <2>3. IndInv /\ [Next]_vars /\ Over(t) /\ Idle => Idle' \/ Missed(t)'
    BY <2>2, IdleMoves DEF Missed, Passing, Idle
  <2>4. IndInv /\ [Next]_vars /\ <<HandlerStep>>_vars /\ Over(t) /\ Idle => Missed(t)'
    BY <2>2, IdleMoves DEF Missed, Passing, Idle
  <2>5. IndInv /\ [Next]_vars /\ Over(t) /\ Over(t)' /\ Missed(t) => Missed(t)'
    BY OverStaysMissed
  <2>6. (Missed(t) => ~ Quiet) /\ (Quiet => Idle)
    BY DEF Missed, Passing
  <2>7. Quiet <=> pc = "idle" /\ ~ timer_deleted
    BY DEF Idle
  <2>8. QuietPasses => []<>Quiet
    BY <2>7, PTL DEF QuietPasses
  <2>9. FairSpec => []IndInv
    BY Invariance, PTL DEF FairSpec
  <2>10. FairSpec /\ []HandlerCanGoOn => (Idle ~> Missed(t) \/ ~Over(t))
    BY <2>1, <2>2, <2>3, <2>4, <2>9, PTL DEF FairSpec, Spec
  <2> QED BY <2>5, <2>6, <2>8, <2>9, <2>10, PTL DEF FairSpec, Spec
<1> QED BY <1>1 DEF ExpiredIsDeleted

-----------------------------------------------------------------------------
(* The tick. *)

\* lv_tick_elaps is right across the overflow of the tick, for less than its range.
THEOREM ElapsedOverOverflow ==
    ASSUME NEW w \in Nat \ {0}, NEW prev \in 0 .. w - 1, NEW d \in 0 .. w - 1
    PROVE  Elapsed(w, (prev + d) % w, prev) = d
<1>1. CASE prev + d < w
  <2>1. (prev + d) % w = prev + d
    BY <1>1
  <2> QED BY <2>1 DEF Elapsed
<1>2. CASE prev + d >= w
  <2>1. (prev + d) % w = prev + d - w
    BY <1>2
  <2> QED BY <2>1 DEF Elapsed
<1> QED BY <1>1, <1>2

\* A timer waits at most its period from now on, however long it was paused or left alone.
THEOREM NeverLongerThanPeriod ==
    ASSUME NEW w \in Nat \ {0}, NEW now \in 0 .. w - 1, NEW last_run \in 0 .. w - 1,
           NEW period \in 0 .. w - 1
    PROVE  TimeRemaining(w, now, last_run, period) \in 0 .. period
<1>1. Elapsed(w, now, last_run) \in Nat
  BY DEF Elapsed
<1> QED BY <1>1 DEF TimeRemaining

\* lv_timer_ready makes a timer ready, but for the longest period there is.
THEOREM ReadyIsReady ==
    ASSUME NEW w \in Nat \ {0, 1}, NEW now \in 0 .. w - 1, NEW period \in 0 .. w - 1
    PROVE  TimeRemaining(w, now, ReadySince(w, now, period), period) = 0 <=> period # w - 1
<1>1. CASE now >= period + 1
  <2>1. ReadySince(w, now, period) = now - period - 1
    BY <1>1 DEF ReadySince
  <2> QED BY <1>1, <2>1 DEF TimeRemaining, Elapsed
<1>2. CASE now < period + 1
  <2>1. ReadySince(w, now, period) = now - period - 1 + w
    BY <1>2 DEF ReadySince
  <2> QED BY <1>2, <2>1 DEF TimeRemaining, Elapsed
<1> QED BY <1>1, <1>2
=============================================================================
