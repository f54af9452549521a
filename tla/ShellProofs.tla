----------------------------- MODULE ShellProofs -----------------------------
(***************************************************************************)
(* Proofs about Shell, for any number of windows left behind.              *)
(***************************************************************************)
EXTENDS Shell, FiniteSetTheorems, TLAPS

\* Windows of which at most one is on the screen, above all others but message boxes.
Tops == {"unlock", "setpw", "desktop", "player", "thumbs", "viewer", "time"}

\* the next window below that is not a message box
Under(s, i, kind) == \E j \in 1 .. i - 1 : s[j] = kind /\ \A k \in j + 1 .. i - 1 : s[k] = "msgbox"

\* What such a window leaves behind when it is closed: the keypads a lock window, the others
\* anything but a mask.
Grounded(s) ==
    \A i \in 1 .. Len(s) :
        /\ s[i] \in {"unlock", "setpw"} => Under(s, i, "lock")
        /\ s[i] \in Tops => ~ Under(s, i, "mask")

\* What may lie under a touch: such a window is the topmost one, a list at the bottom.
Shape(s) ==
    /\ \A i, j \in 1 .. Len(s) : s[i] \in Tops /\ i < j => s[j] = "msgbox"
    /\ \A i \in 1 .. Len(s) : s[i] = "list" => i = 1
    /\ Grounded(s)

\* above the last lock window or mask there are windows of the lock screen only
Covered(s) ==
    \E i \in 1 .. Len(s) :
        /\ s[i] \in {"lock", "mask"}
        /\ \A j \in i + 1 .. Len(s) : s[j] \in {"unlock", "setpw", "msgbox"}

-----------------------------------------------------------------------------
(* Sequences of windows. *)

\* A set of positions has a last one, found by Max.
LEMMA LastPosition ==
    ASSUME NEW n \in Nat, NEW I \in SUBSET (1 .. n), I # {}
    PROVE  Max(I) \in I /\ (\A i \in I : i <= Max(I))
<1> DEFINE After(i) == {j \in 1 .. n : j > i}
           T == {After(i) : i \in I}
           R == StrictSubsetOrdering(1 .. n)
<1>1. IsFiniteSet(1 .. n)
  BY FS_Interval
<1>2. IsWellFoundedOn(R, SUBSET (1 .. n))
  BY <1>1, FS_StrictSubsetOrderingWellFounded, FS_FiniteSubsetsOfFinite
<1>3. T \subseteq SUBSET (1 .. n) /\ T # {}
  OBVIOUS
<1>4. PICK x \in T : \A y \in T : ~ (<<y, x>> \in R)
  <2> HIDE DEF T, R
  <2> QED
    BY <1>2, <1>3, WFMin
<1>5. PICK i \in I : x = After(i)
  BY <1>4
<1>6. \A j \in I : j <= i
  <2> SUFFICES ASSUME NEW j \in I, ~ (j <= i) PROVE FALSE
    OBVIOUS
  <2>1. i \in 1 .. n /\ j \in 1 .. n /\ j > i
    OBVIOUS
  <2>2. After(j) \subseteq After(i) /\ After(j) # After(i)
    BY <2>1
  <2>3. <<After(j), After(i)>> \in R
    BY <2>2 DEF StrictSubsetOrdering
  <2> QED
    BY <2>3, <1>4, <1>5
<1> QED
  BY <1>6 DEF Max

\* SelectLastInSeq, as Delete uses it
LastAt(s, kind) ==
    LET I == {i \in 1 .. Len(s) : s[i] = kind}
    IN  IF I # {} THEN Max(I) ELSE 0

\* The last window of a kind, and the topmost one that is not a message box.
LEMMA LastOfKind ==
    ASSUME NEW s \in Seq(Kinds), NEW kind
    PROVE  LET at == LastAt(s, kind) IN
           \/ at = 0 /\ \A i \in 1 .. Len(s) : s[i] # kind
           \/ /\ at \in 1 .. Len(s) /\ s[at] = kind
              /\ \A i \in 1 .. Len(s) : s[i] = kind => i <= at
<1> DEFINE I == {i \in 1 .. Len(s) : s[i] = kind}
<1>1. CASE I = {}
  BY <1>1 DEF LastAt
<1>2. CASE I # {}
  <2>1. Len(s) \in Nat /\ I \in SUBSET (1 .. Len(s))
    OBVIOUS
  <2>2. Max(I) \in I /\ \A i \in I : i <= Max(I)
    <3> HIDE DEF I
    <3> QED
      BY <1>2, <2>1, LastPosition
  <2> QED
    BY <1>2, <2>2 DEF LastAt
<1> QED
  BY <1>1, <1>2

LEMMA TopIs ==
    ASSUME NEW s \in Seq(Kinds)
    PROVE  \/ TopOf(s) = "none" /\ \A i \in 1 .. Len(s) : s[i] = "msgbox"
           \/ \E i \in 1 .. Len(s) : /\ TopOf(s) = s[i] /\ s[i] # "msgbox"
                                     /\ \A j \in i + 1 .. Len(s) : s[j] = "msgbox"
<1> DEFINE I == {i \in 1 .. Len(s) : s[i] # "msgbox"}
           at == SelectLastInSeq(s, LAMBDA w : w # "msgbox")
<1>1. CASE I = {}
  <2>1. at = 0
    BY <1>1 DEF SelectLastInSeq
  <2> QED
    BY <1>1, <2>1 DEF TopOf
<1>2. CASE I # {}
  <2>1. Len(s) \in Nat /\ I \in SUBSET (1 .. Len(s))
    OBVIOUS
  <2>2. PICK m \in I : m = Max(I) /\ \A i \in I : i <= m
    <3> HIDE DEF I
    <3> QED
      BY <1>2, <2>1, LastPosition
  <2>3. at = m
    BY <1>2, <2>2 DEF SelectLastInSeq
  <2>4. m \in 1 .. Len(s) /\ s[m] # "msgbox"
    OBVIOUS
  <2>5. TopOf(s) = s[m]
    BY <2>3, <2>4 DEF TopOf
  <2>6. \A j \in m + 1 .. Len(s) : s[j] = "msgbox"
    BY <2>2, <2>4
  <2> QED
    BY <2>4, <2>5, <2>6
<1> QED
  BY <1>1, <1>2

\* The topmost window is found wherever it is.
LEMMA TopAt ==
    ASSUME NEW s \in Seq(Kinds), NEW i \in 1 .. Len(s), s[i] # "msgbox",
           \A j \in i + 1 .. Len(s) : s[j] = "msgbox"
    PROVE  TopOf(s) = s[i]
BY TopIs

LEMMA TopNone ==
    ASSUME NEW s \in Seq(Kinds), \A i \in 1 .. Len(s) : s[i] = "msgbox"
    PROVE  TopOf(s) = "none"
BY TopIs

\* In a good shape, a window that can only be on top is on top.
LEMMA ShapeTop ==
    ASSUME NEW s \in Seq(Kinds), Shape(s), NEW i \in 1 .. Len(s), s[i] \in Tops
    PROVE  TopOf(s) = s[i]
BY TopAt DEF Shape, Tops

\* What is under a window depends on the windows below it only.
LEMMA UnderSame ==
    ASSUME NEW s, NEW t, NEW i \in Nat, \A j \in 1 .. i - 1 : s[j] = t[j], NEW kind
    PROVE  Under(s, i, kind) <=> Under(t, i, kind)
<1>1. \A j \in 1 .. i - 1 : \A k \in j + 1 .. i - 1 : k \in 1 .. i - 1
  OBVIOUS
<1> QED
  BY <1>1 DEF Under

\* What is under a window is on top when the window is not there.
LEMMA UnderIsTop ==
    ASSUME NEW s \in Seq(Kinds), NEW r \in Seq(Kinds), NEW n \in Nat, n <= Len(r),
           \A i \in 1 .. n : r[i] = s[i], \A i \in n + 1 .. Len(r) : r[i] = "msgbox",
           NEW kind \in {"lock", "mask"}
    PROVE  Under(s, n + 1, kind) <=> TopOf(r) = kind
<1>1. ASSUME Under(s, n + 1, kind) PROVE TopOf(r) = kind
  <2>1. PICK j \in 1 .. n : s[j] = kind /\ \A k \in j + 1 .. n : s[k] = "msgbox"
    BY <1>1 DEF Under
  <2>2. j \in 1 .. Len(r) /\ r[j] = kind /\ r[j] # "msgbox"
    BY <2>1
  <2>3. \A k \in j + 1 .. Len(r) : r[k] = "msgbox"
    BY <2>1
  <2> QED
    BY <2>2, <2>3, TopAt
<1>2. ASSUME TopOf(r) = kind PROVE Under(s, n + 1, kind)
  <2>1. PICK j \in 1 .. Len(r) : /\ TopOf(r) = r[j] /\ r[j] # "msgbox"
                                 /\ \A k \in j + 1 .. Len(r) : r[k] = "msgbox"
    BY <1>2, TopIs
  <2>2. j \in 1 .. n
    BY <2>1
  <2>3. s[j] = kind /\ \A k \in j + 1 .. n : s[k] = "msgbox"
    BY <1>2, <2>1, <2>2
  <2> QED
    BY <2>2, <2>3 DEF Under
<1> QED
  BY <1>1, <1>2

LEMMA CoveredTop ==
    ASSUME NEW s \in Seq(Kinds), Covered(s)
    PROVE  TopOf(s) \in {"lock", "unlock", "setpw", "mask"}
<1>1. PICK i \in 1 .. Len(s) :
        /\ s[i] \in {"lock", "mask"}
        /\ \A j \in i + 1 .. Len(s) : s[j] \in {"unlock", "setpw", "msgbox"}
  BY DEF Covered
<1>2. PICK k \in 1 .. Len(s) : /\ TopOf(s) = s[k] /\ s[k] # "msgbox"
                               /\ \A j \in k + 1 .. Len(s) : s[j] = "msgbox"
  BY <1>1, TopIs
<1>3. k >= i
  BY <1>1, <1>2
<1> QED
  BY <1>1, <1>2, <1>3

\* A new window at the top.
LEMMA Appended ==
    ASSUME NEW s \in Seq(Kinds), NEW kind \in Kinds
    PROVE  /\ Append(s, kind) \in Seq(Kinds)
           /\ TopOf(Append(s, kind)) = IF kind = "msgbox" THEN TopOf(s) ELSE kind
           /\ /\ Shape(s) /\ kind # "list" /\ (TopOf(s) \notin Tops \/ kind = "msgbox")
              /\ kind \in {"unlock", "setpw"} => TopOf(s) = "lock"
              /\ kind \in Tops => TopOf(s) # "mask"
              => Shape(Append(s, kind))
           /\ Covered(s) /\ kind \in {"unlock", "setpw", "msgbox"} => Covered(Append(s, kind))
           /\ kind \in {"lock", "mask"} => Covered(Append(s, kind))
<1> DEFINE t == Append(s, kind)
<1>1. /\ t \in Seq(Kinds) /\ Len(t) = Len(s) + 1 /\ Len(s) \in Nat
      /\ t[Len(s) + 1] = kind
      /\ \A i \in 1 .. Len(s) : t[i] = s[i]
  OBVIOUS
<1> HIDE DEF t
<1>2. TopOf(t) = IF kind = "msgbox" THEN TopOf(s) ELSE kind
  <2>1. CASE kind # "msgbox"
    BY <1>1, <2>1, TopAt
  <2>2. CASE kind = "msgbox" /\ \A i \in 1 .. Len(s) : s[i] = "msgbox"
    BY <1>1, <2>2, TopNone
  <2>3. ASSUME kind = "msgbox", NEW i \in 1 .. Len(s), TopOf(s) = s[i], s[i] # "msgbox",
               \A j \in i + 1 .. Len(s) : s[j] = "msgbox"
        PROVE  TopOf(t) = TopOf(s)
    <3>1. i \in 1 .. Len(t) /\ t[i] # "msgbox" /\ t[i] = TopOf(s)
      BY <1>1, <2>3
    <3>2. \A j \in i + 1 .. Len(t) : t[j] = "msgbox"
      BY <1>1, <2>3
    <3> QED
      BY <1>1, <3>1, <3>2, TopAt
  <2> QED
    BY <2>1, <2>2, <2>3, TopIs
<1>3. ASSUME Shape(s), kind # "list", TopOf(s) \notin Tops \/ kind = "msgbox",
             kind \in {"unlock", "setpw"} => TopOf(s) = "lock",
             kind \in Tops => TopOf(s) # "mask"
      PROVE  Shape(t)
  <2>1. \A i \in 1 .. Len(s) : s[i] \in Tops => kind = "msgbox"
    BY <1>3, ShapeTop
  <2>2. \A i \in 1 .. Len(s) :
          /\ s[i] \in {"unlock", "setpw"} => Under(t, i, "lock")
          /\ s[i] \in Tops => ~ Under(t, i, "mask")
    <3> SUFFICES ASSUME NEW i \in 1 .. Len(s)
                 PROVE  /\ s[i] \in {"unlock", "setpw"} => Under(t, i, "lock")
                        /\ s[i] \in Tops => ~ Under(t, i, "mask")
      OBVIOUS
    <3>1. \A j \in 1 .. i - 1 : s[j] = t[j]
      BY <1>1
    <3>2. \A x : Under(s, i, x) <=> Under(t, i, x)
      BY <1>1, <3>1, UnderSame
    <3> QED
      BY <1>3, <3>2 DEF Shape, Grounded
  <2>3. /\ kind \in {"unlock", "setpw"} => Under(t, Len(s) + 1, "lock")
        /\ kind \in Tops => ~ Under(t, Len(s) + 1, "mask")
    <3>1. \A x \in {"lock", "mask"} : Under(t, Len(s) + 1, x) <=> TopOf(s) = x
      BY <1>1, UnderIsTop
    <3> QED
      BY <1>3, <3>1
  <2>4. Grounded(t)
    <3> SUFFICES ASSUME NEW i \in 1 .. Len(t)
                 PROVE  /\ t[i] \in {"unlock", "setpw"} => Under(t, i, "lock")
                        /\ t[i] \in Tops => ~ Under(t, i, "mask")
      BY DEF Grounded
    <3>1. CASE i = Len(s) + 1
      BY <1>1, <2>3, <3>1
    <3>2. CASE i \in 1 .. Len(s)
      <4>1. t[i] = s[i]
        BY <1>1, <3>2
      <4> QED
        BY <2>2, <3>2, <4>1
    <3> QED
      BY <1>1, <3>1, <3>2
  <2> QED
    BY <1>1, <1>3, <2>1, <2>4 DEF Shape
<1>4. ASSUME Covered(s), kind \in {"unlock", "setpw", "msgbox"} PROVE Covered(t)
  <2>1. PICK i \in 1 .. Len(s) :
          /\ s[i] \in {"lock", "mask"}
          /\ \A j \in i + 1 .. Len(s) : s[j] \in {"unlock", "setpw", "msgbox"}
    BY <1>4 DEF Covered
  <2>2. \A j \in i + 1 .. Len(t) : t[j] \in {"unlock", "setpw", "msgbox"}
    BY <1>1, <1>4, <2>1
  <2> QED
    BY <1>1, <2>1, <2>2 DEF Covered
<1>5. ASSUME kind \in {"lock", "mask"} PROVE Covered(t)
  BY <1>1, <1>5 DEF Covered
<1> QED
  BY <1>1, <1>2, <1>3, <1>4, <1>5 DEF t

\* The screen without the window at one place.
LEMMA Removed ==
    ASSUME NEW s \in Seq(Kinds), NEW at \in 1 .. Len(s)
    PROVE  /\ RemoveAt(s, at) \in Seq(Kinds)
           /\ Len(RemoveAt(s, at)) = Len(s) - 1
           /\ \A i \in 1 .. Len(s) - 1 :
                RemoveAt(s, at)[i] = IF i < at THEN s[i] ELSE s[i + 1]
<1> DEFINE n == Len(s)
           left == SubSeq(s, 1, at - 1)
           right == SubSeq(s, at + 1, n)
<1>1. n \in Nat /\ \A i \in 1 .. n : s[i] \in Kinds
  OBVIOUS
<1>2. /\ left \in Seq(Kinds) /\ Len(left) = at - 1
      /\ \A i \in 1 .. at - 1 : left[i] = s[i]
  BY <1>1
<1>3. /\ right \in Seq(Kinds) /\ Len(right) = n - at
      /\ \A i \in 1 .. n - at : right[i] = s[at + i]
  BY <1>1
<1>4. RemoveAt(s, at) = left \o right
  BY DEF RemoveAt
<1> HIDE DEF left, right
<1>5. /\ left \o right \in Seq(Kinds) /\ Len(left \o right) = n - 1
      /\ \A i \in 1 .. n - 1 :
           (left \o right)[i] = IF i <= at - 1 THEN left[i] ELSE right[i - (at - 1)]
  BY <1>1, <1>2, <1>3
<1> QED
  BY <1>1, <1>2, <1>3, <1>4, <1>5

-----------------------------------------------------------------------------
(* What the helpers of the handlers do to a screen. *)

Values == {"null", "valid", "dangling"}
Screens == [windows : Seq(Kinds), ptr : [Pointers -> Values], timer : [Timers -> Nat]]

LEMMA PointersAre ==
    /\ Pointers = {"desktop_win", "status_bar_label", "black_screen_mask", "unlock_screen",
                   "set_password_screen", "music_list_screen", "music_player_screen",
                   "thumbnail_screen", "viewer_screen", "hide_timer_data", "cover"}
    /\ Window["desktop_win"] = "desktop" /\ Window["status_bar_label"] = "desktop"
    /\ Window["black_screen_mask"] = "mask" /\ Window["unlock_screen"] = "unlock"
    /\ Window["set_password_screen"] = "setpw" /\ Window["music_list_screen"] = "list"
    /\ Window["music_player_screen"] = "player" /\ Window["thumbnail_screen"] = "thumbs"
    /\ Window["viewer_screen"] = "viewer" /\ Window["hide_timer_data"] = "viewer"
    /\ Window["cover"] = "none"
    /\ \A p \in Pointers : Window[p] \in Kinds \cup {"none"}
BY DEF Pointers, Window, Kinds

LEMMA SetNullIs ==
    ASSUME NEW u \in Screens, NEW pointers
    PROVE  LET v == SetNull(u, pointers) IN
           /\ v \in Screens
           /\ v.windows = u.windows /\ v.timer = u.timer
           /\ \A p \in Pointers : v.ptr[p] = IF p \in pointers THEN "null" ELSE u.ptr[p]
BY DEF SetNull, Screens, Values

LEMMA CreateIs ==
    ASSUME NEW u \in Screens, NEW kind \in Kinds, NEW pointers
    PROVE  LET v == Create(u, kind, pointers) IN
           /\ v \in Screens
           /\ v.windows = Append(u.windows, kind) /\ v.timer = u.timer
           /\ \A p \in Pointers : v.ptr[p] = IF p \in pointers THEN "valid" ELSE u.ptr[p]
<1>1. u.windows \in Seq(Kinds)
  BY DEF Screens
<1>2. Append(u.windows, kind) \in Seq(Kinds)
  BY <1>1, Appended
<1> QED
  BY <1>2 DEF Create, Screens, Values

LEMMA DangleIs ==
    ASSUME NEW u \in Screens, NEW kinds
    PROVE  LET v == Dangle(u, kinds) IN
           /\ v \in Screens
           /\ v.windows = u.windows /\ v.timer = u.timer
           /\ \A p \in Pointers : v.ptr[p] =
                IF Window[p] \in kinds /\ u.ptr[p] = "valid" THEN "dangling" ELSE u.ptr[p]
BY DEF Dangle, Screens, Values

LEMMA CleanIs ==
    ASSUME NEW u \in Screens
    PROVE  LET v == Clean(u) IN
           /\ v \in Screens
           /\ v.windows = <<>> /\ v.timer = u.timer
           /\ \A p \in Pointers :
                v.ptr[p] = IF u.ptr[p] = "valid" THEN "dangling" ELSE u.ptr[p]
<1> DEFINE w == [u EXCEPT !.windows = <<>>]
<1>1. w \in Screens /\ w.windows = <<>> /\ w.timer = u.timer /\ w.ptr = u.ptr
  <2>1. <<>> \in Seq(Kinds)
    OBVIOUS
  <2> QED
    BY <2>1 DEF Screens
<1> HIDE DEF w
<1>2. Clean(u) = Dangle(w, Kinds \cup {"none"})
  BY DEF Clean, w
<1>3. /\ Clean(u) \in Screens
      /\ Clean(u).windows = w.windows /\ Clean(u).timer = w.timer
      /\ \A p \in Pointers : Clean(u).ptr[p] =
           IF Window[p] \in Kinds \cup {"none"} /\ w.ptr[p] = "valid"
             THEN "dangling" ELSE w.ptr[p]
  BY <1>1, <1>2, DangleIs
<1>4. \A p \in Pointers : Window[p] \in Kinds \cup {"none"}
  BY PointersAre
<1> QED
  BY <1>1, <1>3, <1>4

LEMMA StartTimerIs ==
    ASSUME NEW u \in Screens, NEW t \in Timers
    PROVE  LET v == StartTimer(u, t) IN
           /\ v \in Screens /\ v.windows = u.windows /\ v.ptr = u.ptr
           /\ \A r \in Timers : v.timer[r] = IF r = t THEN u.timer[t] + 1 ELSE u.timer[r]
<1>1. u.timer \in [Timers -> Nat] /\ u.timer[t] + 1 \in Nat
  BY DEF Screens
<1> QED
  BY <1>1 DEF StartTimer, Screens

LEMMA StopTimerIs ==
    ASSUME NEW u \in Screens, NEW t \in Timers
    PROVE  LET v == StopTimer(u, t) IN
           /\ v \in Screens /\ v.windows = u.windows /\ v.ptr = u.ptr
           /\ \A r \in Timers : v.timer[r] =
                IF r = t THEN IF u.timer[t] = 0 THEN 0 ELSE u.timer[t] - 1 ELSE u.timer[r]
<1> DEFINE n == IF u.timer[t] = 0 THEN 0 ELSE u.timer[t] - 1
<1>1. u.timer \in [Timers -> Nat] /\ n \in Nat
  BY DEF Screens
<1>2. StopTimer(u, t) = [u EXCEPT !.timer[t] = n]
  BY <1>1 DEF StopTimer, Screens
<1> HIDE DEF n
<1>3. LET v == StopTimer(u, t) IN
      /\ v \in Screens /\ v.windows = u.windows /\ v.ptr = u.ptr
      /\ \A r \in Timers : v.timer[r] = IF r = t THEN n ELSE u.timer[r]
  BY <1>1, <1>2 DEF Screens
<1> QED
  BY <1>3 DEF n

LEMMA DeleteIs ==
    ASSUME NEW u \in Screens, NEW kind
    PROVE  LET s == u.windows
               v == Delete(u, kind)
           IN  \/ v = u /\ \A i \in 1 .. Len(s) : s[i] # kind
               \/ /\ v \in Screens /\ v.timer = u.timer
                  /\ \E at \in 1 .. Len(s) :
                       /\ s[at] = kind /\ \A i \in 1 .. Len(s) : s[i] = kind => i <= at
                       /\ v.windows = RemoveAt(s, at)
                  /\ \A p \in Pointers : v.ptr[p] =
                       IF Window[p] = kind /\ u.ptr[p] = "valid" THEN "dangling" ELSE u.ptr[p]
<1> DEFINE s == u.windows
           at == LastAt(s, kind)
           w == [u EXCEPT !.windows = RemoveAt(@, at)]
<1>1. s \in Seq(Kinds)
  BY DEF Screens
<1>2. \/ at = 0 /\ \A i \in 1 .. Len(s) : s[i] # kind
      \/ /\ at \in 1 .. Len(s) /\ s[at] = kind
         /\ \A i \in 1 .. Len(s) : s[i] = kind => i <= at
  BY <1>1, LastOfKind
<1>3. Delete(u, kind) = IF at = 0 THEN u ELSE Dangle(w, {kind})
  BY DEF Delete, SelectLastInSeq, LastAt
<1> HIDE DEF at
<1>4. CASE at = 0
  BY <1>2, <1>3, <1>4
<1>5. CASE at # 0
  <2>1. RemoveAt(s, at) \in Seq(Kinds)
    BY <1>1, <1>2, <1>5, Removed
  <2>2. w \in Screens /\ w.windows = RemoveAt(s, at) /\ w.timer = u.timer /\ w.ptr = u.ptr
    BY <2>1 DEF Screens
  <2> HIDE DEF w
  <2> QED
    BY <1>2, <1>3, <1>5, <2>2, DangleIs
<1> QED
  BY <1>4, <1>5

\* Deleting a window that is on top, and the pointer to it.
LEMMA DeleteTop ==
    ASSUME NEW u \in Screens, Shape(u.windows), NEW kind \in Tops,
           TopOf(u.windows) = kind
    PROVE  LET v == Delete(u, kind) IN
           /\ v \in Screens /\ v.timer = u.timer
           /\ Shape(v.windows) /\ TopOf(v.windows) \notin Tops \cup {"mask"}
           /\ kind \in {"unlock", "setpw"} => TopOf(v.windows) = "lock"
           /\ Covered(u.windows) /\ kind \in {"unlock", "setpw"} => Covered(v.windows)
           /\ \A p \in Pointers : v.ptr[p] =
                IF Window[p] = kind /\ u.ptr[p] = "valid" THEN "dangling" ELSE u.ptr[p]
<1> DEFINE s == u.windows
           v == Delete(u, kind)
<1>1. s \in Seq(Kinds) /\ Len(s) \in Nat
  BY DEF Screens
<1>2. PICK top \in 1 .. Len(s) : s[top] = kind /\ s[top] # "msgbox"
  BY <1>1, TopIs DEF Tops
<1>3. PICK at \in 1 .. Len(s) :
        /\ s[at] = kind /\ \A i \in 1 .. Len(s) : s[i] = kind => i <= at
        /\ v.windows = RemoveAt(s, at)
        /\ v \in Screens /\ v.timer = u.timer
        /\ \A p \in Pointers : v.ptr[p] =
             IF Window[p] = kind /\ u.ptr[p] = "valid" THEN "dangling" ELSE u.ptr[p]
  BY <1>2, DeleteIs
<1> DEFINE r == RemoveAt(s, at)
<1>4. /\ r \in Seq(Kinds) /\ Len(r) = Len(s) - 1
      /\ \A i \in 1 .. Len(s) - 1 : r[i] = IF i < at THEN s[i] ELSE s[i + 1]
  BY <1>1, Removed
<1> HIDE DEF r
<1>5. /\ \A j \in at + 1 .. Len(s) : s[j] = "msgbox"
      /\ \A i \in 1 .. at - 1 : s[i] \notin Tops
  <2>1. s[at] \in Tops /\ kind # "msgbox"
    BY <1>3 DEF Tops
  <2> QED
    BY <1>1, <1>3, <2>1 DEF Shape
<1>6. \A i \in 1 .. Len(r) : r[i] \notin Tops
  BY <1>1, <1>4, <1>5 DEF Tops
<1>7. TopOf(r) \notin Tops
  <2>1. TopOf(r) = "none" \/ \E i \in 1 .. Len(r) : TopOf(r) = r[i]
    BY <1>4, TopIs
  <2> QED
    BY <1>6, <2>1 DEF Tops
<1>8. Shape(r)
  <2>1. ASSUME NEW i \in 1 .. Len(r), r[i] = "list" PROVE i = 1
    <3>1. i \in 1 .. Len(s) /\ i + 1 \in 1 .. Len(s) /\ i \in Nat
      BY <1>1, <1>4
    <3>2. s[i] = "list" \/ s[i + 1] = "list"
      BY <1>4, <2>1, <3>1
    <3>3. \A k \in 1 .. Len(s) : s[k] = "list" => k = 1
      BY DEF Shape
    <3> QED
      BY <3>1, <3>2, <3>3
  <2>2. Grounded(r)
    BY <1>6 DEF Grounded, Tops
  <2>3. \A i, j \in 1 .. Len(r) : r[i] \in Tops /\ i < j => r[j] = "msgbox"
    BY <1>6
  <2> QED
    BY <2>1, <2>2, <2>3 DEF Shape
<1>9. ASSUME Covered(s), kind \in {"unlock", "setpw"} PROVE Covered(r)
  <2>1. PICK i \in 1 .. Len(s) :
          /\ s[i] \in {"lock", "mask"}
          /\ \A j \in i + 1 .. Len(s) : s[j] \in {"unlock", "setpw", "msgbox"}
    BY <1>9 DEF Covered
  <2>2. i < at
    BY <1>1, <1>3, <1>5, <1>9, <2>1
  <2>3. i \in 1 .. Len(r) /\ r[i] \in {"lock", "mask"}
    BY <1>1, <1>4, <2>1, <2>2
  <2>4. \A j \in i + 1 .. Len(r) : r[j] \in {"unlock", "setpw", "msgbox"}
    BY <1>1, <1>4, <2>1
  <2> QED
    BY <2>3, <2>4 DEF Covered
<1>10. /\ TopOf(r) # "mask"
       /\ kind \in {"unlock", "setpw"} => TopOf(r) = "lock"
  <2>1. PICK n \in Nat : n = at - 1 /\ n + 1 = at /\ n <= Len(r)
    BY <1>1, <1>4
  <2>2. \A i \in 1 .. n : r[i] = s[i]
    BY <1>1, <1>4, <2>1
  <2>3. \A i \in n + 1 .. Len(r) : r[i] = "msgbox"
    <3> SUFFICES ASSUME NEW i \in n + 1 .. Len(r) PROVE r[i] = "msgbox"
      OBVIOUS
    <3>1. i \in 1 .. Len(s) - 1 /\ ~ (i < at) /\ i + 1 \in at + 1 .. Len(s)
      BY <1>1, <1>4, <2>1
    <3> QED
      BY <1>4, <1>5, <3>1
  <2>4. \A x \in {"lock", "mask"} : Under(s, n + 1, x) <=> TopOf(r) = x
    BY <1>1, <1>4, <2>1, <2>2, <2>3, UnderIsTop
  <2> QED
    BY <1>3, <2>1, <2>4 DEF Shape, Grounded
<1> QED
  BY <1>3, <1>7, <1>8, <1>9, <1>10 DEF r

\* A window that can only be on top and is not is not there.
LEMMA DeleteNone ==
    ASSUME NEW u \in Screens, Shape(u.windows), NEW kind \in Tops,
           TopOf(u.windows) # kind
    PROVE  Delete(u, kind) = u
<1>1. u.windows \in Seq(Kinds)
  BY DEF Screens
<1>2. \A i \in 1 .. Len(u.windows) : u.windows[i] # kind
  BY <1>1, ShapeTop
<1> QED
  BY <1>2, DeleteIs

-----------------------------------------------------------------------------
(* The inductive invariant: what is on top decides over pointers and timers. *)

\* the pointer p is set as long as a window of that kind is on top
Tied(u, p, kind) == u.ptr[p] = IF TopOf(u.windows) = kind THEN "valid" ELSE "null"

Runs(u, t, kind) == u.timer[t] = IF TopOf(u.windows) = kind THEN 1 ELSE 0

Good(u) ==
    /\ u \in Screens /\ Shape(u.windows)
    /\ Tied(u, "desktop_win", "desktop") /\ Tied(u, "unlock_screen", "unlock")
    /\ Tied(u, "set_password_screen", "setpw") /\ Tied(u, "music_player_screen", "player")
    /\ Tied(u, "thumbnail_screen", "thumbs") /\ Tied(u, "viewer_screen", "viewer")
    /\ u.ptr["black_screen_mask"] = "null"
    /\ \/ u.ptr["music_list_screen"] = "null"
       \/ u.ptr["music_list_screen"] = "valid" /\ TopOf(u.windows) = "list"
    /\ TopOf(u.windows) = "desktop" => u.ptr["status_bar_label"] = "valid"
    /\ TopOf(u.windows) = "viewer" => u.ptr["hide_timer_data"] = "valid"
    /\ Runs(u, "status", "desktop") /\ Runs(u, "progress", "player")
    /\ u.timer["hide"] = 0 \/ (u.timer["hide"] = 1 /\ TopOf(u.windows) = "viewer")
    /\ u.timer["long_press"] \in {0, 1}

\* a screen on which a window may be opened
Clear(u) ==
    /\ Good(u)
    /\ TopOf(u.windows) \notin Tops
    /\ u.ptr["music_list_screen"] = "null"

IndInv ==
    /\ Good(ui)
    /\ pressed \in BOOLEAN /\ unlocked \in BOOLEAN /\ missed \in BOOLEAN
    /\ ui.timer["long_press"] = IF pressed THEN 1 ELSE 0
    /\ pressed => Top = "desktop"
    /\ ~ unlocked => Covered(ui.windows)
    /\ unlocked /\ ~ missed => Top \in {"desktop", "list", "player", "thumbs", "viewer", "time"}

LEMMA TimersAre == Timers = {"status", "long_press", "hide", "progress"}
BY DEF Timers

LEMMA DeleteIfNull ==
    ASSUME NEW u, NEW p, u.ptr[p] = "null"
    PROVE  DeleteIf(u, p) = u
BY DEF DeleteIf

\* if (ptr) { lv_obj_del(ptr); ptr = NULL; } with the window on top
LEMMA DeleteIfTop ==
    ASSUME NEW u \in Screens, Shape(u.windows), NEW p \in Pointers,
           Window[p] \in Tops, TopOf(u.windows) = Window[p], u.ptr[p] # "null"
    PROVE  LET v == DeleteIf(u, p) IN
           /\ v \in Screens /\ v.timer = u.timer
           /\ Shape(v.windows) /\ TopOf(v.windows) \notin Tops \cup {"mask"}
           /\ Window[p] \in {"unlock", "setpw"} => TopOf(v.windows) = "lock"
           /\ Covered(u.windows) /\ Window[p] \in {"unlock", "setpw"} => Covered(v.windows)
           /\ \A q \in Pointers : v.ptr[q] =
                IF q = p THEN "null"
                ELSE IF Window[q] = Window[p] /\ u.ptr[q] = "valid" THEN "dangling"
                ELSE u.ptr[q]
<1> DEFINE w == Delete(u, Window[p])
<1>1. /\ w \in Screens /\ w.timer = u.timer
      /\ Shape(w.windows) /\ TopOf(w.windows) \notin Tops \cup {"mask"}
      /\ Window[p] \in {"unlock", "setpw"} => TopOf(w.windows) = "lock"
      /\ Covered(u.windows) /\ Window[p] \in {"unlock", "setpw"} => Covered(w.windows)
      /\ \A q \in Pointers : w.ptr[q] =
           IF Window[q] = Window[p] /\ u.ptr[q] = "valid" THEN "dangling" ELSE u.ptr[q]
  BY DeleteTop
<1>2. DeleteIf(u, p) = SetNull(w, {p})
  BY DEF DeleteIf
<1> HIDE DEF w
<1> QED
  BY <1>1, <1>2, SetNullIs

\* Closing a password window, or the desktop, clears the screen for the next one.
LEMMA Closed ==
    ASSUME NEW u, Good(u), NEW p \in {"unlock_screen", "set_password_screen"},
           TopOf(u.windows) = Window[p]
    PROVE  LET v == DeleteIf(u, p) IN
           /\ Clear(v) /\ v.timer = u.timer /\ TopOf(v.windows) = "lock"
           /\ Covered(u.windows) => Covered(v.windows)
<1> DEFINE v == DeleteIf(u, p)
<1>1. /\ u \in Screens /\ Shape(u.windows) /\ p \in Pointers
      /\ Window[p] \in {"unlock", "setpw"} /\ u.ptr[p] # "null"
      /\ Window[p] \in Tops
  BY PointersAre DEF Good, Tied, Tops
<1>2. /\ v \in Screens /\ v.timer = u.timer
      /\ Shape(v.windows) /\ TopOf(v.windows) \notin Tops
      /\ Window[p] \in {"unlock", "setpw"} => TopOf(v.windows) = "lock"
      /\ Covered(u.windows) /\ Window[p] \in {"unlock", "setpw"} => Covered(v.windows)
      /\ \A q \in Pointers : v.ptr[q] =
           IF q = p THEN "null"
           ELSE IF Window[q] = Window[p] /\ u.ptr[q] = "valid" THEN "dangling"
           ELSE u.ptr[q]
  BY <1>1, DeleteIfTop
<1> HIDE DEF v
<1>3. Good(v) /\ v.ptr["music_list_screen"] = "null"
  BY <1>1, <1>2, PointersAre, TimersAre DEF Good, Tied, Runs, Tops
<1> QED
  BY <1>1, <1>2, <1>3 DEF Clear, v

\* release_desktop_resources, with the desktop on the screen
LEMMA ReleasedDesktop ==
    ASSUME NEW u, Good(u), TopOf(u.windows) = "desktop"
    PROVE  LET v == release_desktop_resources(u) IN
           /\ Clear(v) /\ v.timer["long_press"] = u.timer["long_press"]
           /\ TopOf(v.windows) \in {"lock", "list", "none"}
<1> DEFINE a == StopTimer(u, "status")
           b == DeleteIf(a, "desktop_win")
           v == release_desktop_resources(u)
<1>1. /\ a \in Screens /\ a.windows = u.windows /\ a.ptr = u.ptr
      /\ \A r \in Timers : a.timer[r] = IF r = "status" THEN 0 ELSE u.timer[r]
  <2>1. u \in Screens /\ "status" \in Timers /\ u.timer["status"] = 1
    BY TimersAre DEF Good, Runs
  <2> QED
    BY <2>1, StopTimerIs
<1> HIDE DEF a
<1>2. /\ b \in Screens /\ b.timer = a.timer
      /\ Shape(b.windows) /\ TopOf(b.windows) \notin Tops \cup {"mask"}
      /\ \A q \in Pointers : b.ptr[q] =
           IF q = "desktop_win" THEN "null"
           ELSE IF Window[q] = "desktop" /\ a.ptr[q] = "valid" THEN "dangling"
           ELSE a.ptr[q]
  <2>1. /\ "desktop_win" \in Pointers /\ Window["desktop_win"] = "desktop"
        /\ "desktop" \in Tops
    BY PointersAre DEF Tops
  <2>2. Shape(a.windows) /\ TopOf(a.windows) = "desktop" /\ a.ptr["desktop_win"] # "null"
    BY <1>1 DEF Good, Tied
  <2> QED
    BY <1>1, <2>1, <2>2, DeleteIfTop
<1> HIDE DEF b
<1>3. /\ v \in Screens
      /\ v.windows = b.windows /\ v.timer = b.timer
      /\ \A p \in Pointers :
           v.ptr[p] = IF p \in {"black_screen_mask"} THEN "null" ELSE b.ptr[p]
  BY <1>2, SetNullIs DEF release_desktop_resources, a, b
<1> HIDE DEF v
<1>4. Good(v) /\ v.ptr["music_list_screen"] = "null"
  BY <1>1, <1>2, <1>3, PointersAre, TimersAre DEF Good, Tied, Runs, Tops
<1>5. TopOf(v.windows) \in {"lock", "list", "none"}
  <2>1. v.windows \in Seq(Kinds)
    BY <1>3 DEF Screens
  <2>2. TopOf(v.windows) \in (Kinds \ {"msgbox"}) \cup {"none"}
    BY <2>1, TopIs
  <2> QED
    BY <1>2, <1>3, <2>2 DEF Kinds, Tops
<1> QED
  BY <1>1, <1>2, <1>3, <1>4, <1>5, TimersAre DEF Clear, v

\* and without it
LEMMA NoDesktop ==
    ASSUME NEW u, Good(u), TopOf(u.windows) # "desktop"
    PROVE  LET v == release_desktop_resources(u) IN
           /\ Good(v) /\ v.windows = u.windows /\ v.timer = u.timer
           /\ \A p \in Pointers : v.ptr[p] = u.ptr[p]
<1> DEFINE a == StopTimer(u, "status")
           v == release_desktop_resources(u)
<1>1. /\ a \in Screens /\ a.windows = u.windows /\ a.ptr = u.ptr
      /\ \A r \in Timers : a.timer[r] = u.timer[r]
  <2>1. u \in Screens /\ "status" \in Timers /\ u.timer["status"] = 0
    BY TimersAre DEF Good, Runs
  <2> QED
    BY <2>1, StopTimerIs
<1>2. a.timer = u.timer
  BY <1>1 DEF Good, Screens
<1> HIDE DEF a
<1>3. DeleteIf(a, "desktop_win") = a
  BY <1>1, DeleteIfNull DEF Good, Tied
<1>4. /\ v \in Screens
      /\ v.windows = a.windows /\ v.timer = a.timer
      /\ \A p \in Pointers :
           v.ptr[p] = IF p \in {"black_screen_mask"} THEN "null" ELSE a.ptr[p]
  BY <1>1, <1>3, SetNullIs DEF release_desktop_resources, a
<1> HIDE DEF v
<1>5. \A p \in Pointers : v.ptr[p] = u.ptr[p]
  BY <1>1, <1>4 DEF Good
<1>6. Good(v)
  BY <1>1, <1>2, <1>4, <1>5, PointersAre DEF Good, Tied, Runs
<1> QED
  BY <1>1, <1>2, <1>4, <1>5, <1>6 DEF v

\* A window opened on a clear screen, with the pointers that are tied to it.
LEMMA Opened ==
    ASSUME NEW u, Clear(u), NEW kind \in Kinds, NEW pointers,
           kind \in {"unlock", "setpw"} => TopOf(u.windows) = "lock",
           kind = "time" => TopOf(u.windows) # "mask",
           <<kind, pointers>> \in {<<"lock", {}>>, <<"unlock", {"unlock_screen"}>>,
                                  <<"setpw", {"set_password_screen"}>>, <<"time", {}>>,
                                  <<"msgbox", {}>>}
    PROVE  LET v == Create(u, kind, pointers) IN
           /\ Good(v) /\ v.timer = u.timer
           /\ kind # "msgbox" => TopOf(v.windows) = kind
           /\ Covered(u.windows) /\ kind \in {"unlock", "setpw"} => Covered(v.windows)
           /\ kind = "lock" => Covered(v.windows)
<1> DEFINE v == Create(u, kind, pointers)
           s == u.windows
<1>1. /\ u \in Screens /\ s \in Seq(Kinds) /\ Shape(s) /\ TopOf(s) \notin Tops
  BY DEF Clear, Good, Screens
<1>2. /\ v \in Screens
      /\ v.windows = Append(s, kind) /\ v.timer = u.timer
      /\ \A p \in Pointers : v.ptr[p] = IF p \in pointers THEN "valid" ELSE u.ptr[p]
  BY <1>1, CreateIs
<1>3. /\ TopOf(v.windows) = IF kind = "msgbox" THEN TopOf(s) ELSE kind
      /\ Shape(v.windows)
      /\ Covered(s) /\ kind \in {"unlock", "setpw", "msgbox"} => Covered(v.windows)
      /\ kind \in {"lock", "mask"} => Covered(v.windows)
  <2>1. /\ kind # "list"
        /\ kind \in {"unlock", "setpw"} => TopOf(s) = "lock"
        /\ kind \in Tops => TopOf(s) # "mask"
    BY DEF Tops
  <2> QED
    BY <1>1, <1>2, <2>1, Appended
<1> HIDE DEF v, s
<1>4. Good(v)
  BY <1>1, <1>2, <1>3, PointersAre, TimersAre DEF Clear, Good, Tied, Runs, Tops, s
<1> QED
  BY <1>2, <1>3, <1>4 DEF v, s

\* desktop, on a clear screen
LEMMA OpenedDesktop ==
    ASSUME NEW u, Clear(u), TopOf(u.windows) # "mask"
    PROVE  LET v == desktop(u) IN
           /\ Good(v) /\ TopOf(v.windows) = "desktop"
           /\ v.timer["long_press"] = u.timer["long_press"]
<1> DEFINE pointers == {"desktop_win", "status_bar_label"}
           a == Create(u, "desktop", pointers)
           v == desktop(u)
           s == u.windows
<1>1. /\ u \in Screens /\ s \in Seq(Kinds) /\ Shape(s) /\ TopOf(s) \notin Tops
      /\ "desktop" \in Kinds /\ "status" \in Timers
  BY TimersAre DEF Clear, Good, Screens, Kinds
<1>2. DeleteIf(u, "black_screen_mask") = u
  BY DeleteIfNull DEF Clear, Good
<1>3. /\ a \in Screens
      /\ a.windows = Append(s, "desktop") /\ a.timer = u.timer
      /\ \A p \in Pointers : a.ptr[p] = IF p \in pointers THEN "valid" ELSE u.ptr[p]
  BY <1>1, CreateIs
<1>4. TopOf(a.windows) = "desktop" /\ Shape(a.windows)
  <2>1. "desktop" \notin {"list", "msgbox", "unlock", "setpw"} /\ TopOf(s) # "mask"
    OBVIOUS
  <2> HIDE DEF s, a
  <2> QED
    BY <1>1, <1>3, <2>1, Appended
<1>5. v = StartTimer(a, "status")
  BY <1>2 DEF desktop
<1> HIDE DEF a, v
<1>6. /\ v \in Screens /\ v.windows = a.windows /\ v.ptr = a.ptr
      /\ \A r \in Timers : v.timer[r] = IF r = "status" THEN a.timer["status"] + 1 ELSE a.timer[r]
  BY <1>1, <1>3, <1>5, StartTimerIs
<1>7. Good(v)
  BY <1>1, <1>3, <1>4, <1>6, PointersAre, TimersAre DEF Clear, Good, Tied, Runs, Tops
<1> QED
  BY <1>3, <1>4, <1>6, <1>7, TimersAre DEF v

\* Screen, from a screen without the desktop
LEMMA OpenedLock ==
    ASSUME NEW u, Clear(u)
    PROVE  LET v == Screen(u) IN
           /\ Good(v) /\ TopOf(v.windows) = "lock" /\ Covered(v.windows)
           /\ v.timer = u.timer
<1> DEFINE a == release_desktop_resources(u)
<1>1. /\ Good(a) /\ a.windows = u.windows /\ a.timer = u.timer
      /\ \A p \in Pointers : a.ptr[p] = u.ptr[p]
  BY NoDesktop DEF Clear, Tops
<1> HIDE DEF a
<1>2. Clear(a) /\ DeleteIf(a, "black_screen_mask") = a
  BY <1>1, PointersAre, DeleteIfNull DEF Clear, Good
<1>3. Screen(u) = Create(a, "lock", {})
  BY <1>2 DEF Screen, a
<1>4. "lock" \in Kinds
  BY DEF Kinds
<1> QED
  BY <1>1, <1>2, <1>3, <1>4, Opened

-----------------------------------------------------------------------------
(* The applications, which clean the whole screen. *)

\* one window alone on the screen
LEMMA Single ==
    ASSUME NEW u \in Screens, u.windows = <<>>,
           NEW kind \in Kinds \ {"msgbox", "unlock", "setpw"}, NEW pointers
    PROVE  LET v == Create(u, kind, pointers) IN
           /\ v \in Screens /\ Shape(v.windows) /\ TopOf(v.windows) = kind
           /\ v.timer = u.timer
           /\ \A p \in Pointers : v.ptr[p] = IF p \in pointers THEN "valid" ELSE u.ptr[p]
<1> DEFINE v == Create(u, kind, pointers)
<1>1. /\ v \in Screens /\ v.windows = Append(u.windows, kind) /\ v.timer = u.timer
      /\ \A p \in Pointers : v.ptr[p] = IF p \in pointers THEN "valid" ELSE u.ptr[p]
  BY CreateIs
<1> HIDE DEF v
<1>2. <<>> \in Seq(Kinds)
  OBVIOUS
<1>3. TopOf(v.windows) = kind
  BY <1>1, <1>2, Appended
<1>4. Len(v.windows) = 1 /\ v.windows[1] = kind
  BY <1>1
<1>5. Shape(v.windows)
  <2>1. ~ Under(v.windows, 1, "mask")
    BY DEF Under
  <2> QED
    BY <1>4, <2>1 DEF Shape, Grounded
<1> QED
  BY <1>1, <1>3, <1>5 DEF v

\* StopTimer of the timer tied to the window that is left, and lv_obj_clean
LEMMA StoppedAndCleaned ==
    ASSUME NEW u \in Screens, NEW t \in Timers, u.timer[t] \in {0, 1}
    PROVE  LET v == Clean(StopTimer(u, t)) IN
           /\ v \in Screens /\ v.windows = <<>>
           /\ \A r \in Timers : v.timer[r] = IF r = t THEN 0 ELSE u.timer[r]
           /\ \A p \in Pointers :
                v.ptr[p] = IF u.ptr[p] = "valid" THEN "dangling" ELSE u.ptr[p]
<1> DEFINE a == StopTimer(u, t)
<1>1. /\ a \in Screens /\ a.windows = u.windows /\ a.ptr = u.ptr
      /\ \A r \in Timers : a.timer[r] = IF r = t THEN 0 ELSE u.timer[r]
  BY StopTimerIs
<1> HIDE DEF a
<1>2. /\ Clean(a) \in Screens
      /\ Clean(a).windows = <<>> /\ Clean(a).timer = a.timer
      /\ \A p \in Pointers :
           Clean(a).ptr[p] = IF a.ptr[p] = "valid" THEN "dangling" ELSE a.ptr[p]
  BY <1>1, CleanIs
<1> QED
  BY <1>1, <1>2 DEF a

LEMMA ShownList ==
    ASSUME NEW u, Good(u), TopOf(u.windows) = "player" \/ Clear(u)
    PROVE  LET v == show_music_list_screen(u) IN
           /\ Good(v) /\ TopOf(v.windows) = "list"
           /\ v.timer["long_press"] = u.timer["long_press"]
<1> DEFINE a == Clean(StopTimer(u, "progress"))
           b == SetNull(a, {"music_player_screen"})
           v == Create(b, "list", {"music_list_screen"})
<1>1. /\ a \in Screens /\ a.windows = <<>>
      /\ \A r \in Timers : a.timer[r] = IF r = "progress" THEN 0 ELSE u.timer[r]
      /\ \A p \in Pointers : a.ptr[p] = IF u.ptr[p] = "valid" THEN "dangling" ELSE u.ptr[p]
  BY StoppedAndCleaned, TimersAre DEF Good, Runs
<1> HIDE DEF a
<1>2. /\ b \in Screens /\ b.windows = a.windows /\ b.timer = a.timer
      /\ \A p \in Pointers :
           b.ptr[p] = IF p \in {"music_player_screen"} THEN "null" ELSE a.ptr[p]
  BY <1>1, SetNullIs
<1> HIDE DEF b
<1>3. /\ v \in Screens /\ Shape(v.windows) /\ TopOf(v.windows) = "list"
      /\ v.timer = b.timer
      /\ \A p \in Pointers :
           v.ptr[p] = IF p \in {"music_list_screen"} THEN "valid" ELSE b.ptr[p]
  BY <1>1, <1>2, Single DEF Kinds
<1>4. show_music_list_screen(u) = v
  BY DEF show_music_list_screen, a, b
<1> HIDE DEF v
<1>5. Good(v)
  BY <1>1, <1>2, <1>3, PointersAre, TimersAre DEF Clear, Good, Tied, Runs, Tops
<1> QED
  BY <1>1, <1>2, <1>3, <1>4, <1>5, TimersAre

LEMMA ShownPlayer ==
    ASSUME NEW u, Good(u), TopOf(u.windows) = "list"
    PROVE  LET v == show_music_player_screen(u) IN
           /\ Good(v) /\ TopOf(v.windows) = "player"
           /\ v.timer["long_press"] = u.timer["long_press"]
<1> DEFINE a == Clean(StopTimer(u, "progress"))
           b == SetNull(a, {"music_list_screen"})
           c == Create(b, "player", {"music_player_screen"})
           v == StartTimer(c, "progress")
<1>1. /\ a \in Screens /\ a.windows = <<>>
      /\ \A r \in Timers : a.timer[r] = IF r = "progress" THEN 0 ELSE u.timer[r]
      /\ \A p \in Pointers : a.ptr[p] = IF u.ptr[p] = "valid" THEN "dangling" ELSE u.ptr[p]
  BY StoppedAndCleaned, TimersAre DEF Good, Runs
<1> HIDE DEF a
<1>2. /\ b \in Screens /\ b.windows = a.windows /\ b.timer = a.timer
      /\ \A p \in Pointers :
           b.ptr[p] = IF p \in {"music_list_screen"} THEN "null" ELSE a.ptr[p]
  BY <1>1, SetNullIs
<1> HIDE DEF b
<1>3. /\ c \in Screens /\ Shape(c.windows) /\ TopOf(c.windows) = "player"
      /\ c.timer = b.timer
      /\ \A p \in Pointers :
           c.ptr[p] = IF p \in {"music_player_screen"} THEN "valid" ELSE b.ptr[p]
  BY <1>1, <1>2, Single DEF Kinds
<1> HIDE DEF c
<1>4. /\ v \in Screens /\ v.windows = c.windows /\ v.ptr = c.ptr
      /\ \A r \in Timers :
           v.timer[r] = IF r = "progress" THEN c.timer["progress"] + 1 ELSE c.timer[r]
  BY <1>3, StartTimerIs, TimersAre
<1>5. show_music_player_screen(u) = v
  BY DEF show_music_player_screen, a, b, c
<1> HIDE DEF v
<1>6. Good(v)
  BY <1>1, <1>2, <1>3, <1>4, PointersAre, TimersAre DEF Good, Tied, Runs, Tops
<1> QED
  BY <1>1, <1>2, <1>3, <1>4, <1>5, <1>6, TimersAre

LEMMA ShownThumbs ==
    ASSUME NEW u, Good(u), TopOf(u.windows) = "viewer" \/ Clear(u)
    PROVE  LET v == show_gallery_thumbnail_screen(u) IN
           /\ Good(v) /\ TopOf(v.windows) = "thumbs"
           /\ v.timer["long_press"] = u.timer["long_press"]
<1> DEFINE a == Clean(u)
           b == SetNull(a, {"viewer_screen"})
           c == StopTimer(b, "hide")
           v == Create(c, "thumbs", {"thumbnail_screen"})
<1>1. /\ a \in Screens /\ a.windows = <<>> /\ a.timer = u.timer
      /\ \A p \in Pointers : a.ptr[p] = IF u.ptr[p] = "valid" THEN "dangling" ELSE u.ptr[p]
  BY CleanIs DEF Good
<1> HIDE DEF a
<1>2. /\ b \in Screens /\ b.windows = a.windows /\ b.timer = a.timer
      /\ \A p \in Pointers :
           b.ptr[p] = IF p \in {"viewer_screen"} THEN "null" ELSE a.ptr[p]
  BY <1>1, SetNullIs
<1> HIDE DEF b
<1>3. /\ c \in Screens /\ c.windows = b.windows /\ c.ptr = b.ptr
      /\ \A r \in Timers : c.timer[r] = IF r = "hide" THEN 0 ELSE u.timer[r]
  <2>1. b.timer["hide"] \in {0, 1} /\ "hide" \in Timers
    BY <1>1, <1>2, TimersAre DEF Good
  <2> QED
    BY <1>1, <1>2, <2>1, StopTimerIs
<1> HIDE DEF c
<1>4. /\ v \in Screens /\ Shape(v.windows) /\ TopOf(v.windows) = "thumbs"
      /\ v.timer = c.timer
      /\ \A p \in Pointers :
           v.ptr[p] = IF p \in {"thumbnail_screen"} THEN "valid" ELSE c.ptr[p]
  BY <1>1, <1>2, <1>3, Single DEF Kinds
<1>5. show_gallery_thumbnail_screen(u) = v
  BY DEF show_gallery_thumbnail_screen, a, b, c
<1> HIDE DEF v
<1>6. Good(v)
  BY <1>1, <1>2, <1>3, <1>4, PointersAre, TimersAre DEF Clear, Good, Tied, Runs, Tops
<1> QED
  BY <1>3, <1>4, <1>5, <1>6, TimersAre

LEMMA ShownViewer ==
    ASSUME NEW u, Good(u), TopOf(u.windows) = "thumbs"
    PROVE  LET v == show_image_viewer_screen(u) IN
           /\ Good(v) /\ TopOf(v.windows) = "viewer"
           /\ v.timer["long_press"] = u.timer["long_press"]
<1> DEFINE a == Clean(u)
           b == StopTimer(a, "hide")
           c == SetNull(b, {"thumbnail_screen"})
           d == Create(c, "viewer", {"viewer_screen", "hide_timer_data"})
           v == StartTimer(d, "hide")
<1>1. /\ a \in Screens /\ a.windows = <<>> /\ a.timer = u.timer
      /\ \A p \in Pointers : a.ptr[p] = IF u.ptr[p] = "valid" THEN "dangling" ELSE u.ptr[p]
  BY CleanIs DEF Good
<1> HIDE DEF a
<1>2. /\ b \in Screens /\ b.windows = a.windows /\ b.ptr = a.ptr
      /\ \A r \in Timers : b.timer[r] = u.timer[r]
  <2>1. a.timer["hide"] = 0 /\ "hide" \in Timers
    BY <1>1, TimersAre DEF Good
  <2> QED
    BY <1>1, <2>1, StopTimerIs
<1> HIDE DEF b
<1>3. /\ c \in Screens /\ c.windows = b.windows /\ c.timer = b.timer
      /\ \A p \in Pointers :
           c.ptr[p] = IF p \in {"thumbnail_screen"} THEN "null" ELSE b.ptr[p]
  BY <1>2, SetNullIs
<1> HIDE DEF c
<1>4. /\ d \in Screens /\ Shape(d.windows) /\ TopOf(d.windows) = "viewer"
      /\ d.timer = c.timer
      /\ \A p \in Pointers : d.ptr[p] =
           IF p \in {"viewer_screen", "hide_timer_data"} THEN "valid" ELSE c.ptr[p]
  BY <1>1, <1>2, <1>3, Single DEF Kinds
<1> HIDE DEF d
<1>5. /\ v \in Screens /\ v.windows = d.windows /\ v.ptr = d.ptr
      /\ \A r \in Timers : v.timer[r] = IF r = "hide" THEN d.timer["hide"] + 1 ELSE d.timer[r]
  BY <1>4, StartTimerIs, TimersAre
<1>6. show_image_viewer_screen(u) = v
  BY DEF show_image_viewer_screen, a, b, c, d
<1> HIDE DEF v
<1>7. Good(v)
  BY <1>1, <1>2, <1>3, <1>4, <1>5, PointersAre, TimersAre DEF Good, Tied, Runs, Tops
<1> QED
  BY <1>2, <1>3, <1>4, <1>5, <1>6, <1>7, TimersAre

\* The applications leave a clear screen to desktop.
LEMMA LeftMusic ==
    ASSUME NEW u, Good(u), TopOf(u.windows) = "list"
    PROVE  LET v == cleanup_music_player(u) IN
           /\ Clear(v) /\ TopOf(v.windows) = "list"
           /\ v.timer["long_press"] = u.timer["long_press"]
<1> DEFINE a == StopTimer(u, "progress")
           v == SetNull(a, {"music_list_screen", "music_player_screen"})
<1>1. /\ a \in Screens /\ a.windows = u.windows /\ a.ptr = u.ptr
      /\ \A r \in Timers : a.timer[r] = u.timer[r]
  <2>1. u \in Screens /\ u.timer["progress"] = 0 /\ "progress" \in Timers
    BY TimersAre DEF Good, Runs
  <2> QED
    BY <2>1, StopTimerIs
<1> HIDE DEF a
<1>2. /\ v \in Screens /\ v.windows = a.windows /\ v.timer = a.timer
      /\ \A p \in Pointers : v.ptr[p] =
           IF p \in {"music_list_screen", "music_player_screen"} THEN "null" ELSE a.ptr[p]
  BY <1>1, SetNullIs
<1>3. cleanup_music_player(u) = v
  BY DEF cleanup_music_player, a
<1> HIDE DEF v
<1>4. Good(v) /\ TopOf(v.windows) \notin Tops /\ v.ptr["music_list_screen"] = "null"
  BY <1>1, <1>2, PointersAre, TimersAre DEF Good, Tied, Runs, Tops
<1> QED
  BY <1>1, <1>2, <1>3, <1>4, TimersAre DEF Clear

LEMMA LeftGallery ==
    ASSUME NEW u, Good(u), TopOf(u.windows) = "thumbs"
    PROVE  LET v == release_gallery_resources(u) IN
           /\ Clear(v) /\ TopOf(v.windows) # "mask"
           /\ v.timer["long_press"] = u.timer["long_press"]
<1> DEFINE a == StopTimer(u, "hide")
           v == DeleteIf(a, "thumbnail_screen")
<1>1. /\ a \in Screens /\ a.windows = u.windows /\ a.ptr = u.ptr
      /\ \A r \in Timers : a.timer[r] = u.timer[r]
  <2>1. u \in Screens /\ u.timer["hide"] = 0 /\ "hide" \in Timers
    BY TimersAre DEF Good
  <2> QED
    BY <2>1, StopTimerIs
<1> HIDE DEF a
<1>2. /\ v \in Screens /\ v.timer = a.timer
      /\ Shape(v.windows) /\ TopOf(v.windows) \notin Tops \cup {"mask"}
      /\ \A q \in Pointers : v.ptr[q] =
           IF q = "thumbnail_screen" THEN "null"
           ELSE IF Window[q] = "thumbs" /\ a.ptr[q] = "valid" THEN "dangling"
           ELSE a.ptr[q]
  <2>1. /\ "thumbnail_screen" \in Pointers /\ Window["thumbnail_screen"] = "thumbs"
        /\ "thumbs" \in Tops
    BY PointersAre DEF Tops
  <2>2. /\ Shape(a.windows) /\ TopOf(a.windows) = "thumbs"
        /\ a.ptr["thumbnail_screen"] # "null"
    BY <1>1 DEF Good, Tied
  <2> QED
    BY <1>1, <2>1, <2>2, DeleteIfTop
<1> HIDE DEF v
<1>3. v.ptr["viewer_screen"] = "null"
  BY <1>1, <1>2, PointersAre DEF Good, Tied
<1>4. release_gallery_resources(u) = v
  BY <1>3, DeleteIfNull DEF release_gallery_resources, a, v
<1>5. Good(v) /\ v.ptr["music_list_screen"] = "null"
  BY <1>1, <1>2, PointersAre, TimersAre DEF Good, Tied, Runs, Tops
<1> QED
  BY <1>1, <1>2, <1>4, <1>5, TimersAre DEF Clear

LEMMA LeftTime ==
    ASSUME NEW u, Good(u), TopOf(u.windows) = "time"
    PROVE  LET v == Delete(u, "time") IN
           Clear(v) /\ TopOf(v.windows) # "mask" /\ v.timer = u.timer
<1> DEFINE v == Delete(u, "time")
<1>1. /\ v \in Screens /\ v.timer = u.timer
      /\ Shape(v.windows) /\ TopOf(v.windows) \notin Tops \cup {"mask"}
      /\ \A p \in Pointers : v.ptr[p] =
           IF Window[p] = "time" /\ u.ptr[p] = "valid" THEN "dangling" ELSE u.ptr[p]
  <2>1. "time" \in Tops
    BY DEF Tops
  <2> QED
    BY <2>1, DeleteTop DEF Good
<1> HIDE DEF v
<1>2. Good(v) /\ v.ptr["music_list_screen"] = "null"
  BY <1>1, PointersAre, TimersAre DEF Good, Tied, Runs, Tops
<1> QED
  BY <1>1, <1>2 DEF Clear, v

-----------------------------------------------------------------------------
(* The long press, message boxes, and the lock screen's cover. *)

\* The desktop is deleted from under the new mask, whose pointer is forgotten.
LEMMA BlackedOut ==
    ASSUME NEW u, Good(u), TopOf(u.windows) = "desktop"
    PROVE  LET v == StopTimer(release_desktop_resources(
                                  Create(u, "mask", {"black_screen_mask"})), "long_press") IN
           /\ Good(v) /\ TopOf(v.windows) = "mask" /\ Covered(v.windows)
           /\ v.timer["long_press"] = 0
<1> DEFINE s == u.windows
           a == Create(u, "mask", {"black_screen_mask"})
           b == StopTimer(a, "status")
           c == Delete(b, "desktop")
           d == SetNull(c, {"desktop_win"})
           e == SetNull(d, {"black_screen_mask"})
           v == StopTimer(e, "long_press")
<1>1. u \in Screens /\ s \in Seq(Kinds) /\ Len(s) \in Nat /\ Shape(s)
  BY DEF Good, Screens
<1>2. /\ a \in Screens /\ a.windows = Append(s, "mask") /\ a.timer = u.timer
      /\ \A p \in Pointers :
           a.ptr[p] = IF p \in {"black_screen_mask"} THEN "valid" ELSE u.ptr[p]
  BY <1>1, CreateIs DEF Kinds
<1> HIDE DEF a
<1>3. /\ b \in Screens /\ b.windows = a.windows /\ b.ptr = a.ptr
      /\ \A r \in Timers : b.timer[r] = IF r = "status" THEN 0 ELSE u.timer[r]
  <2>1. "status" \in Timers /\ a.timer["status"] = 1
    BY <1>2, TimersAre DEF Good, Runs
  <2> QED
    BY <1>2, <2>1, StopTimerIs
<1> HIDE DEF b
<1> DEFINE t == Append(s, "mask")
<1>4. /\ t \in Seq(Kinds) /\ Len(t) = Len(s) + 1 /\ t[Len(t)] = "mask"
      /\ \A i \in 1 .. Len(s) : t[i] = s[i]
  BY <1>1 DEF Kinds
<1> HIDE DEF t
<1>5. PICK at \in 1 .. Len(t) :
        /\ t[at] = "desktop" /\ c.windows = RemoveAt(t, at)
        /\ c \in Screens /\ c.timer = b.timer
        /\ \A p \in Pointers : c.ptr[p] =
             IF Window[p] = "desktop" /\ b.ptr[p] = "valid" THEN "dangling" ELSE b.ptr[p]
  <2>1. PICK top \in 1 .. Len(s) : s[top] = "desktop"
    BY <1>1, TopIs
  <2>2. top \in 1 .. Len(t) /\ t[top] = "desktop"
    BY <1>1, <1>4, <2>1
  <2>3. b.windows = t
    BY <1>2, <1>3 DEF t
  <2> QED
    BY <1>3, <2>2, <2>3, DeleteIs
<1> HIDE DEF c
<1>6. at \in 1 .. Len(s) /\ s[at] = "desktop"
  BY <1>1, <1>4, <1>5
<1>7. /\ \A j \in at + 1 .. Len(s) : s[j] = "msgbox"
      /\ \A i \in 1 .. at - 1 : s[i] \notin Tops
  BY <1>1, <1>6 DEF Shape, Tops
<1> DEFINE r == c.windows
<1>8. /\ r \in Seq(Kinds) /\ Len(r) = Len(s)
      /\ \A i \in 1 .. Len(s) : r[i] = IF i < at THEN t[i] ELSE t[i + 1]
  BY <1>1, <1>4, <1>5, Removed
<1> HIDE DEF r
<1>9. r[Len(s)] = "mask" /\ Len(s) \in 1 .. Len(r)
  BY <1>1, <1>4, <1>6, <1>8
<1>10. \A i \in 1 .. Len(r) : r[i] \notin Tops
  <2> SUFFICES ASSUME NEW i \in 1 .. Len(r) PROVE r[i] \notin Tops
    OBVIOUS
  <2>1. CASE i < at
    BY <1>1, <1>4, <1>6, <1>7, <1>8, <2>1
  <2>2. CASE at <= i /\ i < Len(s)
    <3>1. i \in 1 .. Len(s) /\ i + 1 \in at + 1 .. Len(s) /\ i + 1 \in 1 .. Len(s) /\ ~ (i < at)
      BY <1>1, <1>6, <1>8, <2>2
    <3>2. r[i] = t[i + 1]
      BY <1>8, <3>1
    <3>3. r[i] = s[i + 1]
      BY <1>4, <3>1, <3>2
    <3> QED
      BY <1>7, <3>1, <3>3 DEF Tops
  <2>3. CASE i = Len(s)
    BY <1>9, <2>3 DEF Tops
  <2> QED
    BY <1>1, <1>6, <1>8, <2>1, <2>2, <2>3
<1>11. Shape(r)
  <2>1. ASSUME NEW i \in 1 .. Len(r), r[i] = "list" PROVE i = 1
    <3>1. CASE i < at
      BY <1>1, <1>4, <1>6, <1>8, <2>1, <3>1 DEF Shape
    <3>2. CASE at <= i /\ i < Len(s)
      <4>1. i \in 1 .. Len(s) /\ i + 1 \in at + 1 .. Len(s) /\ i + 1 \in 1 .. Len(s) /\ ~ (i < at)
        BY <1>1, <1>6, <1>8, <3>2
      <4>2. r[i] = t[i + 1]
        BY <1>8, <4>1
      <4>3. r[i] = s[i + 1]
        BY <1>4, <4>1, <4>2
      <4> QED
        BY <1>7, <2>1, <4>1, <4>3
    <3>3. CASE i = Len(s)
      BY <1>9, <2>1, <3>3
    <3> QED
      BY <1>1, <1>6, <1>8, <3>1, <3>2, <3>3
  <2>2. Grounded(r)
    BY <1>10 DEF Grounded, Tops
  <2>3. \A i, j \in 1 .. Len(r) : r[i] \in Tops /\ i < j => r[j] = "msgbox"
    BY <1>10
  <2> QED
    BY <2>1, <2>2, <2>3 DEF Shape
<1>12. TopOf(r) = "mask" /\ Covered(r)
  <2>1. \A j \in Len(s) + 1 .. Len(r) : FALSE
    BY <1>1, <1>8
  <2>2. TopOf(r) = r[Len(s)]
    BY <1>8, <1>9, <2>1, TopAt
  <2> QED
    BY <1>9, <2>1, <2>2 DEF Covered
<1>13. /\ d \in Screens /\ d.windows = c.windows /\ d.timer = c.timer
       /\ \A p \in Pointers : d.ptr[p] = IF p \in {"desktop_win"} THEN "null" ELSE c.ptr[p]
  BY <1>5, SetNullIs
<1> HIDE DEF d
<1>14. /\ e \in Screens /\ e.windows = d.windows /\ e.timer = d.timer
       /\ \A p \in Pointers :
            e.ptr[p] = IF p \in {"black_screen_mask"} THEN "null" ELSE d.ptr[p]
  BY <1>13, SetNullIs
<1>15. e = release_desktop_resources(a)
  <2>1. b.ptr["desktop_win"] = "valid"
    BY <1>2, <1>3, PointersAre DEF Good, Tied
  <2>2. DeleteIf(b, "desktop_win") = d
    BY <2>1, PointersAre DEF DeleteIf, c, d
  <2> QED
    BY <2>2 DEF release_desktop_resources, b, e
<1> HIDE DEF e
<1>16. /\ v \in Screens /\ v.windows = e.windows /\ v.ptr = e.ptr
       /\ \A x \in Timers : v.timer[x] = IF x = "long_press" THEN 0 ELSE e.timer[x]
  <2>1. e.timer["long_press"] \in {0, 1} /\ "long_press" \in Timers
    BY <1>3, <1>5, <1>13, <1>14, TimersAre DEF Good
  <2> QED
    BY <1>14, <2>1, StopTimerIs
<1> HIDE DEF v
<1>17. v.windows = r
  BY <1>13, <1>14, <1>16 DEF r
<1>18. \A x \in Timers : v.timer[x] = IF x \in {"long_press", "status"} THEN 0 ELSE u.timer[x]
  BY <1>3, <1>5, <1>13, <1>14, <1>16
<1>19. \A p \in Pointers : v.ptr[p] =
         IF p \in {"black_screen_mask", "desktop_win"} THEN "null"
         ELSE IF Window[p] = "desktop" /\ u.ptr[p] = "valid" THEN "dangling"
         ELSE u.ptr[p]
  BY <1>2, <1>3, <1>5, <1>13, <1>14, <1>16
<1>20. Good(v)
  BY <1>11, <1>12, <1>16, <1>17, <1>18, <1>19, PointersAre, TimersAre
     DEF Good, Tied, Runs
<1> QED
  BY <1>12, <1>15, <1>17, <1>18, <1>20, TimersAre DEF v, a

\* Closing the message box on top uncovers nothing new.
LEMMA MsgboxClosed ==
    ASSUME NEW u, Good(u), u.windows # <<>>, Last(u.windows) = "msgbox"
    PROVE  LET v == Delete(u, "msgbox") IN
           /\ Good(v) /\ TopOf(v.windows) = TopOf(u.windows) /\ v.timer = u.timer
           /\ Covered(u.windows) => Covered(v.windows)
<1> DEFINE s == u.windows
           v == Delete(u, "msgbox")
<1>1. u \in Screens /\ s \in Seq(Kinds) /\ Len(s) \in Nat \ {0} /\ Shape(s)
  BY DEF Good, Screens
<1>2. s[Len(s)] = "msgbox"
  BY DEF Last
<1>3. PICK at \in 1 .. Len(s) :
        /\ \A i \in 1 .. Len(s) : s[i] = "msgbox" => i <= at
        /\ v.windows = RemoveAt(s, at)
        /\ v \in Screens /\ v.timer = u.timer
        /\ \A p \in Pointers : v.ptr[p] =
             IF Window[p] = "msgbox" /\ u.ptr[p] = "valid" THEN "dangling" ELSE u.ptr[p]
  BY <1>1, <1>2, DeleteIs
<1> HIDE DEF v
<1>4. at = Len(s)
  BY <1>1, <1>2, <1>3
<1> DEFINE r == RemoveAt(s, at)
<1>5. /\ r \in Seq(Kinds) /\ Len(r) = Len(s) - 1
      /\ \A i \in 1 .. Len(r) : r[i] = s[i]
  <2>1. /\ r \in Seq(Kinds) /\ Len(r) = Len(s) - 1
        /\ \A i \in 1 .. Len(s) - 1 : r[i] = IF i < at THEN s[i] ELSE s[i + 1]
    BY <1>1, Removed
  <2> HIDE DEF r
  <2>2. \A i \in 1 .. Len(s) - 1 : i < at
    BY <1>1, <1>4
  <2> QED
    BY <2>1, <2>2
<1> HIDE DEF r
<1>6. TopOf(r) = TopOf(s)
  <2>1. CASE \A i \in 1 .. Len(s) : s[i] = "msgbox"
    <3>1. \A i \in 1 .. Len(r) : r[i] = "msgbox"
      BY <1>1, <1>5, <2>1
    <3> QED
      BY <1>1, <1>5, <2>1, <3>1, TopNone
  <2>2. ASSUME NEW i \in 1 .. Len(s), TopOf(s) = s[i], s[i] # "msgbox",
               \A j \in i + 1 .. Len(s) : s[j] = "msgbox"
        PROVE  TopOf(r) = TopOf(s)
    <3>1. i \in 1 .. Len(r) /\ r[i] = s[i]
      BY <1>1, <1>2, <1>5, <2>2
    <3>2. \A j \in i + 1 .. Len(r) : r[j] = "msgbox"
      BY <1>1, <1>5, <2>2
    <3> QED
      BY <1>5, <2>2, <3>1, <3>2, TopAt
  <2> QED
    BY <1>1, <2>1, <2>2, TopIs
<1>7. Shape(r)
  <2>1. \A i \in 1 .. Len(r) : i \in 1 .. Len(s)
    BY <1>1, <1>5
  <2>2. ASSUME NEW i \in 1 .. Len(r), NEW j \in 1 .. Len(r), r[i] \in Tops, i < j
        PROVE  r[j] = "msgbox"
    BY <1>1, <1>5, <2>1, <2>2 DEF Shape
  <2>3. ASSUME NEW i \in 1 .. Len(r), r[i] = "list" PROVE i = 1
    BY <1>1, <1>5, <2>1, <2>3 DEF Shape
  <2>4. Grounded(r)
    <3> SUFFICES ASSUME NEW i \in 1 .. Len(r)
                 PROVE  /\ r[i] \in {"unlock", "setpw"} => Under(r, i, "lock")
                        /\ r[i] \in Tops => ~ Under(r, i, "mask")
      BY DEF Grounded
    <3>1. i \in Nat /\ r[i] = s[i] /\ \A j \in 1 .. i - 1 : s[j] = r[j]
      BY <1>5
    <3>2. \A x : Under(s, i, x) <=> Under(r, i, x)
      BY <3>1, UnderSame
    <3> QED
      BY <1>1, <2>1, <3>1, <3>2 DEF Shape, Grounded
  <2> QED
    BY <2>2, <2>3, <2>4 DEF Shape
<1>8. Covered(s) => Covered(r)
  <2> SUFFICES ASSUME Covered(s) PROVE Covered(r)
    OBVIOUS
  <2>1. PICK i \in 1 .. Len(s) :
          /\ s[i] \in {"lock", "mask"}
          /\ \A j \in i + 1 .. Len(s) : s[j] \in {"unlock", "setpw", "msgbox"}
    BY DEF Covered
  <2>2. i \in 1 .. Len(r) /\ r[i] = s[i]
    BY <1>1, <1>2, <1>5, <2>1
  <2>3. \A j \in i + 1 .. Len(r) : r[j] \in {"unlock", "setpw", "msgbox"}
    BY <1>1, <1>5, <2>1
  <2> QED
    BY <2>1, <2>2, <2>3 DEF Covered
<1>9. v.windows = r
  BY <1>3 DEF r
<1>10. \A p \in Pointers : v.ptr[p] = u.ptr[p]
  BY <1>3, PointersAre
<1>11. Good(v)
  BY <1>3, <1>6, <1>7, <1>9, <1>10, PointersAre DEF Good, Tied, Runs
<1> QED
  BY <1>3, <1>6, <1>8, <1>9, <1>11 DEF v

\* The first event of the lock screen's handler creates the cover.
LEMMA CoverIsUsed ==
    ASSUME Good(ui)
    PROVE  /\ Good(CoverUsed) /\ CoverUsed.windows = ui.windows
           /\ CoverUsed.timer = ui.timer
           /\ CoverUsed.ptr["music_list_screen"] = ui.ptr["music_list_screen"]
<1> DEFINE v == CoverUsed
<1>1. /\ v \in Screens /\ v.windows = ui.windows /\ v.timer = ui.timer
      /\ \A p \in Pointers \ {"cover"} : v.ptr[p] = ui.ptr[p]
  <2>1. ui \in Screens
    BY DEF Good
  <2>2. /\ ui.windows \in Seq(Kinds) /\ ui.timer \in [Timers -> Nat]
        /\ ui.ptr \in [Pointers -> Values]
    BY <2>1 DEF Screens
  <2>3. ui.ptr["cover"] \in Values
    BY <2>2, PointersAre
  <2>4. (IF ui.ptr["cover"] = "null" THEN "valid" ELSE ui.ptr["cover"]) \in Values
    BY <2>3 DEF Values
  <2> QED
    BY <2>1, <2>2, <2>4, PointersAre DEF CoverUsed, Screens
<1> HIDE DEF v
<1>2. Good(v)
  BY <1>1, PointersAre DEF Good, Tied, Runs
<1> QED
  BY <1>1, <1>2, PointersAre DEF v

\* UnlockScreen, from the lock screen
LEMMA OpenedUnlock ==
    ASSUME NEW u, Clear(u), TopOf(u.windows) = "lock"
    PROVE  LET v == UnlockScreen(u) IN
           /\ Good(v) /\ TopOf(v.windows) = "unlock" /\ v.timer = u.timer
           /\ Covered(u.windows) => Covered(v.windows)
<1> DEFINE a == release_desktop_resources(u)
<1>1. /\ Good(a) /\ a.windows = u.windows /\ a.timer = u.timer
      /\ \A p \in Pointers : a.ptr[p] = u.ptr[p]
  BY NoDesktop DEF Clear, Tops
<1> HIDE DEF a
<1>2. /\ Clear(a) /\ DeleteIf(a, "black_screen_mask") = a
      /\ DeleteIf(a, "unlock_screen") = a
  <2>1. Clear(a) /\ a.ptr["black_screen_mask"] = "null"
    BY <1>1, PointersAre DEF Clear, Good
  <2>2. a.ptr["unlock_screen"] = "null"
    BY <1>1 DEF Good, Tied
  <2> QED
    BY <2>1, <2>2, DeleteIfNull
<1>3. UnlockScreen(u) = Create(a, "unlock", {"unlock_screen"})
  BY <1>2 DEF UnlockScreen, a
<1>4. "unlock" \in Kinds
  BY DEF Kinds
<1> QED
  BY <1>1, <1>2, <1>3, <1>4, Opened

\* A message box over the topmost window.
LEMMA MsgboxOpened ==
    ASSUME NEW u, Good(u)
    PROVE  LET v == Create(u, "msgbox", {}) IN
           /\ Good(v) /\ TopOf(v.windows) = TopOf(u.windows) /\ v.timer = u.timer
           /\ Covered(u.windows) => Covered(v.windows)
<1> DEFINE s == u.windows
           v == Create(u, "msgbox", {})
<1>1. u \in Screens /\ s \in Seq(Kinds) /\ Shape(s) /\ "msgbox" \in Kinds
  BY DEF Good, Screens, Kinds
<1>2. /\ v \in Screens /\ v.windows = Append(s, "msgbox") /\ v.timer = u.timer
      /\ \A p \in Pointers : v.ptr[p] = u.ptr[p]
  BY <1>1, CreateIs
<1> HIDE DEF v
<1>3. /\ TopOf(v.windows) = TopOf(s) /\ Shape(v.windows)
      /\ Covered(s) => Covered(v.windows)
  <2>1. "msgbox" \notin Tops \cup {"list", "unlock", "setpw"}
    BY DEF Tops
  <2> QED
    BY <1>1, <1>2, <2>1, Appended
<1>4. Good(v)
  BY <1>2, <1>3, PointersAre DEF Good, Tied, Runs
<1> QED
  BY <1>2, <1>3, <1>4 DEF v

\* The program starts with the lock screen alone.
LEMMA BootedIs ==
    /\ Good(Booted) /\ TopOf(Booted.windows) = "lock" /\ Covered(Booted.windows)
    /\ Booted.timer["long_press"] = 0
<1> DEFINE u == [windows |-> <<>>,
                 ptr |-> [p \in Pointers |-> "null"],
                 timer |-> [t \in Timers |-> 0]]
<1>1. <<>> \in Seq(Kinds) /\ Len(<<>>) = 0
  OBVIOUS
<1>2. /\ u \in Screens /\ u.windows = <<>>
      /\ \A p \in Pointers : u.ptr[p] = "null"
      /\ \A t \in Timers : u.timer[t] = 0
  BY <1>1 DEF Screens, Values
<1>3. Booted = Screen(u)
  BY DEF Booted
<1> HIDE DEF u
<1>4. TopOf(u.windows) = "none" /\ Shape(u.windows)
  <2>1. u.windows \in Seq(Kinds) /\ \A i \in 1 .. Len(u.windows) : FALSE
    BY <1>1, <1>2
  <2>2. TopOf(u.windows) = "none"
    BY <2>1, TopNone
  <2> QED
    BY <2>1, <2>2 DEF Shape, Grounded
<1>5. Good(u)
  <2>1. /\ u.ptr["desktop_win"] = "null" /\ u.ptr["unlock_screen"] = "null"
        /\ u.ptr["set_password_screen"] = "null" /\ u.ptr["music_player_screen"] = "null"
        /\ u.ptr["thumbnail_screen"] = "null" /\ u.ptr["viewer_screen"] = "null"
        /\ u.ptr["black_screen_mask"] = "null" /\ u.ptr["music_list_screen"] = "null"
    BY <1>2, PointersAre
  <2>2. /\ u.timer["status"] = 0 /\ u.timer["progress"] = 0
        /\ u.timer["hide"] = 0 /\ u.timer["long_press"] = 0
    BY <1>2, TimersAre
  <2>3. u \in Screens
    BY <1>2
  <2> QED
    BY <1>4, <2>1, <2>2, <2>3 DEF Good, Tied, Runs
<1>6. Clear(u)
  BY <1>2, <1>4, <1>5, PointersAre DEF Clear, Tops
<1> QED
  BY <1>2, <1>3, <1>6, OpenedLock, TimersAre

-----------------------------------------------------------------------------
(* Every step preserves the invariant. *)

\* the touch stays in its window, or the map knows the way
Goes(from, to) == from = to \/ <<from, to>> \in Map!Ways

\* what a handler that a touch or a click starts has to show
LEMMA Kept ==
    ASSUME IndInv, ~ pressed, UNCHANGED pressed,
           unlocked' \in BOOLEAN, missed' \in BOOLEAN, Good(ui'),
           ui'.timer["long_press"] = ui.timer["long_press"],
           ~ unlocked' => Covered(ui'.windows),
           unlocked' /\ ~ missed' =>
               TopOf(ui'.windows) \in {"desktop", "list", "player", "thumbs", "viewer", "time"},
           Goes(Top, TopOf(ui'.windows))
    PROVE  IndInv' /\ Goes(Top, Top')
BY DEF IndInv, Top

\* a step that leaves the windows alone
LEMMA SameWindows ==
    ASSUME ui'.windows = ui.windows
    PROVE  Top' = Top /\ Goes(Top, Top')
BY DEF Top, Goes

\* only after the password is a window of the desktop or of an application touched
LEMMA TouchedInside ==
    ASSUME IndInv, Top \notin {"lock", "unlock", "setpw", "mask"}
    PROVE  unlocked
<1>1. ui.windows \in Seq(Kinds)
  BY DEF IndInv, Good, Screens
<1> QED
  BY <1>1, CoveredTop DEF IndInv, Top

LEMMA WallpaperStep ==
    ASSUME IndInv, Top = "lock", ~ pressed, NEW u, Wallpaper(u), UNCHANGED pressed,
           Good(u), u.timer = ui.timer, Covered(ui.windows) => Covered(u.windows),
           TopOf(u.windows) \in {"lock", "unlock"}
    PROVE  IndInv' /\ Goes(Top, Top')
<1>1. unlocked \in BOOLEAN /\ missed \in BOOLEAN /\ ~ (unlocked /\ ~ missed)
      /\ (~ unlocked => Covered(ui.windows)) /\ ui.timer["long_press"] = 0
  BY DEF IndInv
<1>ways. Goes("lock", "lock") /\ Goes("lock", "unlock")
  BY DEF Goes, Map!Ways
<1>2. CASE Become(u) /\ UNCHANGED <<unlocked, missed>>
  BY <1>1, <1>2, <1>ways, Kept DEF Become
<1>3. CASE ui' = Booted /\ unlocked' = FALSE /\ missed' = FALSE
  BY <1>1, <1>3, <1>ways, BootedIs, Kept
<1> QED
  BY <1>2, <1>3 DEF Wallpaper

LEMMA LockStep ==
    ASSUME IndInv, LockSteps
    PROVE  IndInv' /\ Goes(Top, Top')
<1>1. /\ Good(ui) /\ unlocked \in BOOLEAN /\ missed \in BOOLEAN
      /\ ~ unlocked => Covered(ui.windows)
      /\ unlocked /\ ~ missed => Top \notin {"lock", "unlock", "setpw", "mask"}
      /\ Top = TopOf(ui.windows)
  BY DEF IndInv, Top
<1>2. CASE Drag
  <2>1. Good(CoverUsed) /\ CoverUsed.timer = ui.timer /\ CoverUsed.windows = ui.windows
    BY <1>1, CoverIsUsed
  <2>2. Top = "lock" /\ ~ pressed /\ Wallpaper(CoverUsed) /\ UNCHANGED pressed
    BY <1>2 DEF Drag, Touched
  <2>3. TopOf(CoverUsed.windows) = "lock"
    BY <1>1, <2>1, <2>2
  <2> HIDE DEF CoverUsed
  <2> QED
    BY <2>1, <2>2, <2>3, WallpaperStep
<1>3. CASE SwipeUp
  <2>1. /\ Top = "lock" /\ ~ pressed /\ Wallpaper(UnlockScreen(CoverUsed))
        /\ UNCHANGED pressed
    BY <1>3 DEF SwipeUp, Touched
  <2>2. Clear(CoverUsed) /\ TopOf(CoverUsed.windows) = "lock"
    BY <1>1, <2>1, CoverIsUsed DEF Clear, Tops, Good
  <2>3. CoverUsed.windows = ui.windows /\ CoverUsed.timer = ui.timer
    BY <1>1, CoverIsUsed
  <2> DEFINE u == UnlockScreen(CoverUsed)
  <2>4. /\ Good(u) /\ TopOf(u.windows) = "unlock" /\ u.timer = ui.timer
        /\ Covered(ui.windows) => Covered(u.windows)
    BY <2>2, <2>3, OpenedUnlock
  <2> HIDE DEF u
  <2>5. Wallpaper(u)
    BY <2>1 DEF u
  <2> QED
    BY <2>1, <2>4, <2>5, WallpaperStep
<1> DEFINE a == DeleteIf(ui, "unlock_screen")
           b == DeleteIf(ui, "set_password_screen")
<1>4. ASSUME Top = "unlock"
      PROVE  /\ Clear(a) /\ TopOf(a.windows) = "lock" /\ a.timer = ui.timer
             /\ Covered(ui.windows) => Covered(a.windows)
  BY <1>1, <1>4, PointersAre, Closed
<1>5. ASSUME Top = "setpw"
      PROVE  /\ Clear(b) /\ TopOf(b.windows) = "lock" /\ b.timer = ui.timer
             /\ Covered(ui.windows) => Covered(b.windows)
  BY <1>1, <1>5, PointersAre, Closed
<1>ways. /\ Goes("unlock", "desktop") /\ Goes("unlock", "lock") /\ Goes("unlock", "setpw")
       /\ Goes("setpw", "lock")
  BY DEF Goes, Map!Ways
<1>6. CASE PasswordRight
  <2>1. /\ Top = "unlock" /\ ~ pressed /\ ui' = desktop(a) /\ unlocked' = TRUE
        /\ UNCHANGED <<pressed, missed>>
    BY <1>6 DEF PasswordRight, Touched, Become
  <2> HIDE DEF a
  <2>2. /\ Good(ui') /\ TopOf(ui'.windows) = "desktop"
        /\ ui'.timer["long_press"] = ui.timer["long_press"]
    BY <1>4, <2>1, OpenedDesktop
  <2> QED
    BY <1>1, <1>ways, <2>1, <2>2, Kept
<1>7. CASE CancelUnlock
  <2>1. /\ Top = "unlock" /\ ~ pressed /\ ui' = a
        /\ UNCHANGED <<pressed, unlocked, missed>>
    BY <1>7 DEF CancelUnlock, Touched, Become
  <2> HIDE DEF a
  <2> QED
    BY <1>1, <1>4, <1>ways, <2>1, Kept DEF Clear
<1>8. CASE Forgot
  <2>1. /\ Top = "unlock" /\ ~ pressed /\ ui' = SetPasswordScreen(a)
        /\ UNCHANGED <<pressed, unlocked, missed>>
    BY <1>8 DEF Forgot, Touched, Become
  <2> HIDE DEF a
  <2>2. a.ptr["set_password_screen"] = "null"
    BY <1>4, <2>1 DEF Clear, Good, Tied, Tops
  <2>3. ui' = Create(a, "setpw", {"set_password_screen"})
    BY <2>1, <2>2, DeleteIfNull DEF SetPasswordScreen
  <2>4. /\ Good(ui') /\ TopOf(ui'.windows) = "setpw" /\ ui'.timer = a.timer
        /\ Covered(a.windows) => Covered(ui'.windows)
    BY <1>4, <2>1, <2>3, Opened DEF Kinds
  <2> QED
    BY <1>1, <1>4, <1>ways, <2>1, <2>4, Kept
<1>9. CASE SavePassword
  <2>1. /\ Top = "setpw" /\ ~ pressed /\ ui' = b
        /\ UNCHANGED <<pressed, unlocked, missed>>
    BY <1>9 DEF SavePassword, Touched, Become
  <2> HIDE DEF b
  <2> QED
    BY <1>1, <1>5, <1>ways, <2>1, Kept DEF Clear
<1>10. CASE SetPasswordBack
  <2>1. /\ Top = "setpw" /\ ~ pressed /\ ui' = Screen(b)
        /\ UNCHANGED <<pressed, unlocked, missed>>
    BY <1>10 DEF SetPasswordBack, Touched, Become
  <2> HIDE DEF b
  <2>2. /\ Good(ui') /\ TopOf(ui'.windows) = "lock" /\ ui'.timer = ui.timer
        /\ Covered(ui'.windows)
    BY <1>5, <2>1, OpenedLock
  <2> QED
    BY <1>1, <1>ways, <2>1, <2>2, Kept
<1> QED
  BY <1>2, <1>3, <1>6, <1>7, <1>8, <1>9, <1>10 DEF LockSteps

LEMMA DesktopStep ==
    ASSUME IndInv, DesktopSteps
    PROVE  IndInv' /\ Goes(Top, Top')
<1>1. /\ Good(ui) /\ unlocked \in BOOLEAN /\ missed \in BOOLEAN
      /\ ui \in Screens /\ "long_press" \in Timers
      /\ Top = TopOf(ui.windows)
  BY TimersAre DEF IndInv, Top, Good
<1>2. CASE Press
  <2>1. /\ Top = "desktop" /\ ~ pressed /\ pressed' = TRUE
        /\ ui' = IF ui.timer["long_press"] = 0 THEN StartTimer(ui, "long_press") ELSE ui
        /\ UNCHANGED <<unlocked, missed>>
    BY <1>2 DEF Press, Touched
  <2>2. ui' = StartTimer(ui, "long_press") /\ ui.timer["long_press"] = 0
    BY <2>1 DEF IndInv
  <2>3. /\ ui' \in Screens /\ ui'.windows = ui.windows /\ ui'.ptr = ui.ptr
        /\ \A r \in Timers :
             ui'.timer[r] = IF r = "long_press" THEN 1 ELSE ui.timer[r]
    BY <1>1, <2>2, StartTimerIs
  <2>4. Good(ui')
    BY <1>1, <2>3, TimersAre DEF Good, Tied, Runs
  <2> QED
    BY <1>1, <2>1, <2>3, <2>4, SameWindows DEF IndInv
<1>3. CASE Release
  <2>1. /\ pressed /\ pressed' = FALSE /\ ui' = StopTimer(ui, "long_press")
        /\ UNCHANGED <<unlocked, missed>> /\ ui.timer["long_press"] = 1
    BY <1>3 DEF Release, IndInv
  <2>2. /\ ui' \in Screens /\ ui'.windows = ui.windows /\ ui'.ptr = ui.ptr
        /\ \A r \in Timers :
             ui'.timer[r] = IF r = "long_press" THEN 0 ELSE ui.timer[r]
    BY <1>1, <2>1, StopTimerIs
  <2>3. Good(ui')
    BY <1>1, <2>2, TimersAre DEF Good, Tied, Runs
  <2> QED
    BY <1>1, <2>1, <2>2, <2>3, SameWindows DEF IndInv
<1>4. CASE LongPress
  <2>1. /\ ui.timer["long_press"] > 0 /\ pressed' = FALSE /\ unlocked' = FALSE
        /\ missed' = missed
        /\ ui' = StopTimer(release_desktop_resources(
                               Create(ui, "mask", {"black_screen_mask"})), "long_press")
    BY <1>4 DEF LongPress, Become
  <2>2. Top = "desktop"
    BY <2>1 DEF IndInv
  <2>3. /\ Good(ui') /\ TopOf(ui'.windows) = "mask" /\ Covered(ui'.windows)
        /\ ui'.timer["long_press"] = 0
    BY <1>1, <2>1, <2>2, BlackedOut
  <2>4. Goes(Top, Top')
    BY <2>2, <2>3 DEF Goes, Map!Ways, Top
  <2> QED
    BY <1>1, <2>1, <2>3, <2>4 DEF IndInv
<1>5. CASE WakeUp
  <2>1. /\ Top = "mask" /\ ~ pressed /\ UNCHANGED <<pressed, unlocked, missed>>
        /\ ui' = Screen(DeleteIf(ui, "black_screen_mask"))
    BY <1>5 DEF WakeUp, Touched, Become
  <2>2. DeleteIf(ui, "black_screen_mask") = ui
    BY <1>1, DeleteIfNull DEF Good
  <2>3. Clear(ui)
    BY <1>1, <2>1 DEF Clear, Good, Tops
  <2>4. /\ Good(ui') /\ TopOf(ui'.windows) = "lock" /\ ui'.timer = ui.timer
        /\ Covered(ui'.windows)
    BY <2>1, <2>2, <2>3, OpenedLock
  <2>5. ~ (unlocked /\ ~ missed)
    BY <2>1 DEF IndInv
  <2>6. Goes("mask", "lock")
    BY DEF Goes, Map!Ways
  <2> QED
    BY <1>1, <2>1, <2>4, <2>5, <2>6, Kept
<1> QED
  BY <1>2, <1>3, <1>4, <1>5 DEF DesktopSteps

LEMMA AppStep ==
    ASSUME IndInv, NEW kind \in {"list", "player", "thumbs", "viewer", "time", "desktop"},
           NEW u, App(kind, u), Good(u), u.timer["long_press"] = ui.timer["long_press"],
           TopOf(u.windows) \in {"desktop", "list", "player", "thumbs", "viewer", "time"},
           Goes(kind, TopOf(u.windows))
    PROVE  IndInv' /\ Goes(Top, Top')
<1>1. /\ ui' = u /\ Top = kind /\ ~ pressed /\ UNCHANGED <<pressed, unlocked, missed>>
  BY DEF App, Touched, Become
<1>2. unlocked /\ unlocked \in BOOLEAN /\ missed \in BOOLEAN
  BY <1>1, TouchedInside DEF IndInv
<1> QED
  BY <1>1, <1>2, Kept

\* An application starts, or a message box says that it has no file.
LEMMA ScannedStep ==
    ASSUME IndInv, Top = "desktop", ~ pressed, UNCHANGED <<pressed, unlocked>>,
           NEW u, Clear(u), TopOf(u.windows) \in {"lock", "list", "none"},
           u.timer["long_press"] = ui.timer["long_press"], NEW v,
           \/ ui' = v /\ UNCHANGED missed
           \/ ui' = Create(u, "msgbox", {}) /\ missed' = TRUE,
           Good(v), TopOf(v.windows) \in {"list", "thumbs"},
           v.timer["long_press"] = u.timer["long_press"]
    PROVE  IndInv' /\ Goes(Top, Top')
<1>1. unlocked /\ unlocked \in BOOLEAN /\ missed \in BOOLEAN
  BY TouchedInside DEF IndInv
<1>ways. /\ Goes("desktop", "list") /\ Goes("desktop", "thumbs")
      /\ Goes("desktop", "lock") /\ Goes("desktop", "none")
  BY DEF Goes, Map!Ways
<1>2. CASE ui' = v /\ UNCHANGED missed
  BY <1>1, <1>2, <1>ways, Kept
<1>3. CASE ui' = Create(u, "msgbox", {}) /\ missed' = TRUE
  <2>1. Good(ui') /\ TopOf(ui'.windows) = TopOf(u.windows) /\ ui'.timer = u.timer
    BY <1>3, MsgboxOpened DEF Clear
  <2> QED
    BY <1>1, <1>3, <1>ways, <2>1, Kept
<1> QED
  BY <1>2, <1>3

LEMMA AppsStep ==
    ASSUME IndInv, AppSteps
    PROVE  IndInv' /\ Goes(Top, Top')
<1>1. /\ Good(ui) /\ unlocked \in BOOLEAN /\ missed \in BOOLEAN
      /\ ui \in Screens /\ Top = TopOf(ui.windows)
  BY DEF IndInv, Top, Good
<1> DEFINE a == release_desktop_resources(ui)
<1>2. ASSUME Top = "desktop"
      PROVE  /\ Clear(a) /\ TopOf(a.windows) \in {"lock", "list", "none"}
             /\ a.timer["long_press"] = ui.timer["long_press"]
  BY <1>1, <1>2, ReleasedDesktop
<1>ways. /\ Goes("list", "player") /\ Goes("player", "list") /\ Goes("list", "desktop")
       /\ Goes("thumbs", "viewer") /\ Goes("viewer", "thumbs") /\ Goes("thumbs", "desktop")
       /\ Goes("desktop", "time") /\ Goes("time", "desktop") /\ Goes("time", "time")
  BY DEF Goes, Map!Ways
<1>3. CASE StartMusic
  <2>1. /\ Top = "desktop" /\ ~ pressed /\ UNCHANGED <<pressed, unlocked>>
        /\ \/ ui' = show_music_list_screen(a) /\ UNCHANGED missed
           \/ ui' = Create(a, "msgbox", {}) /\ missed' = TRUE
    BY <1>3 DEF StartMusic, Scanned, Touched, Become
  <2> HIDE DEF a
  <2> DEFINE v == show_music_list_screen(a)
  <2>2. Good(v) /\ TopOf(v.windows) = "list" /\ v.timer["long_press"] = a.timer["long_press"]
    BY <1>2, <2>1, ShownList DEF Clear
  <2> HIDE DEF v
  <2>3. \/ ui' = v /\ UNCHANGED missed
        \/ ui' = Create(a, "msgbox", {}) /\ missed' = TRUE
    BY <2>1 DEF v
  <2> QED
    BY <1>2, <2>1, <2>2, <2>3, ScannedStep
<1>4. CASE ListItem
  <2>1. App("list", show_music_player_screen(ui)) /\ Top = "list"
    BY <1>4 DEF ListItem, App, Touched
  <2> QED
    BY <1>1, <1>ways, <2>1, ShownPlayer, AppStep
<1>5. CASE PlayerBack
  <2>1. App("player", show_music_list_screen(ui)) /\ Top = "player"
    BY <1>5 DEF PlayerBack, App, Touched
  <2> QED
    BY <1>1, <1>ways, <2>1, ShownList, AppStep
<1>6. CASE MusicExit
  <2>1. App("list", desktop(cleanup_music_player(ui))) /\ Top = "list"
    BY <1>6 DEF MusicExit, App, Touched
  <2> DEFINE b == cleanup_music_player(ui)
  <2>2. /\ Clear(b) /\ TopOf(b.windows) # "mask"
        /\ b.timer["long_press"] = ui.timer["long_press"]
    BY <1>1, <2>1, LeftMusic
  <2> HIDE DEF b
  <2>3. /\ Good(desktop(b)) /\ TopOf(desktop(b).windows) = "desktop"
        /\ desktop(b).timer["long_press"] = ui.timer["long_press"]
    BY <2>2, OpenedDesktop
  <2>4. App("list", desktop(b))
    BY <2>1 DEF b
  <2> QED
    BY <1>ways, <2>3, <2>4, AppStep
<1>7. CASE StartGallery
  <2> DEFINE b == init_gallery(a)
  <2>1. /\ Top = "desktop" /\ ~ pressed /\ UNCHANGED <<pressed, unlocked>>
        /\ \/ ui' = show_gallery_thumbnail_screen(b) /\ UNCHANGED missed
           \/ ui' = Create(b, "msgbox", {}) /\ missed' = TRUE
    BY <1>7 DEF StartGallery, Scanned, Touched, Become
  <2> HIDE DEF a
  <2>2. /\ b \in Screens /\ b.windows = a.windows /\ b.timer = a.timer
        /\ \A p \in Pointers : b.ptr[p] =
             IF p \in {"thumbnail_screen", "viewer_screen"} THEN "null" ELSE a.ptr[p]
    BY <1>2, <2>1, SetNullIs DEF init_gallery, Clear, Good
  <2> HIDE DEF b
  <2>3. Clear(b)
    BY <1>2, <2>1, <2>2, PointersAre DEF Clear, Good, Tied, Runs, Tops
  <2> DEFINE v == show_gallery_thumbnail_screen(b)
  <2>4. Good(v) /\ TopOf(v.windows) = "thumbs" /\ v.timer["long_press"] = b.timer["long_press"]
    BY <2>3, ShownThumbs DEF Clear
  <2> HIDE DEF v
  <2>5. \/ ui' = v /\ UNCHANGED missed
        \/ ui' = Create(b, "msgbox", {}) /\ missed' = TRUE
    BY <2>1 DEF v
  <2> QED
    BY <1>2, <2>1, <2>2, <2>3, <2>4, <2>5, ScannedStep
<1>8. CASE Thumbnail
  <2>1. App("thumbs", show_image_viewer_screen(ui)) /\ Top = "thumbs"
    BY <1>8 DEF Thumbnail, App, Touched
  <2> QED
    BY <1>1, <1>ways, <2>1, ShownViewer, AppStep
<1>9. CASE ViewerClick
  <2>1. App("viewer", show_gallery_thumbnail_screen(ui)) /\ Top = "viewer"
    BY <1>9 DEF ViewerClick, App, Touched
  <2> QED
    BY <1>1, <1>ways, <2>1, ShownThumbs, AppStep
<1>10. CASE GalleryExit
  <2>1. App("thumbs", desktop(release_gallery_resources(ui))) /\ Top = "thumbs"
    BY <1>10 DEF GalleryExit, App, Touched
  <2> DEFINE b == release_gallery_resources(ui)
  <2>2. /\ Clear(b) /\ TopOf(b.windows) # "mask"
        /\ b.timer["long_press"] = ui.timer["long_press"]
    BY <1>1, <2>1, LeftGallery
  <2> HIDE DEF b
  <2>3. /\ Good(desktop(b)) /\ TopOf(desktop(b).windows) = "desktop"
        /\ desktop(b).timer["long_press"] = ui.timer["long_press"]
    BY <2>2, OpenedDesktop
  <2>4. App("thumbs", desktop(b))
    BY <2>1 DEF b
  <2> QED
    BY <1>ways, <2>3, <2>4, AppStep
<1>11. CASE HideInfo
  <2>1. /\ ui.timer["hide"] > 0 /\ ui' = StopTimer(ui, "hide")
        /\ UNCHANGED <<pressed, unlocked, missed>>
    BY <1>11 DEF HideInfo, Become
  <2>2. ui.timer["hide"] = 1 /\ "hide" \in Timers
    BY <1>1, <2>1, TimersAre DEF Good
  <2>3. /\ ui' \in Screens /\ ui'.windows = ui.windows /\ ui'.ptr = ui.ptr
        /\ \A r \in Timers : ui'.timer[r] = IF r = "hide" THEN 0 ELSE ui.timer[r]
    BY <1>1, <2>1, <2>2, StopTimerIs
  <2>4. Good(ui')
    BY <1>1, <2>3, TimersAre DEF Good, Tied, Runs
  <2> QED
    BY <1>1, <2>1, <2>3, <2>4, TimersAre, SameWindows DEF IndInv
<1>12. CASE StartTime
  <2> DEFINE b == Create(a, "time", {})
  <2>1. App("desktop", b) /\ Top = "desktop"
    BY <1>12 DEF StartTime, App, Touched
  <2> HIDE DEF a
  <2>2. Good(b) /\ TopOf(b.windows) = "time" /\ b.timer = a.timer
    BY <1>2, <2>1, Opened DEF Kinds
  <2> HIDE DEF b
  <2> QED
    BY <1>2, <1>ways, <2>1, <2>2, AppStep
<1>13. CASE TimeExit
  <2>1. App("time", desktop(Delete(ui, "time"))) /\ Top = "time"
    BY <1>13 DEF TimeExit, App, Touched
  <2> DEFINE b == Delete(ui, "time")
  <2>2. Clear(b) /\ TopOf(b.windows) # "mask" /\ b.timer = ui.timer
    BY <1>1, <2>1, LeftTime
  <2> HIDE DEF b
  <2>3. /\ Good(desktop(b)) /\ TopOf(desktop(b).windows) = "desktop"
        /\ desktop(b).timer["long_press"] = ui.timer["long_press"]
    BY <2>2, OpenedDesktop
  <2>4. App("time", desktop(b))
    BY <2>1 DEF b
  <2> QED
    BY <1>ways, <2>3, <2>4, AppStep
<1>14. CASE TimeInvalid
  <2> DEFINE b == Create(ui, "msgbox", {})
  <2>1. App("time", b) /\ Top = "time"
    BY <1>14 DEF TimeInvalid, App, Touched
  <2>2. Good(b) /\ TopOf(b.windows) = "time" /\ b.timer = ui.timer
    BY <1>1, <2>1, MsgboxOpened
  <2> HIDE DEF b
  <2> QED
    BY <1>ways, <2>1, <2>2, AppStep
<1>15. CASE CloseMsgbox
  <2>1. /\ ~ pressed /\ ui.windows # <<>> /\ Last(ui.windows) = "msgbox"
        /\ ui' = Delete(ui, "msgbox") /\ UNCHANGED <<pressed, unlocked, missed>>
    BY <1>15 DEF CloseMsgbox, Become
  <2>2. /\ Good(ui') /\ TopOf(ui'.windows) = TopOf(ui.windows) /\ ui'.timer = ui.timer
        /\ Covered(ui.windows) => Covered(ui'.windows)
    BY <1>1, <2>1, MsgboxClosed
  <2>3. Goes(Top, TopOf(ui'.windows))
    BY <1>1, <2>2 DEF Goes
  <2> QED
    BY <1>1, <2>1, <2>2, <2>3, Kept DEF IndInv
<1> QED
  BY <1>3, <1>4, <1>5, <1>6, <1>7, <1>8, <1>9, <1>10, <1>11, <1>12, <1>13, <1>14, <1>15
     DEF AppSteps

LEMMA EveryStep ==
    ASSUME IndInv, [Next]_vars
    PROVE  IndInv' /\ Goes(Top, Top')
<1>1. CASE UNCHANGED vars
  BY <1>1, SameWindows DEF vars, IndInv, Top
<1> QED
  BY <1>1, LockStep, DesktopStep, AppsStep DEF Next

THEOREM Invariance == Spec => []IndInv
<1>1. Init => IndInv
  BY BootedIs, TopNone DEF Init, IndInv
<1>2. IndInv /\ [Next]_vars => IndInv'
  BY EveryStep
<1> QED
  BY <1>1, <1>2, PTL DEF Spec

-----------------------------------------------------------------------------
(* The theorems. *)

\* The screen, its pointers and its timers always have their types.
THEOREM TypeCorrect == Spec => []TypeOK
<1>1. IndInv => TypeOK
  BY DEF IndInv, Good, Screens, Values, TypeOK
<1> QED
  BY <1>1, Invariance, PTL

\* No pointer a handler tests against NULL ever dangles, however many windows are left
\* behind and whatever the order the applications are started in.
THEOREM PointersAreSafe == Spec => []NoPointerDangles
<1>1. IndInv => NoPointerDangles
  BY PointersAre DEF IndInv, Good, Tied, NoPointerDangles
<1> QED
  BY <1>1, Invariance, PTL

\* No timer of the desktop or of an application fires after its window has gone.
THEOREM TimersAreSafe == Spec => []TimersFindWidgets
<1>1. IndInv => TimersFindWidgets
  BY TimersAre DEF IndInv, Good, Tied, Runs, Top, TimersFindWidgets
<1> QED
  BY <1>1, Invariance, PTL

\* A window that is not left behind on purpose is never on the screen twice.
THEOREM WindowsOnce == Spec => []WindowsAreUnique
<1>1. ASSUME IndInv, NEW kind \in Kinds \ {"lock", "mask", "msgbox"}
      PROVE  Cardinality({i \in DOMAIN ui.windows : ui.windows[i] = kind}) <= 1
  <2> DEFINE I == {i \in DOMAIN ui.windows : ui.windows[i] = kind}
  <2>1. ui.windows \in Seq(Kinds) /\ Shape(ui.windows)
    BY <1>1 DEF IndInv, Good, Screens
  <2>2. kind \in Tops \cup {"list"} /\ kind # "msgbox"
    BY <1>1 DEF Kinds, Tops
  <2>3. \A i, j \in I : i = j
    <3> SUFFICES ASSUME NEW i \in I, NEW j \in I PROVE i = j
      OBVIOUS
    <3>1. /\ i \in 1 .. Len(ui.windows) /\ j \in 1 .. Len(ui.windows)
          /\ ui.windows[i] = kind /\ ui.windows[j] = kind
      BY <2>1
    <3>2. CASE kind = "list"
      BY <2>1, <3>1, <3>2 DEF Shape
    <3>3. CASE kind \in Tops
      <4>1. ~ (i < j)
        BY <2>1, <2>2, <3>1, <3>3 DEF Shape
      <4>2. ~ (j < i)
        BY <2>1, <2>2, <3>1, <3>3 DEF Shape
      <4> QED
        BY <3>1, <4>1, <4>2
    <3> QED
      BY <2>2, <3>2, <3>3
  <2>4. CASE I = {}
    BY <2>4, FS_EmptySet
  <2>5. CASE I # {}
    <3>1. PICK i : i \in I
      BY <2>5
    <3>2. I = {i}
      <4> HIDE DEF I
      <4> QED
        BY <2>3, <3>1
    <3> QED
      BY <3>2, FS_Singleton
  <2> QED
    BY <2>4, <2>5
<1>2. IndInv => WindowsAreUnique
  BY <1>1 DEF WindowsAreUnique
<1> QED
  BY <1>2, Invariance, PTL

\* Until the password is given a touch reaches the lock screen's own windows only.
THEOREM Locked == Spec => []LockedIsCovered
<1>1. IndInv => LockedIsCovered
  <2> SUFFICES ASSUME IndInv, ~ unlocked PROVE Top \in {"lock", "unlock", "setpw", "mask"}
    BY DEF LockedIsCovered
  <2>1. ui.windows \in Seq(Kinds) /\ Covered(ui.windows)
    BY DEF IndInv, Good, Screens
  <2> QED
    BY <2>1, CoveredTop DEF Top
<1> QED
  BY <1>1, Invariance, PTL

\* As long as directories have files there is always a window to touch.
THEOREM NeverLost == Spec => []SomewhereToGo
<1>1. IndInv => SomewhereToGo
  <2> SUFFICES ASSUME IndInv, ~ missed PROVE Top # "none"
    BY DEF SomewhereToGo
  <2>1. CASE unlocked
    BY <2>1 DEF IndInv
  <2>2. CASE ~ unlocked
    <3>1. ui.windows \in Seq(Kinds) /\ Covered(ui.windows)
      BY <2>2 DEF IndInv, Good, Screens
    <3> QED
      BY <3>1, CoveredTop DEF Top
  <2> QED
    BY <2>1, <2>2
<1> QED
  BY <1>1, Invariance, PTL

\* Whatever was stacked, deleted or left behind before, each step takes the touch along a
\* way of the map or leaves it where it is: what a closed window uncovers is a window it
\* may uncover.
THEOREM ShellFollowsMap == Spec => FollowsMap
<1>1. Init => Map!Init
  <2>1. "lock" \in Places
    BY DEF Places, Kinds
  <2> QED
    BY <2>1, BootedIs DEF Init, Top, Map!Init, Map!View
<1>2. IndInv /\ [Next]_vars => [Map!Next]_Top
  <2> SUFFICES ASSUME IndInv, [Next]_vars, Top' # Top
               PROVE  Map!Next
    OBVIOUS
  <2>1. IndInv' /\ <<Top, Top'>> \in Map!Ways
    BY EveryStep DEF Goes
  <2>2. Top \in Places /\ Top' \in Places
    <3>1. ui.windows \in Seq(Kinds) /\ ui'.windows \in Seq(Kinds)
      BY <2>1 DEF IndInv, Good, Screens
    <3>2. TopOf(ui.windows) \in Places /\ TopOf(ui'.windows) \in Places
      BY <3>1, TopIs DEF Places
    <3> QED
      BY <3>2 DEF Top
  <2>3. Map!View(Top) = Top /\ Map!View(Top') = Top'
    BY <2>2 DEF Map!View
  <2>4. PICK way \in Map!Ways : way = <<Top, Top'>>
    BY <2>1
  <2> QED
    BY <2>3, <2>4 DEF Map!Next
<1> QED
  BY <1>1, <1>2, Invariance, PTL DEF Spec, FollowsMap, Map!Spec
=============================================================================
