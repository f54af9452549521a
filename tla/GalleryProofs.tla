---------------------------- MODULE GalleryProofs ----------------------------
(***************************************************************************)
(* Proofs about Gallery, for any capacity of the list.                     *)
(*                                                                         *)
(* TapCloses is not a consequence of one handler: it needs to know, when   *)
(* CLICKED comes, what PRESSED and RELEASED of the same touch have done to *)
(* swipe_detected.  Touch says it, for each phase of a touch.              *)
(***************************************************************************)
EXTENDS Gallery, TLAPS

Touch ==
    /\ finger = "down" => touch_started /\ screen # "desktop"
    /\ finger = "down" /\ screen = "viewer" => ~ swipe_detected
    /\ finger = "released" =>
          /\ screen = "viewer"
          /\ swipe_detected <=> gesture \in {"left", "right"}

\* TypeOK in two parts, for the provers: what counts and what does not.
Numbers ==
    /\ image_count \in 0 .. MaxImageCount
    /\ current_index \in 0 .. (MaxImageCount - 1)
    /\ shown \in 0 .. (MaxImageCount - 1)
    /\ caption \in 0 .. (MaxImageCount - 1)

States ==
    /\ screen \in {"desktop", "thumbs", "viewer"}
    /\ bar \in BOOLEAN /\ hide_timer \in BOOLEAN
    /\ touch_started \in BOOLEAN /\ swipe_detected \in BOOLEAN
    /\ finger \in {"up", "down", "released"}
    /\ gesture \in Gestures

IndInv ==
    /\ TypeOK
    /\ ViewerAgrees
    /\ TimerHasBar
    /\ Touch

-----------------------------------------------------------------------------
\* The neighbours of a picture are pictures of the list, and each other's neighbours.
LEMMA Neighbours ==
    ASSUME image_count \in Nat, NEW index \in Images
    PROVE  /\ NextImage(index) \in Images
           /\ PrevImage(index) \in Images
           /\ PrevImage(NextImage(index)) = index
           /\ NextImage(PrevImage(index)) = index
<1>1. NextImage(index) = IF index = image_count - 1 THEN 0 ELSE index + 1
  BY DEF NextImage, Images
<1>2. PrevImage(index) = IF index = 0 THEN image_count - 1 ELSE index - 1
  BY DEF PrevImage, Images
<1>3. NextImage(index) \in Images /\ PrevImage(index) \in Images
  BY <1>1, <1>2 DEF Images
<1>4. PrevImage(NextImage(index)) = index
  BY <1>1, <1>3 DEF PrevImage, Images
<1>5. NextImage(PrevImage(index)) = index
  BY <1>2, <1>3 DEF NextImage, Images
<1> QED
  BY <1>3, <1>4, <1>5

\* The two parts make up the type invariant.
LEMMA TypeParts == TypeOK <=> Numbers /\ States
BY DEF TypeOK, Numbers, States

LEMMA TypePartsNext == TypeOK' <=> Numbers' /\ States'
BY DEF TypeOK, Numbers, States

\* Init establishes the inductive invariant.
LEMMA InitInv == Init => IndInv
<1> SUFFICES ASSUME Init PROVE IndInv
  OBVIOUS
<1>1. Numbers
  BY CountAssumption DEF Init, Numbers
<1>2. States
  BY Zenon DEF Init, States, Gestures
<1>3. ViewerAgrees /\ TimerHasBar /\ Touch
  BY Zenon DEF Init, ViewerAgrees, TimerHasBar, Touch
<1> QED
  BY <1>1, <1>2, <1>3, TypeParts DEF IndInv

\* Every step keeps the numbers in their ranges, and picture and caption with the index.
LEMMA NextNumbers == IndInv /\ [Next]_vars => Numbers' /\ ViewerAgrees'
<1> SUFFICES ASSUME Numbers, ViewerAgrees, [Next]_vars PROVE Numbers' /\ ViewerAgrees'
  BY TypeParts DEF IndInv
<1> USE DEF Numbers, ViewerAgrees, Images, viewVars
<1>1. ASSUME NEW n \in 0 .. MaxImageCount, StartGallery(n) PROVE Numbers' /\ ViewerAgrees'
  BY <1>1, CountAssumption DEF StartGallery
<1>2. ASSUME NEW index \in Images, Thumbnail(index) PROVE Numbers' /\ ViewerAgrees'
  BY <1>2, CountAssumption DEF Thumbnail, View
<1>3. CASE PressThumbs
  BY <1>3 DEF PressThumbs
<1>4. ASSUME NEW g \in Gestures, ReleaseThumbs(g) PROVE Numbers' /\ ViewerAgrees'
  BY <1>4 DEF ReleaseThumbs
<1>5. CASE Press
  BY <1>5 DEF Press
<1>6. ASSUME NEW g \in Gestures, Release(g) PROVE Numbers' /\ ViewerAgrees'
  <2>1. /\ NextImage(current_index) \in Images
        /\ PrevImage(current_index) \in Images
    BY <1>6, Neighbours DEF Release
  <2>2. CASE \E index \in Images : Turned(index)
    BY <2>2, CountAssumption DEF Turned
  <2>3. CASE UNCHANGED viewVars
    BY <2>3
  <2> QED
    BY <1>6, <2>1, <2>2, <2>3, Zenon DEF Release
<1>7. CASE Click
  BY <1>7 DEF Click
<1>8. CASE NoClick
  BY <1>8 DEF NoClick
<1>9. CASE HideInfo
  BY <1>9 DEF HideInfo
<1>10. CASE UNCHANGED vars
  BY <1>10 DEF vars
<1> QED
  BY <1>1, <1>2, <1>3, <1>4, <1>5, <1>6, <1>7, <1>8, <1>9, <1>10 DEF Next

\* Every step keeps the flags, and what they say of the touch and of the timer.
LEMMA NextFlags == IndInv /\ [Next]_vars => States' /\ TimerHasBar' /\ Touch'
<1> SUFFICES ASSUME States, TimerHasBar, Touch, [Next]_vars
             PROVE  States' /\ TimerHasBar' /\ Touch'
  BY TypeParts DEF IndInv
<1> USE DEF States, TimerHasBar, Touch, Gestures, viewVars, barVars, touchVars
<1>1. ASSUME NEW n \in 0 .. MaxImageCount, StartGallery(n)
      PROVE  States' /\ TimerHasBar' /\ Touch'
  BY <1>1, Zenon DEF StartGallery
<1>2. ASSUME NEW index \in Images, Thumbnail(index)
      PROVE  States' /\ TimerHasBar' /\ Touch'
  BY <1>2, Zenon DEF Thumbnail, View
<1>3. CASE PressThumbs
  BY <1>3, Zenon DEF PressThumbs
<1>4. ASSUME NEW g \in Gestures, ReleaseThumbs(g)
      PROVE  States' /\ TimerHasBar' /\ Touch'
  <2>1. States'
    BY <1>4, Zenon DEF ReleaseThumbs
  <2>2. TimerHasBar'
    BY <1>4, Zenon DEF ReleaseThumbs
  <2>3. Touch'
    BY <1>4, Zenon DEF ReleaseThumbs
  <2> QED
    BY <2>1, <2>2, <2>3
<1>5. CASE Press
  BY <1>5, Zenon DEF Press
<1>6. ASSUME NEW g \in Gestures, Release(g)
      PROVE  States' /\ TimerHasBar' /\ Touch'
  <2>1. /\ screen = "viewer" /\ screen' = screen /\ finger' = "released"
        /\ gesture' = g /\ touch_started' = FALSE /\ hide_timer' = hide_timer
        /\ bar' \in BOOLEAN /\ (bar => bar')
    BY <1>6, Zenon DEF Release, Turned
  <2>2. swipe_detected' \in BOOLEAN /\ (swipe_detected' <=> g \in {"left", "right"})
    <3>1. touch_started /\ ~ swipe_detected
      BY <1>6, Zenon DEF Release
    <3>2. CASE g \in {"left", "right"}
      <4>1. g \notin {"tap", "drag"}
        BY <3>2
      <4>2. swipe_detected' = TRUE
        BY <1>6, <3>1, <4>1, Zenon DEF Release
      <4> QED
        BY <3>2, <4>2, Zenon
    <3>3. CASE g \notin {"left", "right"}
      <4>1. swipe_detected' = swipe_detected
        BY <1>6, <3>3, Zenon DEF Release
      <4> QED
        BY <3>1, <3>3, <4>1, Zenon
    <3> QED
      BY <3>2, <3>3, Zenon
  <2> QED
    BY <2>1, <2>2, Zenon
<1>7. CASE Click
  <2>1. States'
    BY <1>7, Zenon DEF Click
  <2>2. TimerHasBar'
    BY <1>7, Zenon DEF Click
  <2>3. Touch'
    BY <1>7, Zenon DEF Click
  <2> QED
    BY <2>1, <2>2, <2>3
<1>8. CASE NoClick
  BY <1>8, Zenon DEF NoClick
<1>9. CASE HideInfo
  BY <1>9, Zenon DEF HideInfo
<1>10. CASE UNCHANGED vars
  BY <1>10, Zenon DEF vars
<1> QED
  BY <1>1, <1>2, <1>3, <1>4, <1>5, <1>6, <1>7, <1>8, <1>9, <1>10 DEF Next

\* Every handler preserves the inductive invariant.
LEMMA NextInv == IndInv /\ [Next]_vars => IndInv'
BY NextNumbers, NextFlags, TypePartsNext DEF IndInv

-----------------------------------------------------------------------------
\* The invariant on which the theorems below rest: the phases of a touch.
THEOREM Invariance == Spec => []IndInv
BY InitInv, NextInv, PTL DEF Spec

\* Type correctness of g_gallery.
THEOREM TypeCorrect == Spec => []TypeOK
<1>1. IndInv => TypeOK
  BY DEF IndInv
<1> QED
  BY Invariance, <1>1, PTL

\* update_viewer_image and show_image_viewer_screen keep the index in the list, and
\* picture and caption with it.
THEOREM PictureIsNamed == Spec => []ViewerAgrees
<1>1. IndInv => ViewerAgrees
  BY DEF IndInv
<1> QED
  BY Invariance, <1>1, PTL

\* load_prev_image undoes load_next_image and the other way round, in a list of any length.
THEOREM TurningBack == Spec => []TurnsAreInverse
<1>1. IndInv => TurnsAreInverse
  <2> SUFFICES ASSUME IndInv PROVE TurnsAreInverse
    OBVIOUS
  <2>1. image_count \in Nat
    BY CountAssumption DEF IndInv, TypeOK
  <2> QED
    BY <2>1, Neighbours DEF TurnsAreInverse
<1> QED
  BY Invariance, <1>1, PTL

\* hide_info_timer_cb never runs without the bar it hides.
THEOREM TimerFindsBar == Spec => []TimerHasBar
<1>1. IndInv => TimerHasBar
  BY DEF IndInv
<1> QED
  BY Invariance, <1>1, PTL

\* image_touch_cb tells a tap from a swipe, whatever touches came before.
THEOREM TapsAreTold == Spec => TapCloses
<1>1. IndInv /\ [Next]_vars =>
          [finger = "released" /\ finger' = "up" =>
              /\ gesture = "tap" => screen' = "thumbs"
              /\ gesture \in {"left", "right"} => screen' = "viewer"]_vars
  <2> SUFFICES ASSUME IndInv, [Next]_vars, finger = "released", finger' = "up"
               PROVE  /\ gesture = "tap" => screen' = "thumbs"
                      /\ gesture \in {"left", "right"} => screen' = "viewer"
    OBVIOUS
  <2>1. Click \/ NoClick
    BY DEF Next, StartGallery, Thumbnail, PressThumbs, ReleaseThumbs, Press, Release,
           HideInfo, vars, touchVars
  <2> QED
    BY <2>1 DEF IndInv, Touch, Click, NoClick, viewVars
<1> QED
  BY Invariance, <1>1, PTL DEF Spec, TapCloses

-----------------------------------------------------------------------------
(* What the gallery is to the components next to it. *)

\* The touches of the gallery are those of the abstract protocol, the same that LvIndev is
\* proved to implement: each event of a touch is a step of it, and all else a stutter.
THEOREM GalleryObeysProtocol == Spec => ObeysProtocol
<1> DEFINE pressed == IF finger = "down" THEN {screen} ELSE {}
           released == IF finger = "released" THEN "viewer" ELSE "none"
<1>1. Init => Touches!Init
  BY DEF Init, Touches!Init
<1>2. ASSUME TypeOK, [Next]_vars
      PROVE  [Touches!Next]_<<pressed, released>>
  <2> USE DEF Touches!Next, touchVars, viewVars
  <2>1. CASE \E n \in 0 .. MaxImageCount : StartGallery(n)
    BY <2>1 DEF StartGallery
  <2>2. CASE \E index \in Images : Thumbnail(index)
    BY <2>2 DEF Thumbnail
  <2>3. CASE PressThumbs
    BY <2>3 DEF PressThumbs, Touches!Press
  <2>4. CASE \E g \in Gestures : ReleaseThumbs(g)
    BY <2>4 DEF ReleaseThumbs, Touches!Release
  <2>5. CASE Press
    BY <2>5 DEF Press, Touches!Press
  <2>6. CASE \E g \in Gestures : Release(g)
    <3>1. pressed = {"viewer"} /\ pressed' = {} /\ released' = "viewer"
      BY <2>6 DEF Release
    <3> QED BY <3>1 DEF Touches!Release
  <2>7. CASE Click
    BY <2>7 DEF Click, Touches!Click
  <2>8. CASE NoClick
    <3>1. pressed = {} /\ pressed' = {} /\ released' = "none"
      BY <2>8 DEF NoClick
    <3> QED BY <3>1 DEF Touches!DropOut
  <2>9. CASE HideInfo
    BY <2>9 DEF HideInfo
  <2>10. CASE UNCHANGED vars
    BY <2>10 DEF vars
  <2> QED BY <1>2, <2>1, <2>2, <2>3, <2>4, <2>5, <2>6, <2>7, <2>8, <2>9, <2>10 DEF Next
<1> QED BY <1>1, <1>2, TypeCorrect, PTL DEF Spec, ObeysProtocol, Touches!Spec

\* The windows of the gallery, as its handlers open and close them, follow each other only
\* the way the map of the program says.
THEOREM GalleryFollowsMap == Spec => FollowsMap
<1>1. Init => Map!Init
  BY DEF Init, Map!Init, Map!View
<1>2. TypeOK /\ [Next]_vars => [Map!Next]_screen
  <2> SUFFICES ASSUME TypeOK, [Next]_vars, screen' # screen
               PROVE  Map!Next
    OBVIOUS
  <2>1. <<screen, screen'>> \in {<<"desktop", "thumbs">>, <<"thumbs", "viewer">>,
                                 <<"viewer", "thumbs">>, <<"thumbs", "desktop">>}
    BY DEF Next, StartGallery, Thumbnail, View, PressThumbs, ReleaseThumbs, Press, Release,
           Turned, Click, NoClick, HideInfo, viewVars, vars
  <2>2. <<screen, screen'>> \in Map!Ways
    BY <2>1 DEF Map!Ways
  <2>3. screen = Map!View(screen) /\ screen' = Map!View(screen')
    BY <2>1 DEF Map!View
  <2> QED BY <2>2, <2>3 DEF Map!Next
<1> QED BY <1>1, <1>2, TypeCorrect, PTL DEF Spec, FollowsMap, Map!Spec
=============================================================================
