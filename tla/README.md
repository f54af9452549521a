# Media system: models, checks and proofs

This directory models the touch-screen media system of this repository
(`src/src/*.c`, `src/inc/*.h`): a C program on a framebuffer board that shows a
lock screen, a desktop, a music player, a picture gallery and a time-settings
window with LVGL 9.0. It also models the two parts of the vendored LVGL whose
control the program lives in, its timers and its pointer device. The modules are
written in TLA+ and checked with TLC on small instances; the safety properties of all
of them have machine-checked proofs for every instance as well, and so have the liveness
properties, up to the state predicates that section 5 names.

`PROJECT.json` maps each definition to the lines it models; all source lines below
refer to the files after decoding (most of the program's are GB18030 with CRLF line
ends). Files without a directory are in `src/src/`; `lv_*.c` are below
`src/lvgl/src/`, in `misc`, `tick`, `indev`, `core` and `libs/ffmpeg`.

## 1. The system

One process, one UI thread: `main` calls `lv_timer_handler()` in a loop, which runs
one timer callback or one input event handler at a time. There is concurrency
nevertheless: the player processes forked by the music application, the
kernel that writes the password file back, and the audio thread of the boot
animation.

| Component | Source | State it keeps | Operations |
|---|---|---|---|
| Program entry | `main.c` | - | `main`, `boot_animation_timer_cb` |
| Boot animation | `start_video.c` | `video_ready`, mutex, condition variable, `g_video_player` | `lv_start_video`, `lv_stop_video`, `audio_thread` |
| Lock screen, password | `screen.c` | `stored_password`, `input_password`, `new_password`, `confirm_password`, `password_step`, two window pointers, a static cover; the file `unlock_passwd` | `Screen`, `wallpaper_scroll_event_cb`, `UnlockScreen`, two keypads, Cancel, Forgot, Save, Back, `load_password`, `save_password` |
| Desktop | `main_screen.c` | `desktop_win`, `black_screen_mask`, status timer, long-press timer | `desktop`, `release_desktop_resources`, three application buttons, long press, wake up |
| Music player | `kugou_music.c` | `g_music_player`: list, index, mode, state, `player_pid`, progress, timer, windows | list item, back, play/pause, next, previous, mode, progress timer, swipe to leave |
| Gallery | `dcim.c` | `g_gallery`: list, index, windows, `hide_timer`, touch flags | thumbnail, tap, swipe, `hide_info_timer_cb`, swipe to leave |
| Clock and settings | `data.c` | `current_display_time`, status label and timer, the on-screen keyboard `g_kb_data` | status timer, confirm, swipe to leave, focus of a text area, click of the window, RTC read and set |
| Video stub | `video.c` | - | `video_test` |
| LVGL timers | `lv_timer.c`, `lv_ll.c`, `lv_tick.c` | the list of timers, `timer_created`, `timer_deleted`, the tick | `lv_timer_handler`, create, delete, pause, resume, repeat count, period, ready, reset |
| LVGL input device | `lv_indev.c`, `lv_indev_scroll.c`, deletion in `lv_obj_tree.c` | `act_obj`, `last_obj`, `scroll_obj`, `last_pressed`, `indev_obj_act`, flags, the throw animation | `lv_indev_read`, press, release, focus, scroll, gesture, throw, reset |
| FFmpeg video widget | `lv_ffmpeg.c` | context, frame timer, auto restart | set source, command, frame timer, destructor |

Outside, modelled only as far as it is used: the kernel (processes, threads, signals,
files, RTC). Not modelled: the rest of LVGL, FFmpeg, fonts, pictures, build files.

**How the components interact.** They call each other's functions (`Screen`,
`desktop`, `start_music_app`, ...) from event handlers. They share the one LVGL screen
object, to which every window is added: a window is removed with `lv_obj_del`, or by
the music player and the gallery with `lv_obj_clean`, which removes everybody's.
They share static pointers to those windows (`desktop_win`, `black_screen_mask`, ...),
tested against NULL before use, and timers that outlive the windows they were created
with unless somebody deletes them. The music player talks to its child by `fork`,
`kill` and `waitpid`. The lock screen and a later run of the program talk through
the password file.

**What is hard.** A song may end, or a player ignore a signal, between any two system
calls of a handler; pids are reused; the state the handlers test is as old as the last
tick. `save_password` empties its file before it writes it, ignores every error and
never syncs. Windows, pointers and timers of five files must agree after any walk
through the screens. The `hazards` of `PROJECT.json`
list the lines and the properties this comes to.

**What is right for each component.**
- Music: no player without an owner, no signal to a pid that is not ours, state and title
  agree with the child, a song is followed by the next, the UI never hangs.
- Password: nobody is locked out or let in, whatever fails; only a password somebody
  chose is ever asked for.
- Screens: no dangling pointer, no timer without its widgets, nothing uncovered while
  locked, no dead end.
- Gallery: the picture, the caption and the index agree; a swipe is no tap; the
  information bar disappears.
- Clock: what is shown is a time; a confirmed time is kept; the software clock
  advances one second a second.
- Boot animation: the audio starts after the video, is silent once the lock screen is
  shown, and neither thread waits for ever.
- LVGL timers: no freed timer is used although a callback may delete any; nobody is passed
  over; what is due is called.
- LVGL input: the device forgets what is deleted; an object is told PRESSED, then the end
  of it, then perhaps CLICKED, and one touch presses one object.

## 2. Modules

| Module | Models | Composition |
|---|---|---|
| `Navigation` | abstract specification: the map of windows, which one the touch goes to after which | implemented by `Shell`, and by `MusicPlayer`, `LockScreen`, `Gallery` and `Clock` for the windows each knows |
| `ChildProcess` | the kernel's table of child processes: fork, kill, waitpid, exec, exit | extended by `MusicPlayer` |
| `Jukebox` | abstract specification: one voice at a time | implemented by `MusicPlayer` |
| `MusicPlayer` | `kugou_music.c` | with `ChildProcess` |
| `MusicPlayerProofs` | theorems about `MusicPlayer` | |
| `PasswordStore` | abstract specification: a door and the password that opens it | implemented by `LockScreen` |
| `LockScreen` | the passwords of `screen.c`, the file, the disk | |
| `LockScreenProofs` | theorems about `LockScreen` | |
| `Shell` | windows, pointers and timers of all the screens together | |
| `ShellProofs` | theorems about `Shell` | |
| `Gallery` | `dcim.c`: index, picture, caption, information bar, touch flags | |
| `GalleryProofs` | theorems about `Gallery` | |
| `Clock` | `data.c`: displayed time, RTC, confirmed entries, on-screen keyboard | |
| `ClockProofs` | theorems about `Clock` | |
| `FfmpegPlayer` | `lv_ffmpeg.c`: the video widget, as functions from state to state | used by `BootVideo` |
| `BootVideo` | `start_video.c`, the boot timer of `main.c`: two threads and a child | with `FfmpegPlayer` |
| `BootVideoProofs` | theorems about `BootVideo` | |
| `LvTick` | `lv_tick.c`: elapsed and remaining time modulo 2^32 | |
| `LvTimer` | `lv_timer.c`: the handler and the list | |
| `LvTimerProofs` | theorems about `LvTimer` and `LvTick` | |
| `TouchProtocol` | abstract specification: what an object is told of a touch | implemented by `LvIndev` |
| `LvIndev` | `lv_indev.c`, `lv_indev_scroll.c`: the pointer device | |
| `LvIndevProofs` | theorems about `LvIndev` | |
| `MCLockScreen`, `MCClock`, `MCLvIndev` | values for TLC | |

`MusicPlayer`, `LockScreen`, `Gallery` and `Clock` are views in depth, `Shell` is the view
in breadth; each handler appears in the view whose state it changes, and some
(`Forgot`, `ListItem`, `Click`, ...) in two. What ties the five together is one map of windows:
`Navigation` lists the ways from window to window (`Ways`), `Shell` is shown to take no others,
and so is each of the four, with the windows it does not know as one place, "elsewhere". A
view in depth therefore comes and goes only as the program does. `LvTimer` and `LvIndev` are the ground they
stand on: that a timer which stays due is called, that a deleted object gets no event,
that a touch ends with RELEASED and perhaps CLICKED is assumed by the former and
shown by the latter for whatever callbacks do.

### MusicPlayer and ChildProcess

Variables carry the names of `g_music_player`. `title` is what `song_title_label`
shows, `screen` which of the two windows there is, `listed` how many buttons the list on
the screen has. When the user leaves, `cleanup_music_player` forgets the list but does not delete
it; it stays below the desktop, and comes up again when an application finds no file and so
deletes the desktop for nothing (`Uncover`, from `StartMusicApp` without a song or from
`StartGallery`), unless a lock window covers it; an application that opens a window cleans it
away. Its buttons are those of the scan that built it. The UI thread is at `pc = "idle"` in
the event loop. `stop_music` and `play_music` sleep or block between their system
calls while the children go on, so the handlers that call them are split there:
`StopMusic` (SIGTERM), `Poll` (waitpid WNOHANG), `PollAgain` (after 100 ms: SIGKILL),
`WaitKilled` (blocking waitpid), `ForkPlayer` / `ForkFails`. All other handlers are one
step: nothing another process does between their statements is seen by them.

A child is forked, plays and becomes a zombie. It may exit at once (neither player
program can be executed), at the end of the song, or of a signal. SIGTERM and SIGKILL
are pending until it is scheduled; a stopped child takes only SIGKILL. A reaped pid
is free and fork may hand it out again, which is what makes a stale pid
dangerous.

`update_music_progress` is `TickEnded` (the player is dead: reap it, `next_music`) and
`TickAdvances` (a second more). The captions of the play and mode buttons are drawn
transparent by the code and left out. The seconds of a song are counted without
limit; `MaxProgress` is the bound of the model.

Not reachable in the code, and so not modelled: `back_btn_event_cb`, `music_back_cb`,
`release_music_resources` (nobody registers or calls them) and the `*_gesture_cb`
handlers (LVGL delivers a gesture to the first ancestor without
`LV_OBJ_FLAG_GESTURE_BUBBLE`, here the screen object, which has no such handler).

### LockScreen

`file` is what the program reads back, `disk` what a power cycle leaves; the kernel's
`WriteBack` copies one to the other at any time, since the code never syncs.
`OpenForWriting` empties the file or fails; `WriteAndClose` writes the password or
fails; `PowerCycle` may come at any step and restarts the program from its static
values. The few bytes of a password are written all or not at all.
`load_password` of an empty file reads nothing and leaves `stored_password` as it is
(`Loaded`); a file it cannot open, for whatever reason, it takes for missing, and saves
the default. Three history variables, which the code does not have, say what the user
chose: `lastSet`, `chosen`, and `mishap`, which becomes true when a save or a load fails or
power is cut before its data were on the disk.

The other applications are the single state "desktop": leaving it is a long
press and the black mask (`Blackout`, `WakeUp`), or an application that finds no file and
uncovers the lock window (`NoFile`). A finger on a window never reaches the
one below, so only the top window's handlers are enabled.

### Shell

`ui.windows` are the windows on the LVGL screen, bottom to top, `ui.ptr` the static
pointers (null, valid, or dangling: what they point to was deleted), `ui.timer`
how many timers of each kind exist. Functions of the source that build and delete
windows are functions from screen to screen with the same names (`desktop`,
`release_desktop_resources`, `show_music_list_screen`, ...); an action is a handler
that applies them in the order the code calls them.

The touch goes to the last full-screen window (`Top`); a message box may lie over it
and is closed by its button. `unlock_screen` and `set_password_screen` stand
for the window and the cover under it, which are created and deleted together.
The cover of the wallpaper handler is a static pointer that is set once;
a write through it after the object was deleted is undefined, and the model lets it go
unnoticed or ends the program, which is then started again. Each scan of a
directory may find files or none. `unlocked` and `missed` (a scan found none) are
history variables.

### Gallery

`shown` and `caption` are what `current_img` and `info_label` show, `bar` whether
`info_container` is visible. A touch in the viewer is `Press`, `Release` and
then `Click`, or `NoClick` when LVGL took the movement for scrolling; RELEASED and
CLICKED are sent in one run of LVGL's input timer, so no timer callback runs between
them. The finger's coordinates are abstracted to the four cases the handlers
tell apart. The history variable `gesture` is what the touch looked like.

### Clock

A time is the record of the fields of `struct tm` that the code uses. `NextSecond` is the
carry of `status_bar_timer_cb`, nested as in the code: a field is tested only when the
one before it wraps. Each access to the RTC succeeds or fails on its own; `desktop`
reads it twice, in `init_time_display` and in `status_bar_timer_cb`. `RtcMoves` lets the
RTC run, or be set by somebody else, at any time. `mktime` is modelled by what it
does to entries that passed the range check: it normalises the day and fills in
the day of the week (the time zone is taken to have no gaps). `asked` is a history
variable: the time confirmed by the last step.

The five text areas share one keyboard. `kb_shown` and `kb_ta` are whether it is hidden and
which area it writes to; `last_pressed` is the part of LVGL's memory that decides
whether an area that is touched is told FOCUSED at all. A click of the window
hides the keyboard; while it is shown it covers the Confirm button.

Both `Shell` and `LockScreen` begin where `boot_animation_timer_cb` has called
`Screen()`. At this commit `main` has the boot animation and that timer commented out
and calls `video_test()` instead; the models show the program as its comments and the
rest of its code mean it.

### BootVideo and FfmpegPlayer

`ui` and `audio` say where the two threads are. The UI thread's functions are split
where the audio thread, or the child of its `system`, can get in between: at the mutex,
at `pthread_create`, at `killall`. The mutex is held for a few statements only,
so a critical section is one step; `Check` is the loop around `pthread_cond_wait`,
`SpuriousWake` a return from it without a signal. `system` is a shell ("sh") that becomes
madplay ("playing"), or fails; `killall` finds only the latter, and its SIGTERM is
pending (`termed`) until madplay takes it.

Time is counted in seconds. `wakeAt` is the end of `sleep(2)`, `bootAt` the moment the boot timer
is due, `due` the moment the audio thread's next step is done at the latest. The one
assumption on the scheduler is `DelayAssumption`: no step of the audio thread is kept waiting
for `MaxDelay`, and `SleepSeconds + 3 * MaxDelay < BootSeconds`; without any such bound
`SilentWhenLocked` is false, since a thread that sleeps or a shell that starts during
`killall` is not found by it. `MaxLate` bounds how late the UI thread may be, for TLC.

An undefined outcome (the context of a video freed and kept, an unset thread id given to
`pthread_detach`) goes on as if nothing had happened, or ends the program
(`ui = "dead"`). The video has up to `LastFrame` frames; decoding gives one or none.

### LvTimer and LvTick

The list is the set `timers` with the order `before`, nodes are addresses that may be used
again after a timer is deleted. `lv_timer_handler` is split at each timer of the
list (`SkipPaused`, `SkipNotReady`, `RunExpired`, `Call`, `Return`). At `pc = "callback"`
the program's callback runs: any number of `Create`, `Delete`, `Pause`, `Resume`,
`SetRepeatCount` and `SetTime`, of any timer, the running one and `next` included.
`ready` are the timers without time remaining; `TimePasses` makes one ready at any
moment, and `LvTick` has the arithmetic by which the code decides it. `seen` (had their
turn in this pass) and `stale` (which pointer of the handler was freed, even if the
address is in use again) are history variables.

`lv_timer_set_auto_delete` and `lv_timer_enable(false)` are called by nobody; the
`already_running` guard is for callers this program does not have.

### LvIndev and TouchProtocol

A read of the device is a walk of `pc` through `lv_indev_read`, `indev_proc_press` or
`indev_proc_release`; where `pc` is the name of an event, callbacks run (`Deliver`), which may
delete any object with its children, or clean the screen, and create a new object,
perhaps at an address just freed. `Below[o]` are the objects of the tree at and below
`o`. Deletion does what `obj_delete_core` and `indev_reset_core` do to the
device (`Callback`, `Forget`, `DeviceUses`). Between two reads the program's timers run
(`OtherCallbacks`) and so does the animation of a thrown scroll (`Thrown`).
How far the finger moved, and whether the time for a long press is over, are
choices. `held`, `touched`, `let_go` and `scrolled` are history variables.

Two facts of this program are assumed: no timer deletes anything while a scroll is thrown (the
only timer that deletes objects is the long press of the desktop), and callbacks told
of a throw delete nothing. For LVGL in general the
second one matters: a reset during a throw lets the next touch search without
stopping the animation, which may then end its scroll under the finger.

All objects but the screen have `LV_OBJ_FLAG_PRESS_LOCK` and `LV_OBJ_FLAG_GESTURE_BUBBLE`, as
LVGL creates them; no object is in a group or disabled; no input device but the touch panel.

## 3. Runs

| Run | Specification | Bounds | Result |
|---|---|---|---|
| `music_player` | `MusicPlayer!FairSpec` | 2 pids, 0-3 songs, 2 seconds | passes: 5 invariants, 1 action property, implements `Jukebox`, 2 liveness properties |
| `music_zombie` | `MusicPlayer!FairSpec` | 2 pids, 0-2 songs, 1 second | `ZombiesAreReaped` violated |
| `lock_safety` | `LockScreen!Spec` | 2 keys, 2 digits | passes: 3 invariants, implements `PasswordStore` |
| `lock_new_password` | `LockScreen!Spec` | the same | `NewPasswordStays` violated |
| `shell_safety` | `Shell!Spec` | 6 windows | passes: 5 invariants, implements `Navigation` |
| `shell_cover` | `Shell!Spec` | 6 windows | `CoverIsThere` violated |
| `gallery_safety` | `Gallery!Spec` | 0-3 pictures | passes: 2 invariants, 1 action property |
| `clock_safety` | `Clock!Spec` | 3 times of the RTC, 10 entries, 4 seconds without the RTC | passes: 2 invariants, 1 action property |
| `clock_confirmed` | `Clock!Spec` | the same | `ConfirmedIsShown` violated |
| `boot` | `BootVideo!FairSpec` | 2 frames, sleep of 2 and boot timer of 12 seconds, delays up to 3 | passes: 3 invariants, 2 liveness properties |
| `timer` | `LvTimer!FairSpec` | 3 timers, repeat counts up to 1 or without end | passes: 2 invariants, 1 action property, 2 liveness properties |
| `touch` | `LvIndev!Spec` | the screen, a window, two objects in it | passes: 3 invariants, implements `TouchProtocol` |

**What the runs ask.** They check what could go wrong through interleavings, failures and
sequences of handlers; `music_zombie`, `lock_new_password`, `shell_cover` and `clock_confirmed`
check what a comment of the source says and the code does not do (section 6). The type invariants,
and a few properties that are plain or follow from a refinement (`EntriesInStep`, `NeverLockedOut`,
`ChosenOpens`, `TurnsAreInverse`, `SecondsOfLivingSong`, `FrameFindsPlayer`, `ObeysProtocol`), are not run
again: they are proved for every instance (section 5). So is `FollowsMap` in the modules other than
`Shell`. `PlayerIsOwned`, `SoundIsWithinVideo` and
`TouchIsWhole` are conjunctions of two or three named parts, each with a theorem of its own. `TypeOK` of `LockScreen` is run, since it says
that no keypad buffer overflows.

`NobodyIsStuck` (of `MusicPlayer` and of `BootVideo`) and `HandlerCanGoOn` say with `ENABLED` that
whoever need not wait has a next step: a song that has ended has a next one, the child a handler waits
for can die, the two bounds on delays never leave a moment in which nothing may happen, the timer handler
finds its way through a list that callbacks have changed. Weak fairness is worth nothing
without that: an action that is not enabled when it should be owes no step.

**Why the bounds are enough.** `PlayerIsOwned` forbids a second child, so two pids are one
more than correct code needs and allow a reused pid and a fresh one. Three songs tell
next from previous and allow a scan that finds fewer songs than the last. Two
seconds tell zero from not zero and a first from a later one. Two keys and two digits have complete, incomplete,
equal and different entries, and a right first digit with a wrong second. Six windows
leave room for two rounds of locking with a mask and a message box in between; the
code has no such bound, only lock windows, masks and message boxes ever pile up,
and none of them has a pointer whose state depends on how many there are.

Three pictures tell next from previous; one and two, where they are the same, are
included. The RTC's times lie two seconds before the end of a minute, of a leap
February and of a year, so that four seconds without the RTC cross each border; the
entries lie on and beyond the limits of the range check, two of them on a 31st of
February.

The seconds of `boot` are the program's own; with delays up to three seconds
`DelayAssumption` holds with one second to spare. Three timers are a running
one, a next one and one behind it, or a new one in front; a repeat count of one is the only one
the program sets, and a count beyond it is taken down the same way. In `touch` a window with
two objects can be deleted with the object pressed, without it, around it, or be
found under the finger when the object is gone.

**Deadlock** is checked everywhere but in `boot`, `shell_safety` and `shell_cover`. `BootVideo`
ends where the lock screen is shown and the audio thread has ended. In `Shell`, with empty directories the program has a dead end: the desktop is deleted,
the application shows a message box because it found no files, and when the box is
closed the screen is empty. `SomewhereToGo` says that this is the only way there.

**Mutants.** Definitions named `X_...` are `X` with a plausible slip (a guard dropped, a
pointer not reset); each property of a passing run is violated when the one listed
for it in `PROJECT.json` takes the place of `X`. They are used for nothing else.

## 4. Fairness

The `FairSpec` of `MusicPlayer` assumes weak fairness of:
- `HandlerStep`: a handler that has begun goes on; its sleeps are bounded, and its one
  blocking call waits for a child that was sent SIGKILL;
- `TickEnded`: LVGL calls a timer that stays due, from the loop of `main`;
- `KilledDies`, `Exec`/`ExecFails`, `SongEnds`, each for some pid, which is as much as for each,
  since there is never more than one child: the kernel schedules a child, and a song that is not
  paused ends.

The `FairSpec` of `BootVideo` assumes it of `UiStep`, `AudioStep` and `Tick`: both threads are
scheduled, time passes, and the boot timer is called while it is due. Nothing is
assumed of frames, spurious wake-ups and the length of the song.

The `FairSpec` of `LvTimer` assumes it of `HandlerStep`: `main` calls the handler for ever and every
callback returns. `DueIsCalled` then says what the other two assume of timers, as long as
the handler returns again and again (`HandlerReturns`): each creation and deletion
sends it back to the head of the list, and callbacks that do so without end would keep it there.
`ExpiredIsDeleted` asks for more, passes in which no timer is deleted (`QuietPasses`), since
`lv_timer_exec` deletes nothing after a deletion. The callbacks of this program create and delete
timers only when the user acts or a timer ends.

Nothing is assumed of the user. Nothing is assumed of SIGTERM either: a player may
ignore it, and a paused one must.

## 5. Proofs

All theorems hold for any set of pids, any capacity of the lists, any digits and
password length greater than zero, any bound on the windows, any video and any times,
any set of timers and any tree of objects. The assumptions are the ones the modules
name: `PidAssumption` (-1 is no pid), `CountAssumption`, `ProgressAssumption`,
`LengthAssumption`, `DefaultAssumption` (the default password has the right length),
`MissingAssumption` (a missing file is no password), `RtcAssumption` (by itself the RTC
shows days of the calendar), `EntriesAssumption` (the text areas take four and two
digits), `DriftAssumption`; `FrameAssumption`, `TimeAssumption` and `DelayAssumption` of the
boot animation; and what `LvTimer` and `LvIndev` assume of their constants (NULL is no
timer and no object, the objects form a tree below the screen).

**MusicPlayerProofs.** None of the invariants is inductive alone: that fork never makes
a second child needs to know that fork is reached without a player; that a pid names
a child needs to know that nobody else reaps it; that the child plays the selected song
needs to know that a stop under way ends in a fork or outside the application.
`Control` says this for each value of `pc`, `IndInv` is its conjunction with the
invariants. `InitInv` and `NextInv` (one lemma for each group of actions, on top of
lemmas about kill, waitpid and the children) give `Invariance`; the invariants follow,
then the two action properties, then `OneVoiceAtATime`: every step maps
to a step of `Jukebox` or to a stutter.

**LockScreenProofs.** `Promises` collects the invariants; `SaveInProgress` says what
`save_password` is about to write, `FileKeepsChoice` that without a mishap the
password in memory, in the file and (once written back) on the disk lead to `lastSet`.
Their conjunction with `TypeOK` is inductive. `TypeCorrect` includes that no keypad
buffer overflows.

**GalleryProofs.** `TapCloses` needs to know, at CLICKED, what PRESSED and RELEASED of the
same touch have left in `swipe_detected`: `Touch` says it for each phase, and is
inductive together with the invariants. Numbers and flags are proved in two lemmas
(`NextNumbers`, `NextFlags`), since no prover at hand does both well. `Neighbours` is
the arithmetic of turning, for a list of any length.

**ClockProofs.** Three lemmas carry the theorems: `MkTimeCalendar` (every accepted
entry becomes a day of the calendar), `NextSecondTime` (each of the six ways to carry
yields a time one second later) and `WeekdayRange`. The invariant adds to the types
that the RTC holds a calendar day.

`KeysGoToTheAreaTouched` is inductive with the types alone.

**LockScreenProofs, refinement.** `LockScreenIsAStore` maps the screens to a door (closed,
asking, open), and "kept" to: no mishap, and no save of a new password under
way. Each action is a step of `PasswordStore` or a stutter; that the door opens only
with the password in effect needs `Promises`, that the latest one is in effect needs
`FileKeepsChoice`.

**ShellProofs.** The walk through the screens has no bound but the number of windows, so
what a handler finds on the screen must be known beforehand. `Shape` says which
sequences of windows there are: only message boxes lie above a window that
belongs to an application or to the desktop. `Tied` and `Runs` tie each pointer and each
timer to the topmost window, and `Covered` says what lies on top while locked. Each function that builds or
deletes windows has a lemma that says what it does to these three, and each group of
actions (`LockStep`, `DesktopStep`, `AppsStep`) one that combines them.

**One map, five views.** `ShellFollowsMap` says that every step of `Shell` takes the touch along a way of
`Navigation` or leaves it where it is, for any number of windows left behind. Which window is on top
before a step is plain; which one a deletion uncovers is not, since it was put there any number
of steps ago. That is what `Grounded` is for, the third part of `Shape`: the next window under a keypad
that is not a message box (`Under`) is a lock window, and the one under the desktop or an
application is never a mask. A mask with the desktop above it would be touched when
the desktop is closed, and its pointer was forgotten long before. `UnderIsTop` turns what is under a window
into what is on top without it, and each lemma about a function that deletes says what it leaves on top.
`PlayerFollowsMap`, `LockScreenFollowsMap`, `GalleryFollowsMap` and `ClockFollowsMap` say the same of the
four views in depth, that of the lock screen with restarts after a power cut.

Stating this found two steps that the views in depth had left out and `Shell` had: the lock window
and the list of songs that come up under the message box of an application without files. With the second one
a list may stand on the screen that an earlier scan built. `IndexInList` now says of it what is true:
its buttons are those of the present list, or the present list is empty, and then a tap
on a button plays nothing and shows no title.

**BootVideoProofs.** `Deadlines` says, for each place the audio thread can be, how far its
next deadline lies from the boot timer's; added up over the three steps left to
madplay, `DelayAssumption` puts them before `killall`. `Control` says what the two threads know of
each other (`video_ready` is set while the thread may test it), `Video` what the frame timer finds.

**LvTimerProofs.** The order of the list is a strict total one (`TypeOK`); `seen` is closed
towards the head, `next` is the successor of the running timer until a flag is
set, and `stale` is empty unless `timer_deleted` is. The theorems about `LvTick` are for
every word length: `ElapsedOverOverflow`, `NeverLongerThanPeriod`, and `ReadyIsReady`, which has
an exception: `lv_timer_ready` does not make a timer of the longest period
(2^32 - 1 ms) ready, because its `- 1` then wraps around to the present. The program has no such timer.

**LvIndevProofs.** The invariant says for each `pc` which of the device's pointers agree (after
PRESSED, `indev_obj_act` is `act_obj`; after a reset none is used), and who in `held` is
pressed. The lemma about `Callback` is the heart: whatever is deleted, every
pointer is forgotten or still an object, and the walk is either over or where it was.
`DeviceKeepsProtocol` maps `held` and `let_go` to the abstract `TouchProtocol`.

**Two components and their protocol.** `DeviceKeepsProtocol` says that `LvIndev` implements
`TouchProtocol`, `GalleryObeysProtocol` that the touches `Gallery` is modelled with are
sequences of it. So the gallery counts on nothing that the device, whose callbacks may delete
what they like, would not keep.

**Liveness.** `HandlersAlwaysReturn`, `NextSongAlwaysFollows`, `DueIsAlwaysCalled`,
`ExpiredIsAlwaysDeleted`, `LockScreenAlwaysFollows` and `AudioThreadAlwaysGoesOn` prove the six
liveness properties from weak fairness, for every value of the constants. Each follows the same
plan: places that an actor goes through; a lemma that every step stays in a
place or leads to a later one (from the inductive invariant); a lemma that the fair action leads on;
then one leads-to per place, chained by temporal logic. What is particular:
- A handler that stops a player goes from SIGTERM over two polls to `waitpid`. It stays there until the
  child dies, and the child that `KilledDies` is about is the one it waits for, since there is no other.
- Until the progress timer finds the player dead the user may pause, resume, go to another song
  or leave. `EndedStays` shows that none of this brings it to life or loses it.
- A timer that is due cannot be called earlier than the handler comes to it, and the handler may be sent
  back to the head any number of times. The proof is by contradiction with `HandlerReturns`: once a pass has
  begun, a timer that stays due has its turn still to come (`DueStaysAhead`), so the
  handler could never return. For `ExpiredIsDeleted` a flag that stays FALSE takes that part.
- The audio thread is before the signal or past it from its first step (`AudioBegins`), whatever comes
  first; `Deadlines` keeps `lv_stop_video` from taking `video_ready` back in between.

Two things are beyond the provers. tlapm takes `ENABLED A` for a formula it knows nothing of, so
what fairness needs to know of it is a hypothesis: always `NobodyIsStuck`, always `HandlerCanGoOn`. It is not
an assumption on the code but an invariant that TLC checks in the same run as the
liveness property, and the guards it comes to are theorems: `EveryWaitEnds` (`waitpid` blocks
only on a child that SIGKILL is pending for, and the next index is one of the list), `ClockFindsItsWay`
(who waits for the clock does not stop it) and `HandlerFindsItsWay`. The last one is an induction over
the list: its least element is found with `LeastNumber`, which the well-foundedness of `<` on sets of numbers
gives without the induction theorems. The other is induction over temporal formulas.
The two theorems about `BootVideo` need it once, for a fact of counting and not of the
code: ticks without end do not stay below a fixed `bootAt`. It is their hypothesis `TicksAddUp`, true
of every behaviour since `Tick` adds one and nothing else moves `clock`. That there are ticks without end
while the boot timer is waited for, and that both threads come to the moment they wait for (`TimeComes`),
is proved from it: no thread keeps the clock from ticking for ever (`ClockComes`).
TLC, which needs no such hypothesis, checks both liveness properties in the run `boot`.

**Model-checked only.** `NobodyIsStuck` and `HandlerCanGoOn`, for the reason above. Every other
property of a passing run is a theorem.

## 6. Findings

- `music_zombie` (`kugou_music.c:251`): the progress timer that "cleans up zombies"
  (line 1024) is deleted when the list is shown. A song that ends there is followed by
  nothing, its player stays a zombie until the user acts.
- `lock_new_password` (`screen.c:253`): "the new password takes effect at once and is kept
  over a restart" (line 797). If the file could not be written, or power is cut
  before write-back, the next `UnlockScreen` asks for an older one.
- `shell_cover` (`screen.c:92`): the static cover is created once; after `lv_obj_clean`
  by the music player or the gallery the lock screen writes to a deleted object.
- `clock_confirmed` (`data.c:453`): "setting the RTC failed, but the displayed time is
  updated nevertheless" (line 452); `desktop()` overwrites it at once with the RTC's
  old time or the default.

Further disagreements were met while modelling, which the models have in them but no run
of their own shows:
- The mask of a long press is created before `release_desktop_resources` forgets it
  (`main_screen.c:307`, `189`), so "the black mask is cleared before the desktop is entered"
  (line 27) never happens; one mask stays below the windows for each long press (`Shell`).
- The mask is created and the desktop deleted under the finger: the device is reset, and the
  same touch presses the mask. Its release is a click of the mask, so the screen is black
  only while the finger stays down (`LvIndev`: an object may be pressed in the same touch if the
  one before was deleted).
- The information bar "hides automatically" (`dcim.c:349`), "after 3 seconds" (line 422), but a
  swipe shows it again without a new timer (line 495; `Gallery`).
- "Use the right day of the week" (`data.c:120`): neither the default time (line 100) nor midnight
  without the RTC sets it (`Clock`).
- When the pictures of a video cannot be allocated, `lv_ffmpeg_player_set_src` closes the context and
  keeps the pointer (`lv_ffmpeg.c:164`); when the audio thread cannot be created,
  `pthread_detach` gets an unset id (`start_video.c:97`). Both are undefined (`BootVideo`).

## 7. Not modelled, and why

The repository is almost entirely vendored code and data: 2.1 million lines of FFmpeg, LVGL, fonts
and pictures around 3,700 lines of program. All of the program that has state is modelled, and those
parts of LVGL that decide the order in which its callbacks run.

- FFmpeg: codecs and containers, used through one widget; whether a frame can be decoded is
  a choice of the model. The rest of LVGL: drawing, layout, styles, widgets, examples
  and demos. The image decoder in `lv_ffmpeg.c` is not used by the program.
- Of the input device: keypads, encoders, buttons, groups, cursors, disabled objects, the
  distance scrolled. This program has none of them, or the properties do not depend on them.
- `main` before its loop: opening of the frame buffer and of the touch panel.
- `video.c`, a stub without state; the scanning and sorting of directories, whose result
  is a number of files; fonts, colours, layout and texts.
- Handlers nobody registers or can reach, named in section 2.

## 8. Plan

1. *Done.* Music player and its child, passwords and their file, all screens, gallery, clock
   with its keyboard, boot animation, LVGL's timers and pointer device; the password store, the
   jukebox, the touch protocol and the map of windows as abstract specifications; proofs of every
   safety property, and of liveness up to `ENABLED` and the counting of seconds.
2. *Possible next.* The animations of LVGL (`lv_anim.c`), which share the list and the restart of
   the timers; the touches of the other screens as sequences of `TouchProtocol`, like
   the gallery's; the arrival of touches from the panel's driver.
