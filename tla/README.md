# A verification project for Dino Kindle

Dino Kindle is the Chrome dinosaur game for the Kindle Keyboard: one thread, a
fixed tick of 80 ms, an electronic-paper display that is slow and keeps what it
shows, and a high-score file that must survive a dying battery. This directory
holds TLA+ models of it, TLC configurations that check them on small instances,
and TLAPS proofs of what matters most for every value of the constants.

Source paths below are relative to `src/` of the repository.

## 1. The system

| Component | State | Operations | What makes it correct |
|---|---|---|---|
| `domain/player` | position, velocity, pose, leg | jump, duck, stand, crash, update, reset | commands are refused in the air, so every flight is one arc and the pose says where the player is |
| `domain/obstacle*`, `cloud*` | sequences of at most 16 and 6 items | add, update_all, prune_off_screen, clear | spacing survives pruning and speed changes; nothing is dropped |
| `domain/score`, `theme`, `ground`, `game/game_rules` | points, high score, distance, palette, scroll | update, set_high, reset, check_milestone | nothing is lost between pixels and points; one flip for every 700 points; the high score is the best one |
| `game/game_engine`, `obstacle_spawner`, `collision_detector` | all of the above, next gap, game over, godmode | `step`, `restart` | the order within a frame: commands, movement, collision, spawn, score, milestone |
| `graphics/refresh_coordinator` | full refresh wanted, freeze counter | notify_*, acknowledge, decrement | the first frame and every game over are shown by a full refresh |
| `graphics/frame_differ`, `hal/packed_gray`, `frame_buffer_fb0`, `eink_controller_mxc` | framebuffer, panel | compute_damage, pack_region, present, update | whatever changed reaches the panel, on byte boundaries too |
| `application/application`, `util/signal_guard` | loop position, flags, triggers, frame count, two canvases | `run`, `step_frame`, `present_and_refresh`, `sync_frame_rate` | a trigger lives for one frame; the record is saved before it is shown; the loop ends when told to |
| `persistence/file_high_score_store` | the file, its temporary sibling | load, save (open, write, fsync, close, rename) | the record changes all at once; kills never take it back, and a power loss at most to a number saved before |
| `hal/input_device_evdev`, `game/input_state` | open nodes; triggers, quit, ducking | open, poll_events, process_event, close | no press is missed or seen twice; nobody is left ducking |
| `graphics/dirty_region_tracker` | up to its capacity of boxes | add_region, add_full_screen, clear | covers everything added, and nothing without a reason (the program does not use it) |
| `graphics/canvas`, `bitmap_font`, `sprite_renderer`, `scene_renderer` | animation tick | set_pixel, fill_rect, draw_*, render | the picture is the game's, to the pixel, at the edges too; the numbers can be read |
| `scripts/launch_kindle.sh`, `main`, `application/hardware_context`, constructors and destructors in `hal` | the Kindle's framework, open devices, terminal mode | stop, copy, run, cleanup; open, fall back, close | what was taken is given back, through failing commands and devices and through `INT` and `TERM` at any time |
| `fallback_devices` outputs and key mapping, option parsing, storage path, clock, log | none that lasts from frame to frame | text output, parsing | not modelled, see section 7 |

They interact by direct calls in one thread. `main` constructs the signal guard,
the options and the application; the application loads the high score into the
engine and then, in each iteration, polls the input device into `InputState`,
steps the engine with it, clears the momentary triggers, after a game over tells
the refresh coordinator and saves the high score, renders the engine's snapshot
into the front canvas, computes the damage against the back canvas, presents it
to the framebuffer, asks the controller for an update, and sleeps.

The hard parts are therefore not threads. They are: the order of things within
and across frames; sequences of legal commands and restarts; numbers at their
edges (speed against hitbox, points across milestones, 16.16 distances, pixel
pairs in bytes); state outside the process that outlives it (panel and file);
signals, kills and power losses between any two steps; calls whose failure
is not looked at (`ioctl`, `write`, `fsync`); and a shell script whose cleanup runs
more than once.

## 2. The modules

| Module | Models | Extends or instantiates |
|---|---|---|
| `Geometry` | `domain/geometry` | |
| `Player` | `domain/player` | `Geometry` |
| `Collections` | both collections and their items | `Geometry` |
| `Scoring` | score, theme, ground, rules | |
| `GameSession` | abstract: what the engine promises to the application | |
| `Frame` | what a frame does to the player, what the spawner may place, the collision test: the decisions that depend on their arguments only | `Player`, `Collections` |
| `GameEngine` | the engine, its spawner and collision test | `Frame`, `Scoring`; implements `GameSession` |
| `Course` | the spawner as an adversary against every way to play | `Frame`, `Scoring` |
| `Survival` | a game of the engine next to all ways to play it | `GameEngine`; its runs are runs of `Course` |
| `FairGaps` | a criterion on gaps, speeds, jump and sprites under which every course can be survived | `Frame`, `Scoring` |
| `RefreshCoordinator` | the coordinator, as operators on a record | |
| `Screen` | from canvas to framebuffer to panel | `Geometry` |
| `Application` | the process and its environment | `GameSession`, `RefreshCoordinator`, `Screen` |
| `Canvas` | `graphics/canvas`, `graphics/bitmap_font` | `Screen` |
| `Renderer` | `graphics/sprite_renderer`, `graphics/scene_renderer` | `Canvas`, `Player`, `Collections`, `Scoring` |
| `Display` | the engine, the renderer and the framebuffer together, frame by frame | `GameEngine`, `Renderer`, `RefreshCoordinator` |
| `InputDevice` | key events, kernel queues, `hal/input_device_evdev`, `game/input_state` | |
| `DirtyRegions` | `graphics/dirty_region_tracker` | `Geometry` |
| `ScoreRegister` | abstract: what the file provides | |
| `HighScoreStore` | the file by its system calls | implements `ScoreRegister` |
| `Launcher` | `scripts/launch_kindle.sh` and the life of the process inside it | |
| `MC*` | constants for TLC | the module they are named after |
| `GameEngine_proofs` | theorems about `GameEngine`, `Survival` and its courses | `Survival`, `FairGaps` |
| `HighScoreStore_proofs`, `InputDevice_proofs`, `DirtyRegions_proofs`, `Launcher_proofs` | theorems | the module they are named after |
| `Screen_proofs` | lemmas about damage, packing and presenting | `Screen` |
| `Application_proofs` | theorems | `Application`, `Screen_proofs` |
| `Display_proofs` | theorems | `Display`, `GameEngine_proofs`, `Screen_proofs` |

Three refinements hold the project together. `GameEngine` implements
`GameSession` with points, high score, palette and game over as they are; and
`Application` is written over `GameSession` instead of the engine. From start or restart to crash
`GameEngine` is a behaviour of `Course`, which `Survival` states. `HighScoreStore`
implements `ScoreRegister`, mapping `seen` to what `load` returns now and `safe`
to what it would return after a power loss; `Application` has one variable,
`stored`, for what `load` returns now: it looks at kills of the process, and power
losses are left to `HighScoreStore`.

### GameEngine

Each early return of `GameEngine::step` is an action, and each action is the
whole call: `StayOver` and `Restart` (game over), `CrashFrame` (the return after
`check_collisions`) and `PlayFrame` (to the end). `PlayFrame` uses the score
from before the frame for the speed and for the kinds the spawner may select,
and tests the collision on positions after the movement and before the spawn,
like the code. The generator is a choice among the values it can return. Positions are
whole pixels: every `FixedPoint` is made by `from_pixels` and added to or
subtracted from others, so its fraction is always zero. The one sum that grows
without end, the distance of a run, wraps at `PixelLimit` as the 32-bit addition
does. `godmode` is chosen once. `startNight` is a history variable.

### Course

The same `Frame` operators, asked a game-theoretic question: is there, for
whatever the spawner rolls, a sequence of commands that survives? Obstacles do not
depend on the player, so instead of one player the module keeps `alive`, the set of all
player states that some sequence of commands has brought this far; every frame moves
each of them under every command and drops those that collide. Survival is then
an invariant, `alive # {}`. The score matters only through the speed and the
kinds that may come, so a course starts at any of the `Levels` and, where `Passed` lets it, goes
on at the next one at any frame. Three things are left out of the pass because of this: a course
begins on an empty screen with a player at rest, passes few levels, and knows two
gaps. A level lasts for 1,000 pixels and the screen has 600, so one passage shows every screen
on which the next level can begin. The violation needs none of this: obstacles that came before
could only leave fewer players alive, and the ones that kill come one after the other at the
smallest gap.

### Survival

What ties `Course` to the engine. The specification is the engine's, with the history variable
`alive` beside it: what the obstacles of the run leave of all ways to play. The level is the last full
step of the score (`Level`), the only thing of the score that speed and kinds depend on.
`RunsAreCourses` says that every frame of play is a frame of the course at that level and that every
run begins as a course does, `PlayerIsSurvivor` that the engine's player, which obeys one sequence of commands, is in
`alive` as long as it lives. So what is checked of courses is true of games, and
a course that leaves nobody ends every game that meets it. `LevelAssumption` names
what the code's numbers must do for this: 300 points, where the pterodactyls come, are
full steps of 100, and a frame brings no more than one step (2 points at most).

### FairGaps

`Survivable` is true of some numbers and false of others, so a theorem about it needs a condition. `JumpingSuffices(top, takeOff, flight)`
is one that can be evaluated: at speeds up to `top`, who stays on the ground, takes off in the first frame that
finds the next obstacle at its `takeOff` distance or closer, and lands after `flight` frames, meets nothing. In every frame of
the jump the obstacle it is for is not there yet, under the player or past it, wherever changing speeds may have brought it (`Reach`);
it is past when the player lands; and the next one, a gap behind, is then still on its way to where the next jump begins. The code's
numbers meet it for speeds up to 13, with cacti jumped at 134 pixels and pterodactyls at 142; `MCCourse` has this as
its assumption `JumpingSufficesBelow600`. At 14, from 600 points on, the 16 frames of a jump take 224 pixels, more than the
smallest gap of 220.

### Application

`pc` walks through the loop: `check`, `poll`, `step`, `save`, `present`,
`refresh`, `sleep`. The steps are cut where the outside world can see a
difference: between the engine and the save, the save and the framebuffer, the
framebuffer and the panel. `Signal` sets the flag between any two steps; `Kill`
ends the process between any two steps; `Launch` starts it again with fresh
memory and the same file and panel. `Refresh` lets the controller drop an
update, because `EinkControllerMxc::update` does not look at the result of its
`ioctl`. `Present` begins with the rendering, whose picture is any of `Scenes`: the renderer's
tick runs on in every frame, so that a pterodactyl flaps on the game-over screen too, and nothing is
assumed to stand still (what does, `RestIsStill` of `Display` says). `lost` remembers the pixels of such updates, `polled` the keys of the
frame under way, `late` the frames shown since the loop was told to stop.
What `step_frame` does while frozen is modelled, but no state reaches it (`NeverFrozen`, section 4): nothing
calls `notify_milestone` (section 5).

### Canvas, Renderer, Display

A frame is painted in one colour on a cleared canvas, so a painting operation is
the set of buffer indices it writes, its ink, and the order of painting does not
matter. `SetPixel` is the one place where clipping happens, as in the code, and turns a
coordinate into a row-major index, so that a coordinate that is not clipped would
land in another row. `Ink` collects what `SceneRenderer::render` paints for
the present state; the bitmaps are constants, of which the `ASSUME` of `Renderer`
wants the sizes the game's boxes have.

`Display` takes one action per frame: `Step` of the engine, then on the new state the
tick, the rendering, the damage against the previous canvas, the present and the
acknowledgement. Front and back canvas are swapped and alike between two frames, hence
one variable. Frames in which nothing is shown because the coordinator froze the
screen are left out: `NeverFrozen` shows that there are none. `Marked`, which the
property uses, says for a pixel whether it should be set, by reading masks and pattern
at that pixel instead of painting.

### Launcher

`bodies` is the stack of the script and of the traps running in it, each by the
command it is at; `child` is the foreground command. `Begin` starts a command, one
action per command says how it can end, and `Fail` is `set -e`. The echoes are commands of the shell itself: `Echo` goes on,
and `EchoFails` ends the body of the script, or the whole shell if the `EXIT` trap's cleanup is under way. `end` says how the shell ended:
`finished`, `cut` by an echo that failed before the rest of the last cleanup, or by a `signal`. A trapped signal waits
in `pending` until the foreground command is over; `RunTrap` then pushes `cleanup` on
top of the body, and `Return` goes on below, since the trap on `INT` and `TERM` does not
exit. `RunExitTrap` is the trap on `EXIT`. The game's process goes through
`main` step by step: signal guard, devices of the Kindle or, when one of them cannot be
opened, of the host, the loop, and the destructors in their order. `KillScript`, `Interrupt`
(to shell and foreground command), `KillGame`, `KillGameHard`, `HangUp` (`HUP` or `QUIT` to both) and `KillScriptHard` (to the shell
alone, by any signal it does not trap; the game goes on) come at any time.
Taken from POSIX and not from the repository: when a trap runs, that an interrupted
command may have had its effect or not, that handled signals restart `read`, and that a
dead process's descriptors are closed while the terminal's mode stays. The `dd` and the
`framework start` of cleanup are taken to do their work when nothing interrupts them. What the loop
does is module `Application`; here it is one state, `running`.

### HighScoreStore

Each system call of `write_temp_atomic` is an action. The kernel's directory and
file contents (`name`, `data`) and those on the flash (`flashName`, `flashData`)
are separate; the environment writes either back at any time, a kill loses the
process and keeps the kernel's state, a power loss keeps the flash. With
`DiskFaults` a call may fail: `open` and `rename` without effect, `write` after some
of the digits, `fsync` without reaching the flash.
Assumed of the file system: rename is atomic, the directory reaches the flash in
one piece, and fsync puts the file's content there. A file content is the
number its text parses to; a text `load` refuses is `Unreadable`.

The register it implements, `ScoreRegister`, has two numbers: `seen`, which a save changes all at once, and
`safe`, which follows it some time later (`Harden`) and to which a power loss goes back. That is less than the
documentation promises. `save` ends with the rename and does not sync the directory, so between `Commit` and
`Harden` a power loss brings back a number saved before, although `docs/persistence.md:64` says that after the
rename "the new score is securely stored" (section 5).

### InputDevice

Keys of three event nodes go down, repeat and come up at any time, while the
game polls, between the events it reads, and between frames. `poll_events` is cut at its
system calls: `BeginPoll` is `poll` with its two early returns, `Read` one `read` of the
first node left or the step to the next node; `Step` is the rest of
`step_frame`, in which the triggers are cleared, and the test for quit. Any of the nodes
may have failed to open. The kernel is modelled from what the code relies on: a
queue for each opened node, which is emptied when it runs over, with a
marker the code skips because it is not an `EV_KEY`. `Application` keeps
the part of this that outlives a frame (triggers pressed, quit) and takes any set of keys.

### DirtyRegions

Each public method that changes state is an action; the client may call them in any
order. `Merged` merges the first overlapping pair the two loops find and returns, as
the code does. `damage` remembers what was reported, with its margin.

## 3. The runs

| Run | Question | Result |
|---|---|---|
| `engine_small` | The engine's other properties on a small game, `Survival` included | passes, 49,056 states |
| `engine_real` | Collisions and the arc with the code's own numbers | passes, 289,925 states |
| `application` | Screen, record, triggers, signals, kills, relaunches, termination | passes, 121,492 states |
| `store` | Is `save` atomic, and is what a power loss leaves a number that was saved? | passes, 62,554 states |
| `store_faults` | Does a failed save keep the record? | violated |
| `input_device` | Does every press arrive once, and does ducking end? | passes, 616,253 states |
| `input_held` | Does a held duck key keep the player down? | violated |
| `dirty_regions` | Do the regions cover the damage, and tightly? | passes, 4,016 states |
| `launcher` | Are Kindle, devices and terminal given back, and when not? | passes, 222,488 states |
| `course` | Is there a way through every course below 700 points? | passes, 394,411 states |
| `course_fast` | And at 700 points? | violated |
| `display` | Is the picture in the framebuffer the game's, to the pixel? | passes, 6,664 states |

What the properties of the passing runs say:

- `PoseMatchesMotion`, `JumpIsBallistic`: whatever commands come during a
  flight, the pose fits the motion and the flight stays on the parabola of its
  jump.
- `ObstaclesSpaced`, `NeverFull`: the spacing the spawner enforces against the
  last obstacle holds between all of them at all times, and keeps the collection
  from filling, so the silent drop in `add` is dead code.
- `SurvivorsAreClear`, `NoTunnelling`: a frame without a crash ends clear of
  every obstacle, the new one included, and no obstacle jumps past the hitbox
  between two frames.
- `NightFollowsMilestones`, `ScrollAgrees`, `HighIsBest`: the palette has
  flipped once for every milestone of the run; points, leftover pixels, distance
  and ground agree; the high score never falls and only moves to the
  points just reached.
- `ImplementsSession`: `GameEngine` implements `GameSession`.
- `RunsAreCourses`, `PlayerIsSurvivor`: each run is a course, and the player who lives without godmode is one of
  those the course lets live.
- `PanelShowsFrame`: after a refresh, framebuffer and panel show the frame, but for
  the pixels of dropped updates, through crashes, relaunches and the picture the
  Kindle had left. A dropped update is made good by the next one over the
  same pixels.
- `CrashesAreCleared`: the frame of a crash always goes to the panel by a full refresh, although the
  coordinator knows only what the loop tells it.
- `SavedBeforeShown`, `RecordNeverFalls`: the record is on file before the game-over
  frame shows it, and the file never goes back.
- `NoGhostRestart`, `StopsWithinFrame`, `ComesToEnd`: triggers last one frame; a
  stop takes at most one more frame and does come.
- `NoStuckDuck`: with all events read and no duck key down the player stands,
  although several keys on several nodes share one flag and the last event read need not be
  the last that happened. States after the kernel has lost events are left out: a lost release does leave it
  ducking, until any duck key is used again, and nothing in the code prevents that.
- `PressIsSeen`, `JumpsArePresses`: what was pressed before a poll is seen in that
  frame, behind whatever else is queued, and no press makes two jumps.
- `DamageIsCovered`, `RegionsAreTight`: through merges and at capacity every box reported
  lies in a region, and every side of a region is the side of a box in it.
- `KindleIsRestored`: a script that comes to its own end (`end = "finished"`) leaves the framework running and
  the game's picture gone, also when commands and echoes fail or `INT` and `TERM` come
  within `cleanup`. It says nothing of the two other ends, which leave the Kindle as it is: a signal the script does not trap, and
  an echo that fails at the head of the last cleanup (section 5). `AloneUnlessDisturbed` is the limit of what the script achieves: a
  signal before the game is started brings the framework back too early.
- `SignalsAreOrderly`: no `INT` or `TERM` ends the game while it holds a device or leaves the
  terminal raw, in the middle of the construction too. `StopsWhenTold`: who was told to stop
  does, also when its script is gone, but for a `read` from a pipe that blocks; and a script whose game has ended ends.
- `Survivable`: at every speed below 700 points the gaps leave a way through. `CoursesSurvivable` proves it below 600 for all gaps
  and all changes of speed; the run adds speed 14, where jumps alone do not suffice, and its violation shows where it ends.
- `FramebufferShowsGame`: every pixel of the framebuffer is what the state asks for,
  over the edges, across the seam of the ground pattern, after restarts and over what the
  Kindle had left. `HudShowsScores`: both numbers can be read off the framebuffer; nothing is
  painted into them. `RestIsStill`: on the game-over screen nothing but wings moves.
- `SafeNeverFalls`, `ImplementsRegister`: what is on the flash never falls; the system
  calls change the number all at once, and a power loss leaves the last one that was written back, never anything else.

**Bounds.** `engine_small` shrinks the game but keeps the relations between the
code's numbers (the gap is wider than a sprite, the top speed is below the width of
a hitbox, the ground repeats at a multiple of a point's pixels, a jump takes several
frames, a frame brings no point, one or two). `MaxPoints = 14` passes two
milestones of 6 points, all speed steps and the pterodactyl score; at
`PixelLimit = 8` the distance wraps more than once. Capacity 4 is more than fit on the
screen at that gap, as 16 is on the real one. `engine_real` takes the code's numbers,
both ends of the range of gaps, no clouds, and stops at 80 points: two screens
of obstacles, all phases of a jump against every cactus; what it does not repeat from `engine_small` is
proved for all numbers. Pterodactyls appear in
`engine_small` and `course`. No frame of play is taken at `MaxPoints`, so play ends
there and deadlock is not checked for the engine. `application` uses a screen of two bytes (four
pixels), two pictures that differ in a pixel of each, a dark leftover
picture, one milestone per point, at most two points, no frame limit or a limit of
one. `store` has scores 0, 7 and 12 (so that a prefix of 12 is below 7) and five files:
two names in memory and two on the flash know at most four. Files are
interchangeable, which is the symmetry of `store`.

`input_device` allows five key events on three nodes with
a queue of two: enough for two keys on two nodes to go down and up again and for a
queue to run over twice; play and quitting both end, so deadlock is not checked.
`launcher` allows three signals: one in the script, one in the trap it causes, one in the
`cleanup` on exit; every one of six kinds and at every point, with every mode option and
both kinds of standard input.

`course` has the code's numbers and all seven levels below 700 points (speeds 8 to 14), and passes
from 200 to 300 points, where the pterodactyls come, and from 500 to 600. Its two gaps are the
tightest and the one after which the player starts afresh.
`display` has a screen of 12 by 19 pixels on which the parts stand to each other as on the real one, the bitmaps a few bits of
distinct patterns. Its states include a crash in the air, a crash at night next to
a pterodactyl, two obstacles of which one hangs over the left edge, a score of two digits,
ducking at night under the debug overlay, and a restart at night; godmode, which changes
nothing in the picture, and the overlay are chosen once. One gap and one height of clouds are
drawn; play ends at `MaxPoints` as in `engine_small`, so deadlock is not checked.
`dirty_regions` has the code's margin and capacity and seven boxes, one of them empty, that
overlap, bridge, touch, stick out or lie apart once they have their margin.

**Fairness.** `ComesToEnd` needs weak fairness of `Loop`, the
disjunction of the loop's own steps. The code has one thread that never blocks on
anything but a sleep of at most 80 ms (devices are opened non-blocking and polled
with a timeout of zero), so it takes its next step eventually. Nothing is
assumed of keys, signals, kills or launches. `StopsWhenTold` needs weak fairness of
`Shell` and of `Game`: the shell goes on when its foreground command is over, commands end,
and the process is scheduled. That the player quits and that a pipe
delivers are outside of `Game`.

## 4. What is proved

For every value of the constants that meets the modules' `ASSUME`s:

| Theorem | States |
|---|---|
| **`GameEngine_proofs`** | |
| `TypeCorrect` | `[]TypeOK` of the engine |
| `PoseCorrect` | `[]PoseMatchesMotion` |
| `JumpsAreParabolas` | `[]JumpIsBallistic`, for any jump speed and gravity |
| `SpacingKept` | `[]ObstaclesSpaced`, for any speeds, sprites and gaps |
| `HighScoreCorrect` | `HighIsBest` |
| `PruneKeepsSpacing` | what `prune_off_screen` returns, for every collection |
| `SessionImplemented` | `ImplementsSession`: the engine implements what `Application` is written over |
| `NightCorrect` | `[]NightFollowsMilestones` |
| `ScrollCorrect` | `[]ScrollAgrees`, across any number of overflows of the distance |
| `CollectionNeverFull` | `[]NeverFull` |
| `SurvivorsClear` | `[]SurvivorsAreClear` |
| `SurvivorsTouchNothing` | the same by pixels instead of edges: no pixel lies in both hitboxes |
| `NoneTunnels` | `NoTunnelling` |
| `RunsCorrect` | `RunsAreCourses`: every run of the engine is a course |
| `PlayerSurvives` | `[]PlayerIsSurvivor` |
| `CoursesSurvivable` | `[]Survivable` while the speed is one at which `JumpingSuffices`: in the code, below 600 points |
| `GamesAreFair` | the same of every run of the engine, up to and including the frame of a crash |
| **`Display_proofs`** | |
| `FramebufferCorrect` | `[]FramebufferShowsGame`, for any screen, bitmaps, texts and layout |
| `HudCorrect` | `[]HudShowsScores`, for any layout that keeps the rows of the score free |
| `RestStill` | `RestIsStill` |
| **`Application_proofs`** | |
| `TypeCorrect` | `[]TypeOK` of the application |
| `ScreenCorrect` | `[]PanelShowsFrame`, for a screen of any size and whatever the renderer paints in each frame |
| `CrashesCleared`, `NeverFrozen` | `[]CrashesAreCleared`; no state in which the coordinator would hold a frame back |
| `RecordSaved`, `RecordMonotone` | `[]SavedBeforeShown`, `RecordNeverFalls` |
| `RestartsAsked`, `StopsPromptly` | `NoGhostRestart`, `[]StopsWithinFrame` |
| **`HighScoreStore_proofs`** | |
| `StoreInvariant` | `[]TypeOK` of the store, and that flash, file and game are ordered |
| `SafeOnlyGrows` | `SafeNeverFalls` |
| `StoreImplementsRegister` | `ImplementsRegister`: a change all at once, permanent some time later |
| **`InputDevice_proofs`** | |
| `TypeCorrect` | `[]TypeOK`, for any nodes, keys and length of queue |
| `DuckEnds`, `PressSeen`, `JumpsPressed` | `[]NoStuckDuck`, `[]PressIsSeen`, `[]JumpsArePresses` |
| **`DirtyRegions_proofs`** | |
| `TypeCorrect`, `DamageCovered`, `RegionsTight` | `[]TypeOK`, `[]DamageIsCovered`, `[]RegionsAreTight`, for any boxes, margin and capacity |
| **`Launcher_proofs`** | |
| `TypeCorrect` | `[]TypeOK`, for any number of signals |
| `KindleRestored` | `[]KindleIsRestored`, of a script that comes to its own end |
| `SignalsOrderly`, `AloneUndisturbed` | `[]SignalsAreOrderly`, `[]AloneUnlessDisturbed` |

**What they assume.** Spacing and arc depend on nothing but the signs of the constants.
Two named assumptions of `GameEngine` say what else the code's numbers have to do with each
other. `PaceAssumption`: the points of one frame reach at most one milestone (in the code at
most 2 against 700), and the ground repeats after whole points (600 pixels of 10); the
palette and the scroll rest on it. `LayoutAssumption`: no hitbox is empty, the player's
and an obstacle's together are wider than a frame's movement, obstacles enter beyond the player,
and fewer gaps fit on the screen than the collection has places; `NoTunnelling`, `SurvivorsAreClear`
and `NeverFull` rest on that. TLC evaluates both for the code's own numbers in
`engine_real`. What the renderer's theorems need is in the `ASSUME`s of `Canvas`, `Renderer` and `Display`:
a mask has no bits beyond its width and height, the masks have the sizes of the game's
boxes, and the ground's pattern is as wide as the screen (600 both). `HudAssumption` of `Display`
says what keeps the score legible, in the code's numbers: ten digits of 10 by 13 pixels, no two
alike; a pitch of 11; the score 75 from the right edge of 600, the high score 95 before it and its digits 25 from
there, `HI` being 20 wide; rows 25 to 38 of 800; sprites from row 80 on, banner, button and hint from 240 on; a debug text that
ends at row 17; and a jump that does not reach up there, which is `(2 * JumpSpeed + Gravity)^2 <= 8 * Gravity * rise`, 2,209
against 10,416. `LevelAssumption` is that of `Survival` above. The store's theorems assume `~DiskFaults`, and `store_faults` shows that they
fail without it.

**The engine's invariant** (`IInv` in `GameEngine_proofs`) has one part per
component. `PoseMatchesMotion` is not inductive: that a player off the ground
is jumping says nothing of where the next frame takes it. The strengthening is that
the player either rests (on the ground line, velocity zero) or flies, strictly above
the line and on the parabola of its jump; within a frame there is a third
case, about to take off. `ApplyInputCommands` and `UpdatePlayerMoves` carry these
through commands and physics; the step along the parabola is the
only nonlinear arithmetic, and `ParabolaStep` isolates it. Spacing is
inductive once all pairs, and not only neighbours, are compared. Moving left by the same
speed keeps the differences; `RoomForObstacle` bounds the last obstacle and so all
of them (`AddKeepsSpacing`); pruning is a recursive function, and since induction
cannot be cited as a theorem here, `PruneKeepsSpacing` argues by the least
index at which it would fail (`LeastNumber`).

**The session, pace and collisions.** `SessionImplemented` maps each way a frame can end to
a step of `GameSession`: a frame of play is its `Play` with 0 to `MaxGain` points, a crash its
`EndRun`, a restart its `StartRun`, and a frame on the game-over screen stutters. For the pace, the distance is `PaceInv`'s third part: what points and leftover pixels make
up differs from it by whole rounds of 32 bits, however many there were. `NeverFull` multiplies
spacing out: the obstacle `k` places from the first is `k` gaps to the right of it and
still on the screen (`OnScreenInv`), so there are fewer than the capacity. No tunnelling is
plain arithmetic on two hitboxes; what makes it true of the code is that the speed a frame uses is bounded
by `MaxSpeed` whatever the score, and that standing up and ducking down do not move the player sideways.
`IntersectsIsContact` shows that the test of edges in `geometry.cpp` is the test for a common pixel.

**The course.** `Course` is an instance of the operators the engine extends, so the two are first shown to be the same
(`SameMovement` to `SamePace`). `LevelDecides` is the reason why a course may forget the score between two full
steps: no multiple of a step lies between a score and its last full step (`SameSide`), so speed and kinds are those of
the score; `LevelReached`, from the bound on a frame's points that the session needs too, that no level is
skipped. For the player, the leg is forgotten: commands, physics and collisions commute with setting it to zero (`LeglessMoves`,
`LeglessCollides`), so the frame that takes the player to where it does not collide takes its legless image
to a survivor. `IInv` supplies the types, `PlayerIsSurvivor` itself is inductive on top.

**The way through.** That somebody is alive is far from inductive: the invariant has to say who, and what the obstacles look like around
it. `WayThrough` says that either a player rests on the ground and every obstacle is past or more than a take-off away (`Free`), or one
is `n` frames into its jump (`InFlight`, velocity and height as functions of `n`) over an obstacle that is where
`n` frames can have brought it (`Leapt`), all others being past or a gap behind. `WaitGoesOn` is the frame on the ground: nothing is near and
nobody moves, or one obstacle is, all others being past or a gap behind it, and the player takes off. `LeapGoesOn` is the frame in the air: the criterion keeps
the hitboxes apart, and the frame that lands finds everything past or far away again. `SpawnKeepsWay` and `LevelKeepsWay` add the obstacle that
enters and the level that is reached. `CourseInv` supplies the spacing, and that only kinds the score allows are on the
screen, which bounds from below how fast they came. Since the speed only grows within a run, the proof needs nothing about earlier frames:
a frame at most at speed `top` comes after frames that were.

**The display.** Painting first: no two pixels share an index of the buffer (`IndexIsUnique`), and
a coordinate off the screen sets nothing, hence a bitmap, an outline, the line and the bumps mark
just the pixels the reference reading says (`BitmapMarks` to `BumpMarks`, together `InkMarks`).
For the bumps this is arithmetic on three remainders, of the offset, the left edge and the column,
and needs the pattern to be as wide as the screen. Then the frame: `DisplayInv` says that once the
first full refresh is acknowledged, framebuffer and canvas both hold the frame last painted. A step keeps it because
what is presented is either the whole screen or the damage on top of the previous frame
(`PresentCompletes`, which `Application_proofs` cites as well), whatever the Kindle left there before the first.
For `RestStill` the reference is read at both ends of the step: the engine stutters, so the two sets of bitmaps differ
in masks that depend on the tick alone, those of pterodactyls (`WingsOnly`).

**The score on the screen.** `HudShowsScores` reads pixels and says numbers, and three things can come between. Something else could
be painted there: `HudIsFree` goes through everything `Ink` collects and finds it below the score or above it. The dinosaur is
the one that moves; how high it can come follows from the parabola of its jump, which `IInv` holds
(`RiseIsBounded`, by completing the square), so the invariant of the engine is needed to show what the renderer
does. Places could run into each other: digits at a pitch of their width at least do not (`DigitsAreBeside`), and the three
groups fit beside each other (`HudPlaces`). And the pixels could be read as another digit: two masks of one size and the
same bits are the same (`BitsAreRead`), hence, as the digits differ, one at most fits (`DigitIsUnique`). What is
left is that five digits cut out by division make the number again modulo 100,000 (`FiveDigitsMake`).

**The application's invariant** has a part for each property. `PanelShowsFrame` speaks of one
point in the loop. What carries it there is that outside of `lost` the panel is the framebuffer and the
framebuffer is the back canvas (`Faithful`), or a full refresh is due, which repairs everything:
a process begins with one, because it knows nothing of what its predecessor left. `DamageCovers` (in `Screen_proofs`)
shows that the bounding box of the differing pixels holds each of them, and `PackedCovers` that
rounding it out to byte boundaries keeps it on the screen. `WaveformInv` holds what the coordinator has been told: never a milestone, and a game over
by the time its frame is due. `TriggerInv` ties a waiting trigger to the keys of
this frame's poll, `RecordInv` the file to the engine, `StopInv` the late frame to the place in the loop after
which the order to stop is looked at.

**The input device's invariant** follows a press through the kernel. A duck key is `Kept` at a place in
a queue if it is down or its release waits behind that place; every press in a queue is
(`PressInv`), and so is one of them when the flag is set (`DuckInv`): the flag alone would not
be inductive, as reading the release of one key clears it whatever the others do. `SeenInv` says that a due press
has set its trigger or waits in a node still to be read. `JumpInv` counts: jumps made, requested and
waiting never exceed presses; a queue that runs over only loses some of them.

**The regions.** `Fits` says that every box reported is in a region and that
each side of a region is a side of a box it encloses. Merging two regions keeps both
(`TightMerged`), and so does putting the last region into the hole, since it is only a change of order. That the
loops find *some* pair whenever two regions overlap needs the least of a set of pairs
(`FirstPairIs`).

**The launcher's invariant** is about the stack of traps. A body of `cleanup` that is past a
command has its effect in place, or an interruption spoiled it, and then a signal still waits or a
body above it has that command still before it (`StillToCome`): whichever `cleanup` is last, nothing
undoes it. Once the shell has finished by itself there is no such body left, and the effect is in place. `ProcessInv` says what the process owns by where it is in `main`: the guard is there as long
as a device is.

**The store's invariant** says, besides the types: the temporary file is never one
a load could read, in memory or on the flash (`Apart`); a file a load could read is
the same in both (`Settled`); how far the save has come (`SaveProgress`), in
particular that the temporary file holds the score on the flash before the
rename; and that flash, memory and engine are in order (`Ordered`). `StepEffect`
lists what a step can do to the two numbers of the register; from it the two
theorems follow.

## 5. Where code and documentation part

`PROJECT.json` quotes each with its line. Shown by a run: a failed write replaces the record; of two duck keys either stands the player
up; at 700 points, with speed 15, some courses cannot be survived, because the gap does not grow with the
speed (in the trace eleven cacti and low pterodactyls, each after the smallest gap). Read off the code: milestones neither freeze nor flash and restarts are not cleared, since
nothing calls `notify_milestone` and `notify_restart`; the distance overflows at 3,276
points; the script's traps do not exit, so that a signal early on starts the game
beside the framework; signals they leave out (`HUP`, `QUIT`, `KILL`, `PIPE`) end the script without cleanup, and so does, under `set -e`, an
echo that fails at the head of the last cleanup, though `README.md:241` guarantees the restoration; `save` does not sync the directory, so that
a power loss after the rename may still cost the score the documentation calls securely stored; no refresh on exit; a save and a full refresh in every frame of the
game-over screen; only R restarts; two page keys swapped and no Backspace;
unchanged frames refresh the whole screen; no padded damage; regions neither
merged to the end nor clamped and aligned; night outlives a restart; gap, speed
and physics differ from `docs/game-mechanics.md`; other directories and another name for the score
file; a font of digits in which every letter is an A; keys, characters and file names of the
fallback devices.

## 6. Only model-checked

- `ComesToEnd` and `StopsWhenTold`: liveness under fairness, which the provers do not reach.
- `Survivable` at speed 14, between 600 and 699 points: there `JumpingSuffices` does not hold and the search is the argument, with the
  smallest and the largest gap. Below, `CoursesSurvivable` covers all gaps. `RunsCorrect` carries what the search finds over to
  the engine.
- That the code's numbers meet the assumptions and `JumpingSuffices`: TLC evaluates them.
- `FailedSaveKeepsRecord`, `DuckWhileHeld` and `Survivable` at 700 points are false; the runs show it.

## 7. Not modelled, and why

- `fallback_devices`: which key gives which command, the terminal and image outputs, and the
  mocks of the tests. Raw mode and the blocking read are in `Launcher`.
- `application_options`: parsing. What it results in is chosen at the start: the mode in `Launcher`,
  the frame limit in `Application`, godmode in `GameEngine`, the overlay in `Display`.
- `storage_path`: a function of the environment, evaluated once, before the loop.
- `monotonic_clock`, `debug_log`: time decides how long the loop sleeps, nothing else.
- `sprite_data`, `ui_sprites`: the bits of the bitmaps. `Renderer` holds for any.
- Failures the code does not handle and no property could hold under: a `dd` or `framework start` that fails without being
  interrupted, and what becomes of the Kindle after a signal the script does not trap.
- The sequence of the random generator, the height of a cloud, `pack_frame`, `get_pixel` (the
  terminal output and tests only) and `inject_obstacle_for_testing`.

## 8. What could come next

Every invariant and action property that a passing run checks is also a theorem, `Survivable` under the criterion of `FairGaps`. Two ways
on from there: a finer criterion for speed 14, which would use that gaps are whole frames of movement and that a player can also
duck; and the gap of the documentation, 20 frames of movement (`docs/game-mechanics.md:75`), of which one would like to show
that it is fair at every speed. Beyond that: the option parsing and the output of the fallback devices, which section 7 leaves out.
