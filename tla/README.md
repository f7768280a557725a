# TLA+ models of the CMPT 433 programs

The repository holds four programs for a BeagleY-AI board, a web page and a
firmware. The largest program, `beatbox/`, is a drum machine with ten threads,
shared variables with and without locks, a UDP server and a shutdown that has to
stop all of it; a node server relays a web page to it. `ass2/` samples a light
sensor in one thread, moves and prints in another, and answers UDP commands in a
third. `linux_neopixel/` is a game with a button, an accelerometer and LEDs in
shared memory. This project models these three and the way from the web page to
the drum machine, model-checks the models with TLC and proves part of the results
with TLAPS.

Paths are relative to `src/`. `PROJECT.json` has the map from every definition to
the lines it stands for, the mutants and the hazards.

## The system

| Component | State it keeps | Operations | Modelled in |
|---|---|---|---|
| Audio mixer (`beatbox/hal/src/audioMixer.c`) | 30 slots `soundBites`, `audioMutex`, `stopping`, `playbackBuffer`, `volume` | `queueSound` (any thread), `playbackThread` (fill one period, write it to ALSA), `setVolume`/`getVolume`, `init`, `cleanup` | `AudioMixer`, `VoicePool`, `VolumeInput` |
| main (`beatbox/app/src/main.c`) | `isRunning`, `lastEncoderMode` | startup in a fixed order, a 50 ms loop, signal handler, cleanup in a fixed order | `BeatBox`, `ModeSync`, `TempoSync` |
| Beat player (`beatPlayer.c`) | `currentMode`, `currentBPM`, `isPlaying` | `beatThread`, get/set mode and tempo | `ModeSync`, `TempoSync`; life in `BeatBox` |
| Rotary encoder and its button (`rotaryEncoder.c`, `buttonStateMachine.c`) | `currentBPM`, `currentBeatMode`, last levels, debounce times | rotation thread, button thread, get/set | `RotaryEncoder`, `ModeSync`, `TempoSync` |
| UDP server (`beatbox/app/src/udpServer.c`) | `isRunning`, `socketFd`, `shouldStopApplication` | listener thread, `processCommand`, `cleanup` with a wake-up datagram | `UdpServer`; commands in `ModeSync`, `TempoSync`, `VolumeInput` |
| Web page and relay (`beatbox/beatbox-server-copy/`) | browser: the values shown, one timer; node: a socket and a timer per request | polls, clicks, answers, errors | `WebRelay` |
| Joystick (`inputHandler.c`, `joystick.c`) | last direction, hold counter, cooldown | 10 ms thread that changes the volume or the screen; two sampling threads, one with a debounce | `Joystick`, `VolumeInput`, `LcdDisplay`; lives in `BeatBox` |
| Period timer (`periodTimer.c`) | per event: time stamps since the last report, last stamp reported | `markEvent`, `getStatisticsAndClear` | `PeriodTimer` |
| Terminal and LCD (`terminalDisplay.c`, `displayManager.c`, `lcdDisplay.c`) | `isShuttingDown`; `currentScreen`, one frame buffer | a report per second on each | `BeatBox`, `PeriodTimer`, `LcdDisplay` |
| Accelerometer (`app/src/accelerometer.c`, `hal/src/accelerometer.c`) | current and previous sample, time of the last drum | sampling thread, `AccelerometerApp_process` in main | `AccelTrigger` |
| GPIO (`beatbox/hal/src/gpio.c`) | three open chips | lines, unbounded waits, assertions | `BeatBox` |
| Light sampler (`ass2/hal/src/sampler.c`, `terminal_display.c`, `udp_server.c`, `main.c`) | samples of the current and the previous second, their average; last command; a stop flag per thread | a sample a millisecond, the move and the line once a second, commands, startup and end | `LightSampler` |
| Knob and LED (`ass2/hal/src/rotary_encoder.c`, `pwm_led.c`) | state machine, last direction; frequency, PWM | encoder thread, report to main, writes to the PWM | `FlashControl` |
| Target game (`linux_neopixel/`) | target, hits and misses, animation; flags of three threads; the LEDs in shared memory | startup, 20 ms loop, firing button with state machine and debounce, two signal handlers, cleanup | `TargetGame` |

How they interact: in the beatbox the beat thread, main (accelerometer) and the
UDP thread queue sounds; the playback thread takes the same mutex to mix them and
marks an audio event. Mode and tempo exist twice, in the encoder and in the beat
player, and main copies one to the other in every iteration from values it has
read a moment before. The volume has two writers, joystick and UDP. Two threads
take and clear the same statistics. Two threads draw into one frame buffer. Stop
requests travel through three flags (`isRunning`, `shouldStopApplication`,
`isShuttingDown`) and one flag per thread. The web page polls through node, which
opens a UDP socket for each request and answers with an error after a second; the
datagrams between node and the listener may be lost, late or in another order. In
`ass2` three threads share the sampler's buffers under one mutex, and main and two
threads look at the server's stop flag. In the target game the button's thread and
main share one flag, and SIGINT changes hands during the startup.

What is hard here: check-then-act on unlocked variables, threads that block
without a time limit and are then joined, resources freed in a hand-written order,
answers that come after their error, the limits of the slot table, of the time
stamps and of 16 bits, edges read line by line. `PROJECT.json` lists each such
place under `hazards` with the properties that watch it.

## Modules

Each module opens with what it leaves out. State variables have the names of the
source; variables marked *history* exist for the properties only.

* **VoicePool** states what the mixer promises: a pool of voices; a request takes
  any idle voice from its first sample or is refused when all are busy; all busy
  voices advance a block at a time and become idle at their end.
* **AudioMixer** is the code: lock, linear search slot by slot, unlock; the
  playback thread's test, lock, mixing slot by slot, unlock, blocking write (which
  may fail and exit the process); `cleanup` with flag, join and free. It implements
  VoicePool (`ImplementsVoicePool`): a sound counts as started when its slot is
  written, and all voices move at the moment the playback thread takes the lock, so
  a slot it has not visited yet counts as advanced. Samples are not modelled; a
  sound is its length. **MCAudioMixer** has the two sounds TLC uses.
* **BeatBox** is the life of the process. Each init and cleanup function is a short
  sequence of effects under its own name (set or clear a flag, spawn or join a
  thread, open or close a resource); `Startup` and `Cleanup` put them in main's
  order, and one step of main performs one effect. `StartupFails` is the `exit` of an
  init function that misses a chip, the sound card, a wave file or the button's line.
  The accelerometer, the LCD and the encoder's lines may be missing without an exit;
  the rotation thread then returns before its loop (`Blind`).
  Each thread is its loop test, what it waits for, and what it uses in between.
  `failed` records a failed assertion; without `assert()` the model goes on, so that
  every behaviour of either build is covered.
* **ModeSync**: button, UDP command and main loop on the two copies of the mode,
  with every unlocked read and write a step of its own and the button's debounce.
* **TempoSync**: the same for the tempo, where the command writes both copies, from
  the moment the server is up and before encoder and player have their defaults.
* **Joystick**: the sampling thread of `joystick.c`: read, direction, debounce. A
  failed I2C read returns 0, which is the direction up, and is an action of its own;
  a bus that failed more often in a row than the debounce repeats would move the
  volume, so the number in a row is bounded by it.
* **VolumeInput** extends Joystick: the volume half of the joystick thread (cooldown,
  hold counter, repeat), and `AudioMixer_setVolume` in its three unlocked steps:
  store the cache, read it back, set the hardware.
* **LcdDisplay**: screens, updates, and a refresh as clear, switch, draw, send; in
  front of it the joystick's button, whose level one thread keeps and another
  compares with that of its last round. The button is not debounced, so a bounce is a
  press.
* **PeriodTimer**: the time stamp arrays and their statistics; calls hold a lock
  from end to end and are single steps.
* **RotaryEncoder**: the knob's quadrature, one kernel queue per line, and the
  decoder that reads the CLK edge before the DT edge. The knob can always be turned;
  an edge that finds its queue full is dropped, and the line is `lost` until its next
  edge is kept. A read that fails leaves the edge to the next wait.
* **AccelTrigger**: one axis; low and high byte are read apart and either read may
  fail (a byte of 0), differences are kept in an `int16_t`.
* **FlashControl**: the other program's knob, whose edges run through a table of
  states, the direction main fetches, and the PWM with what it refuses. Its queues
  and reads are those of RotaryEncoder.
* **MCControls** puts VolumeInput, ModeSync and LcdDisplay, which share nothing,
  into one run: `mover` is chosen at the start and only that part moves, under its
  own fairness.
* **MCDevices** does the same with the four modules above, TempoSync and
  LcdDisplay. What is checked and proved of each part is what a run of its own would
  check.
* **UdpServer**: the socket from `socket()` to `close()`, the listener in and out of
  `recvfrom`, datagrams in the kernel's buffer, and the cleanup; its clients are any
  clients.
* **WebRelay** extends UdpServer with particular clients: the page (polls once a
  second, clicks, one timer for all commands, the variable its buttons reckon with)
  and node (a socket, a timer and a request per command). Answers overtake each
  other, come after the error, or get lost; node may die. The volume stands for the
  values polled. A behaviour of WebRelay is one of UdpServer (proved).
* **LightSampler**: the sampler, the display thread that moves the second, the
  server with its datagrams, and main; only the life of the encoder's thread is here.
* **TargetGame**: main from its startup, any component of which may fail, through
  loop and cleanup; both signal handlers; the three threads; the firing button from
  the finger to the flag main looks at; hits, misses, targets and LEDs. The finger
  presses and lets go (`Finger`), the contact bounces off and back after either
  (`Bounce`) until it rests (`Settle`), and each of its edges goes to the kernel's
  queue or is dropped. The rising edges of one such move are one *chance* to fire;
  the thread that reads one of them when the debounce time since another has passed
  has made a *slip*. The button is taken to be one whose contact rests before the
  debounce time is over and before the finger moves again.
  **MCTargetGame** has the targets and directions TLC uses.

## Runs

| Run | Bounds, and why they are enough | What it shows |
|---|---|---|
| `mixer` | 2 clients, 2 slots, block of 2, sounds of 1 and 3 samples: full and partly full table, a sound shorter than a block, one that ends inside its second block; two clients compete with the player for the lock | offsets stay inside sounds and on block boundaries; a sound is dropped only by a full table; the buffer is freed after the player; VoicePool is implemented; every sound ends, every call and the cleanup return |
| `lifecycle` | all threads but the accelerometer's, which uses nothing of what the others do; one signal, at any moment | nothing is used before it is opened or after it is closed; workers stay while the program runs; assertions can fail only after a stop request; a stop reaches every thread main joins before the beat thread |
| `lifecycle_assert` (violation) | all ten threads | `Period_cleanup` by the display thread (`terminalDisplay.c:61`) makes `assert(s_initialized)` (`periodTimer.c:47`) fail in the playback thread |
| `lifecycle_cleanup` (violation) | five threads | `beatThread` has no exit (`beatPlayer.c:142`) and is joined (`beatPlayer.c:79`): cleanup does not end, against `main.c:13` |
| `controls` | one of the three moves. Volume: 0..3, steps of 2 and 1, delay and cooldown of 4 ticks, rate 2, a UDP command that may fall into any call; small, but both limits clip, and a hold outlasts the cooldown; a direction is stable after 2 repetitions, 2 reads in a row may fail. Mode: 4 requests, so that a race of three can precede a spaced one. Screen: 3 screens as in the code, 4 presses: more than once around | failed reads are never reported as a direction; presses a full cooldown apart; a held stick reaches the limit; cache and hardware agree after a call that overlapped no other; the copies of the mode converge; a request made when the main loop is settled (three iterations, about 150 ms, after the last) survives, whatever raced before; the picture is right again after the last press |
| `devices` | tempo: 3 requests, a range of 1..6 with values at, on and outside the limits. Period timer: two events, two reporters, room for 2 stamps, time up to 7: full arrays, empty reports, alternating reporters. Both encoders: two edges of each line waiting, so that the thread is behind by more than a detent's half, and further ones dropped. Accelerometer: five bits, one in the low byte, readings of both signs, near and far. LED: 0 to 6 Hz, which includes off and the limit. Screens: as in `controls` | the last tempo asked for plays after one iteration of main; every event is in one report and the periods join; a prompt thread never mistakes the direction, a late one recovers, failed reads or not; a drum means a movement and a movement plays its drum; the LED has the frequency that is kept; a press shows one screen at most |
| `web` | two requests of node under way and a buffer of two, so that answers overtake each other and a wake-up meets a full buffer; one click, one lost datagram, two volumes | the wake-up is never executed as `stop` and wakes the listener wherever it is; the page shows only volumes there were and ends up with the present one; a dead listener or node is reported again and again |
| `game` | one press of a button that may be held already, and one bounce; a kernel queue of one edge, which overflows: a press that fires as it closes and as it opens, a slip, a lost edge and two hits in a row occur; two targets, and of every band but one above or below a direction | a move of the contact fires once at most, a press twice at most; a target gives way only to a hit; the LEDs show the way; nothing is used closed; the game ends when asked to |
| `game_bounce` (violation) | two presses, one bounce | a press that bounces as it closes and is held fires twice: the debounce (`firing_input.c:55`) runs from the last release that fired, against the comment at `firing_input.c:53` |
| `game_sigint` (violation) | one press | Ctrl+C in the loop leaves the LEDs lit: `lcd_display_impl.c:42` takes SIGINT from main and exits |
| `light` | three samples to a second, four taken: one in excess; two numbers to a datagram, so a second takes two; three voltages: above, between and below the two thresholds | every sample is in its second; dips are separate; a client gets one whole second; a stop ends the program |
| `light_rearm` (violation) | four samples at 0, 0.03 and 0.10 V, the thresholds of the code | a second dip is counted after a rise of 0.03 V (`sampler.c:309`), not of the 0.07 V of the comment at `sampler.c:40` |

All runs check for deadlock; where a component ends its module has an explicit
stuttering action (`Terminated`, `Ended`, `Returned`). Each property is accompanied
in its module by a `Bug...` operator, a plausible mistake in the code that makes it
fail; no specification uses these. The type invariants of the modules in `mixer`,
`controls`, `web`, `game`, `lifecycle` and `light` are proved for all values
of the constants and so not checked again on small ones.

### What the properties had to leave room for

Some statements hold only with a condition, and the condition is what a reader of
the code should know. In the beatbox:

* `WorkersStayWhileRunning` excepts the listener: `UdpServer_init` sets `isRunning`
  after `pthread_create` (`udpServer.c:77-84`), so the thread may return at once. It
  excepts the rotation thread when CLK or DT could not be opened: `RotaryEncoder_init`
  prints an error and goes on (`rotaryEncoder.c:189-192`), the thread returns at once
  (`62-72`), and the knob is dead in a program that runs on.
* `StopReachesThreads` needs a user at the controls: the gpiod waits of the encoder
  and of both button threads have no time limit (`UserFair`).
* Entries of `Cleanup` after the join of the beat thread are never reached; that
  the drum sounds would be freed while the playback thread still reads them
  (`main.c:181`) does not show in `NothingUsedClosed` for this reason alone.
* `LatestRequestWins` is about requests that leave the main loop time: of two
  requests closer together the later one may lose.
* `CacheIsHardware`: two overlapping calls of `setVolume` may leave cache and
  hardware apart until the next call. The limits of the joystick look at the cache.
* `PauseAfterPress` says nothing on how long the stick was held *in its present
  direction*: flipping it during the cooldown neither counts nor resets
  `holdCounter` (`inputHandler.c:67`, `108`), so the new direction may begin to
  repeat without a delay of its own.
* `HoldReachesTheLimit` for a stick held down asks for a bus that works: a read that
  fails for ever looks like a stick that is held up.
* `OneScreenPerPress` is an upper bound: a press that begins and ends while the
  thread draws, which takes long, is lost.
* `PictureIsRepaired` is eventual: two refreshes at once can leave two screens in
  one picture for up to a second.
* `EncoderFollowsKnob` excepts edges read by a thread that was behind, which may
  count backwards; it catches up once it has read all edges. A line whose last edge
  the kernel has dropped is remembered with the wrong level until its next edge, and
  the other line may be counted in the wrong direction so long. A failed read
  (`rotaryEncoder.c:96-99`) only delays its edge.
* `DrumsFollowMovement` excepts a comparison with a failed read or a first sample,
  and ends at half the range: beyond it the `int16_t` difference is negative
  (`app/src/accelerometer.c:46`).
* `DisplayCatchesUp` and `DeathIsReported` say nothing of a page whose answers are
  lost for ever. A request whose answer is lost leaves its socket open in node
  (`Abandon`): the code closes it only with an answer.

In the other programs:

* `ReportNeedsTurn` excepts reports of a machine that was late since it last
  rested: the lines are read A before B, so that a turn counter-clockwise can be
  taken for one clockwise.
* `LedFollowsFrequency` takes a write to fail only where the driver refuses the value:
  one that fails for another reason prints an error and is lost (`pwm_led.c:28-39`).
  With the order the code writes in, the driver refuses nothing.
* `DipsAreSeparate` follows the code: the light is back at `DIP_THRESHOLD -
  HYSTERESIS` below the average, a rise of 0.03 V. The comment at `sampler.c:40` asks
  for a rise of 0.07 V; `RisesBetweenDips` states that, and `light_rearm` violates it.
* `HistoryArrivesWhole`: before the first second is over a client that asks for the
  history gets no datagram at all. The newline `send_history` would send after the
  last full line is never reached, and an empty line repeats the last command of
  *any* client.
* `ScoreIsEarned` counts moves of the contact. One press is two of them, and may fire
  at both: a bounce as the contact closes has a rising edge, which the state machine
  takes for a release, and the debounce it starts is over when a held button is let
  go (`game_bounce`). A thread that is late may read two edges of one move more than
  250 ms apart, since it takes the time when it reads; each such slip allows one more.
  The bounds are upper ones: presses during the debounce or with lost edges do not
  count. A second shot at a target that is being shown as
  hit scores the same target again, since the new one comes with the end of the
  animation (`target_game.c:406-412`).
* `LedsPointTheWay` says which half of the strip is lit, not how far the target is:
  the pattern close above is that of the third band, centred on LED 2
  (`target_game.c:238`), where the comment above it (`234`) has LED 3, and exactly at the first threshold nothing is lit.
* `NothingUsedClosed` of the game speaks of main's way out; the LCD's SIGINT handler
  frees the frame buffer in the middle of whatever main does and exits.

### Fairness

Weak fairness of every thread: they are ordinary POSIX threads, each runs when it
can. Locks get strong fairness in `AudioMixer`: critical sections are bounded, and a
thread that leaves one blocks or sleeps outside of it before it comes back. Nothing
obliges a user, a client or a failing device; the exception, `UserFair` in
`BeatBox`, is named and explained above. In `WebSpec` the page polls (its interval
timer), timers fire, and a socket that holds a datagram is read; `socket()` and the
wake-up's `sendto()` on the loopback interface are taken to succeed. The threads of
the target game and the encoder of `ass2` wait 100 ms at the most, so their rounds
are fair without a user.

## Proofs

The theorems hold for every value of the constants that satisfies the module's
named ASSUME (positive block size and lengths, non-empty tempo range, a hold delay
not shorter than the cooldown, ordered thresholds, and so on). Every invariant and
every step property that a passing run checks is stated by one of them, and so is
the refinement of VoicePool; the runs found out cheaply whether they hold, and what
they check on small instances stays the place where the mutants of the code fail.

* **BeatBoxProofs**. What main does is read off the tables `Startup` and `Cleanup`.
  A first group of lemmas lists them entry by entry; a second states what their order
  is good for: a worker is spawned after its flag is set and after what it needs is
  open, a component is closed after its users have been joined. `LifeInv` says what
  that comes to at every step: the startup's doing stands (`StartupKeeps`), flags are
  up until the cleanup (`FlagsUp`), a started worker stays (`WorkersStay`), whoever has
  been joined is gone (`JoinedAreGone`), a live thread has what it needs
  (`UsersHaveTheirs`; the rotation thread's lines may be missing, but it comes after
  the attempt to open them, `LinesFirst`, and then does not get beyond its first test),
  and the period timer outlives the program's running (`PeriodReady`: only the display
  thread, on its way out, takes it away). Hence
  `BeatBoxUsesNothingClosed`, `BeatBoxWorkersStay` and `BeatBoxAbortsOnlyAtShutdown`,
  for any set of workers. The first has the hypothesis that the beat thread is one of
  them, as it is in the program, and needs it: the cleanup frees the drum sounds
  before it ends the playback thread, and what keeps it from getting there is the join
  of the beat thread that never ends. With that thread left out, TLC finds
  `NothingUsedClosed` violated. `BeatBoxStopsAtTheBeatThread` states the other side:
  no behaviour gets past that join, which `lifecycle_cleanup` shows of one.
* **AudioMixerProofs**. None of the mixer's invariants is inductive alone. `IInv`
  adds who is in the critical section (`LockInv`: exactly the owner of the mutex),
  what a scanning client knows (`ScanInv`: all slots it has passed are taken), where
  the player is (`FillInv`) and what cleanup knows (`CleanupInv`). From it follow
  `MixerTypeOK`, `MixerSlotsInBounds`, `MixerDropsOnlyWhenFull` and
  `MixerBufferOutlivesPlayer`, and `MixerImplementsVoicePool`, the refinement: the
  initial states map to initial ones and every step to a step or a stutter of the
  pool. Two lemmas on block boundaries carry the arithmetic.
* **VolumeInputProofs**. `CooldownCovers` (remaining cooldown plus ticks since the
  press are at least a cooldown) and `HoldIsYounger` (the hold counter cannot be
  ahead of the ticks since the press) give `PressIsFollowedByPause`; `CallAlone`
  (without overlap one call at most is between store and end, and hands over what
  the cache holds) gives `CacheFollowsHardware`. `FailuresCounted` (while every read
  counted has failed, there are fewer repetitions than failures) gives
  `ReportsAreGenuine`.
* **DevicesProofs**. Tempo: `IterationIsFresh` (an iteration that began after the last
  request carries the encoder's value) gives `OneIterationSettlesTempo`. The LED's
  invariant is its property with the types that refused requests preserve. Both knobs
  rest on the same idea: a thread that is in time has either read everything or all
  but the last edge, and in both cases what it remembers is where the knob is or was
  one edge ago (`OneEdgeWaits`, `OneEdgeBehind`). For the beatbox's knob,
  `LevelsArrive` holds however late the thread is, of every line that is not lost (the
  last edge waiting on it has the line's level), which is why it recovers. For the other, `MachineFollows`
  says of each state of the machine which turn the knob has made since the machine
  rested. `AccelInv` says that a sample is an `int16_t` and less than a low byte's range
  away from the reading behind it, whichever of its two bytes is the older one
  (`Near`); `JoinedIsClose` and `WrapFits` carry the two's complement. `PeriodInv`
  relates what is stored of an event to what was ever marked; `EveryReportAddsUp` and
  the step property `ZeroMeansFirst` follow, the latter because the stamps grow
  strictly. `OneScreenPerPress` is not inductive: `PressesCover` adds that a press no
  round has seen yet has not been used up.
* **ModeSyncProofs**. Each of the three iterations after a request establishes
  something: `CopiesAreFresh` after one, equal modes after two, the remembered mode
  after three (`Converges`). A request that finds the loop there starts from
  `NothingMoved`, and from then on `RequestSpreads`: every variable holds the new
  mode or the one from before, and no copy of the old one can win any more. Hence
  `SettledRequestWins`.
* **UdpServerProofs**. `FlagFirst` (the flag falls before the wake-up is sent) and
  `NoneWaiting` give `WakeUpNeverStops`. `RelayImplementsServer` shows WebRelay to be
  an implementation of UdpServer, so that `WakeUpNeverStopsWeb` needs no proof of its
  own. For `PageShowsRealVolumes`, `WebInv` says where a request can be: on its way,
  in the listener's hand or answered, and in one of these at most (`OnePlace`), so
  that the next user of a socket never hears the answer to the last one, and what
  waits in a socket answers what was asked through it (`AnswersFit`).
* **LightSamplerProofs**. `SecondsInv` names the last move and the one before it, and
  says that the buffers hold the samples after each, as far as there is room;
  `LightSecondsAreWhole` follows, since these are the moves the property chooses
  (`Cuts`). The work is in two lemmas on sequences that grow: `AppendAtMost` and
  `AppendSubSeq`. `HistoryInv` follows a second on its way to a client: the copy is a
  `WholeSecond`, what has been received is its beginning, and a second that has ended
  stays what it was (`WholeStays`); `PacketFits` counts the characters of a datagram.
  `DipsCounted` shows what the loop of `analyzeDips` computes for all samples.
* **TargetGameProofs**. For `GameUsesNothingClosed`, `OpenInv` says at which places
  of main a thread may be running (`Alive`) and what is open there, whichever
  component failed. For `GameScoreIsEarned`, the edges waiting carry the
  chances they belong to, which grow along the queue and are not below the last one
  taken (`ChancesInOrder`). The shots fired are covered by the last chance taken and
  the slips, with one to spare when an edge of that chance still waits and the debounce
  no longer keeps it from firing (`ShotsCovered`). `ChancesFromPresses` relates
  the chances to the presses: at most two each, one of which is still to come while the
  button is held. `HitsCover` adds that a hit on display has its new target still to
  come. For `GameLedsPointTheWay`, `BandSign` says on which side of the first threshold
  a band lies and `ShapeSide` which half of the strip its pattern brightens; `WayInv`
  says that the strip is dark during the startup and, outside an animation, agrees
  with the reading drawn last and the present target.

*Loops.* The induction theorems of the library cannot be used, but two of the
results are about loops over data: the sum of the periods and the count of the
dips. Their models are recursive functions with a closed form. The proof first shows
that the closed form satisfies the defining equation, so that the chosen function
satisfies it, too, and then that two solutions cannot differ: a least place where
they do would follow one where they do not (`LeastElement`, `CountUp`, from the
well-foundedness of the natural numbers).

*What the proofs changed.* Two assumptions were too weak. `DipsAreSeparate` needs
`HYSTERESIS` above 0: with 0, a sample exactly at the threshold is low and ends the
wait for the light at once, so that the next low sample counts as another dip; the
code has 0.03 V (`sampler.c:40`). Half the accelerometer's range has to be a
multiple of the low byte's (`AccelAssumption`; 65536 and 256 in the code), or a high
byte joined to another reading's low byte may cross the sign. The sum of the periods is
written as the loop that computes it, since the fold of the community modules it was
written with is beyond the provers.

Model-checked only: liveness under fairness (`EverySoundEnds`, `EveryCallReturns`,
both `CleanupReturns`, `StopReachesThreads`, `ModesMeet`, `HoldReachesTheLimit`,
`PictureIsRepaired`, `DisplayCatchesUp`, `DeathIsReported`, `StopEndsGame`,
`StopEndsProgram`) and anything with ENABLED (freedom from deadlock included), which
the prover does not handle.

## Plan

Done: the beatbox with its web page, `ass2` and the target game, each with its
startup and end; the two refinements; theorems for all safety and step properties.
Left:

1. An event counter as the abstract specification of `PeriodTimer`, and a single
   shared mode that `ModeSync` implements once requests are spaced, each with its
   proof of refinement.
2. The safety part behind the liveness properties: bounds on how many steps a stop
   request, a held stick or a full mixer takes, which need no fairness.
3. Beat patterns of `beatThread` and whether the beat alone can fill the slots; the
   arithmetic of mixing and clipping, which depends on the order of the slots.

## Not modelled, and why

`ass1`, the reaction timer, is one thread that blocks on reads of the joystick and
writes LED files; nothing interleaves. The NeoPixel firmware (`neopixel/`) shifts a
table of its own out to the LEDs by timed instructions; the version in the
repository does not read the shared memory the game writes. Vendored drivers
(`lcd`, `lgpio`), node modules and wave files are not these programs' own; they are
most of the repository's lines.

Within the programs: sample values and clipping, the step patterns of the beats and
their sleeps, the contents of wave files, console text and the layout of screens;
the period timer of `ass2`, an earlier copy of the beatbox's (its main and its
terminal display clear the same statistics, too); the frames of the game's
animations; the length of real time intervals (debounce and cooldown in time are
events that may happen at any moment, or ticks of the thread that counts them), and
with it the debounce of the drums by `clock()`, which counts the processor time of
all threads. The joystick thread computes a new volume from one it read before a
command may have changed it (`inputHandler.c:77`); VolumeInput has that step, but no
property can rule out the lost command. `Joystick_stopSampling` joins a button
thread that was never created when its line could not be opened (`joystick.c:276`);
`BeatBox` assumes that joystick's line.
