------------------------------ MODULE LcdDisplay ------------------------------
(***************************************************************************)
(* beatbox/hal/src/lcdDisplay.c after LcdDisplay_init, and its two users:  *)
(* main, which hands it fresh figures once a second (displayManager.c),    *)
(* and the joystick thread (inputHandler.c), which asks every 10 ms, and   *)
(* not during a refresh of its own, whether the button has been pressed    *)
(* since, and shows the next screen.  Each ends in LcdDisplay_refresh,     *)
(* which clears the one frame buffer, draws the current screen into it and *)
(* sends it to the panel; no lock is held, so two refreshes may share the  *)
(* buffer.  A buffer or a panel is the set of screens drawn on it.         *)
(***************************************************************************)
EXTENDS Integers

CONSTANTS
    LCD_SCREEN_COUNT,   \* 3 in the code: status, audio and accel timing
    MaxPresses          \* bound: presses of the button

LcdAssumption == LCD_SCREEN_COUNT \in Nat \ {0} /\ MaxPresses \in Nat

Screens == 0 .. LCD_SCREEN_COUNT - 1
Users == {"main", "joystick"}

VARIABLES
    currentScreen,
    frameBuffer,    \* screens drawn in the buffer since it was cleared last
    panel,          \* screens to be seen on the LCD
    update,         \* main: the screen whose figures it brings next
    place,          \* per user: "idle", "next" before currentScreen is set,
                    \* then "clear", "switch", "draw" and "send" in refresh
    seen,           \* per user: the currentScreen it read
    buttonPressed,      \* joystick.c: between a falling and a rising edge
    lastButtonState,    \* inputHandler.c: what the last round found
    presses,
    switches            \* history: calls of LcdDisplay_nextScreen

button == <<buttonPressed, lastButtonState, presses, switches>>
vars == <<currentScreen, frameBuffer, panel, update, place, seen, button>>

TypeOK ==
    /\ currentScreen \in Screens /\ seen \in [Users -> Screens] /\ update \in Screens
    /\ frameBuffer \subseteq Screens /\ panel \subseteq Screens
    /\ place \in [Users -> {"idle", "next", "clear", "switch", "draw", "send"}]
    /\ buttonPressed \in BOOLEAN /\ lastButtonState \in BOOLEAN
    /\ presses \in 0 .. MaxPresses /\ switches \in Nat

\* LcdDisplay_init ends with a first status screen.
Init ==
    /\ currentScreen = 0 /\ frameBuffer = {0} /\ panel = {0}
    /\ update = 0 /\ place = [u \in Users |-> "idle"]
    /\ seen = [u \in Users |-> 0]
    /\ buttonPressed = FALSE /\ lastButtonState = FALSE
    /\ presses = 0 /\ switches = 0

Go(u, p) == place' = [place EXCEPT ![u] = p]

------------------------------------------------------------------------------
BugShown(s) == s = 0 /\ currentScreen = 0
                                        \* mutant: refreshes the status only

\* "Only refresh if we're on the screen".
Shown(s) == currentScreen = s

\* LcdDisplay_updateStatus, _updateAudioTiming and _updateAccelTiming, in turn.
Update ==
    /\ place["main"] = "idle"
    /\ Go("main", IF Shown(update) THEN "clear" ELSE "idle")
    /\ update' = (update + 1) % LCD_SCREEN_COUNT
    /\ UNCHANGED <<currentScreen, frameBuffer, panel, seen, button>>

\* buttonSamplingThread has read an edge of the line; a contact that bounces
\* makes several.
Edge(level) ==
    /\ buttonPressed # level
    /\ level => presses < MaxPresses
    /\ buttonPressed' = level
    /\ presses' = IF level THEN presses + 1 ELSE presses
    /\ UNCHANGED <<currentScreen, frameBuffer, panel, update, place, seen,
                   lastButtonState, switches>>

BugRemember == UNCHANGED lastButtonState
                                        \* mutant: the last round is forgotten

Remember == lastButtonState' = buttonPressed

\* A round of joystick_thread_function: "on button press, not release".
RoundIdle ==
    /\ place["joystick"] = "idle" /\ (buttonPressed => lastButtonState)
    /\ Remember
    /\ UNCHANGED <<currentScreen, frameBuffer, panel, update, place, seen,
                   buttonPressed, presses, switches>>

\* LcdDisplay_nextScreen: read currentScreen, ...
NextScreen ==
    /\ place["joystick"] = "idle" /\ buttonPressed /\ ~lastButtonState
    /\ Remember
    /\ seen' = [seen EXCEPT !["joystick"] = currentScreen]
    /\ switches' = switches + 1
    /\ Go("joystick", "next")
    /\ UNCHANGED <<currentScreen, frameBuffer, panel, update, buttonPressed, presses>>

Successor(s) == (s + 1) % LCD_SCREEN_COUNT

\* ... store its successor, and refresh.
SetScreen ==
    /\ place["joystick"] = "next"
    /\ currentScreen' = Successor(seen["joystick"])
    /\ Go("joystick", "clear")
    /\ UNCHANGED <<frameBuffer, panel, update, seen, button>>

\* LcdDisplay_refresh: Paint_NewImage and Paint_Clear, ...
Clear(u) ==
    /\ place[u] = "clear"
    /\ frameBuffer' = {}
    /\ Go(u, "switch")
    /\ UNCHANGED <<currentScreen, panel, update, seen, button>>

\* ... the switch on currentScreen as it is now, ...
Switch(u) ==
    /\ place[u] = "switch"
    /\ seen' = [seen EXCEPT ![u] = currentScreen]
    /\ Go(u, "draw")
    /\ UNCHANGED <<currentScreen, frameBuffer, panel, update, button>>

\* ... the render function it chose, which takes a while, ...
Draw(u) ==
    /\ place[u] = "draw"
    /\ frameBuffer' = frameBuffer \cup {seen[u]}
    /\ Go(u, "send")
    /\ UNCHANGED <<currentScreen, panel, update, seen, button>>

\* ... and LCD_1IN54_Display.
Send(u) ==
    /\ place[u] = "send"
    /\ panel' = frameBuffer
    /\ Go(u, "idle")
    /\ UNCHANGED <<currentScreen, frameBuffer, update, seen, button>>

Refresh(u) == Clear(u) \/ Switch(u) \/ Draw(u) \/ Send(u)

MainStep == Update \/ Refresh("main")
JoystickStep == RoundIdle \/ NextScreen \/ SetScreen \/ Refresh("joystick")

Next == MainStep \/ JoystickStep \/ \E level \in BOOLEAN : Edge(level)

Spec == Init /\ [][Next]_vars

\* main comes round every second, and the joystick thread is scheduled.
FairSpec == Spec /\ WF_vars(MainStep) /\ WF_vars(JoystickStep)

------------------------------------------------------------------------------
\* "Render the appropriate screen based on current screen type"
\* (lcdDisplay.c:252).  Two refreshes at once may leave two screens in one
\* picture, or an old one; but such a picture does not stay: once the button is
\* left alone main's next round repairs it, whichever screen is current.
PictureIsRepaired == <>[](panel = {currentScreen})

\* A press shows one new screen at most, however long it is held and however
\* its edges fall between two rounds of a thread that a refresh holds up.
OneScreenPerPress == switches <= presses
==============================================================================
