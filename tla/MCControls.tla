----------------------------- MODULE MCControls -----------------------------
(***************************************************************************)
(* What the user of the beatbox controls, for TLC: the volume, the mode    *)
(* and the screen.  The three share no state; in a behaviour one of them   *)
(* moves, under the fairness of its own module, and the others stay as     *)
(* they were started, so that what is checked of each is what a run of its *)
(* own would check.                                                        *)
(***************************************************************************)
EXTENDS VolumeInput, ModeSync

CONSTANTS LCD_SCREEN_COUNT, MaxPresses

VARIABLES
    mover,
    currentScreen, frameBuffer, panel, update, place, drawn, buttonPressed,
        lastButtonState, presses, switches

Lcd == INSTANCE LcdDisplay WITH seen <- drawn

ASSUME ControlsAssumption == Lcd!LcdAssumption

screenVars == <<currentScreen, frameBuffer, panel, update, place, drawn,
                buttonPressed, lastButtonState, presses, switches>>
controls == <<mover, vars, modeVars, screenVars>>

Init3 == Init /\ ModeInit /\ Lcd!Init /\ mover \in {"volume", "mode", "screen"}

Volume(A) == mover = "volume" /\ A /\ UNCHANGED <<mover, modeVars, screenVars>>
Mode(A) == mover = "mode" /\ A /\ UNCHANGED <<mover, vars, screenVars>>
Screen(A) == mover = "screen" /\ A /\ UNCHANGED <<mover, vars, modeVars>>

Next3 == Volume(Next) \/ Mode(ModeNext) \/ Screen(Lcd!Next)

\* The threads of the part that moves are scheduled.
ControlsSpec ==
    /\ Init3 /\ [][Next3]_controls
    /\ WF_controls(Volume(JoystickStep)) /\ WF_controls(Volume(SetVolume("udp")))
    /\ WF_controls(Volume(Sampled))
    /\ WF_controls(Mode(MainStep)) /\ WF_controls(Mode(ButtonStep))
    /\ WF_controls(Mode(UdpReply))
    /\ WF_controls(Screen(Lcd!MainStep)) /\ WF_controls(Screen(Lcd!JoystickStep))

\* main.c, buttonStateMachine.c, udpServer.c: the two modes become equal once
\* the users are quiet.
ModesMeet == mover = "mode" => ModesConverge

\* lcdDisplay.c: in the end the picture is that of the current screen, whatever
\* two refreshes at once have drawn.
PictureIsRepaired == Lcd!PictureIsRepaired
==============================================================================
