------------------------------- MODULE Capture -------------------------------
(***************************************************************************)
(* One microphone and the three apps that open it: hold to talk (talk.c    *)
(* over the gesture of talk_core.c) as agent and notes use it, the         *)
(* recording of meeting, and audio_service, which takes one capture at a   *)
(* time and does not know whose it is; and settings, whose factory reset   *)
(* stops it, whoever's it is.  Apps come and go as AppLife has it *)
(* (the shell implements AppLife, module Shell), and their hooks run in    *)
(* the same step.                                                          *)
(*                                                                         *)
(* A frame of nev_ui takes its time once; it handles events, ticks the app *)
(* in front, and then LVGL reports at most one touch.  A press or release  *)
(* reads the clock for itself, `late' milliseconds after the frame did.    *)
(* Stamps are kept as ages against the time of the frame, so an age may be *)
(* negative until the next frame; Elapsed is what unsigned 32-bit          *)
(* subtraction makes of it.                                                *)
(***************************************************************************)
EXTENDS Integers, Sequences, SequencesExt

CONSTANTS
  Apps, TalkApps, \* registered apps; those that hold to talk
  KindOf,         \* [TalkApps -> {"note", "question"}]: what each captures
  NoApp,
  Room,           \* NEV_SHELL_MAX_LIVE
  Arm, MinSpeech, MaxHold, \* arm_ms, min_speech_ms, max_ms of nev_ptt_defaults
  Frame,          \* milliseconds from one frame to the next
  Wrap,           \* 2^32
  MaxTurn         \* bound: questions asked

ASSUME CaptureAssumption ==
  /\ "agent" \in TalkApps /\ {"meeting", "settings"} \subseteq Apps \ TalkApps
  /\ TalkApps \subseteq Apps /\ NoApp \notin Apps
  /\ KindOf \in [TalkApps -> {"note", "question"}]
  /\ Arm \in Nat \ {0} /\ MinSpeech \in Nat /\ MaxHold \in Nat
  /\ MinSpeech < MaxHold /\ Arm < MaxHold /\ Wrap \in Nat /\ MaxHold + 1 < Wrap
  /\ Room \in Nat \ {0} /\ Frame \in Nat \ {0} /\ MaxTurn \in Nat

VARIABLES
  front, warm, \* the app in front and those behind it, as in AppLife
  phase,       \* where nev_ui is in its frame
  talk,        \* talk.c: ptt is s_ptt.state, age its stamp, owner s_cb
  mic,         \* the kind of the capture that runs (s_kind), or "off"
  pending,     \* what was said of the captures still to be transcribed
  agent,       \* agent_app.c: turn, waiting, and the turns shown as the reply
  answering    \* turns whose AGENT_DONE is still to come

device == <<talk, mic, pending>>
replies == <<agent, answering>>
vars == <<front, warm, phase, device, replies>>

Life == INSTANCE AppLife WITH Nobody <- NoApp

Shut == [ptt |-> "idle", age |-> 0, owner |-> NoApp]
NoAnswer == [turn |-> 0, waiting |-> FALSE, shown |-> {}]

Init ==
  /\ front = NoApp /\ warm = <<>>
  /\ phase = "drawn"
  /\ talk = Shut
  /\ mic = "off"
  /\ pending = {}
  /\ agent = NoAnswer
  /\ answering = {}

Live == {front} \cup {warm[i] : i \in 1..Len(warm)}
Late == {0, 1}
Elapsed(age) == age % Wrap

-----------------------------------------------------------------------------
(* audio_service, and act of talk.c.  `said' is what the user is told of   *)
(* the capture; the daemon gets its audio, and transcribes it, either way. *)

\* audio_service_stop: nothing to do when no capture runs.
Close(said) ==
  /\ mic' = "off"
  /\ pending' = IF mic = "off" THEN pending ELSE pending \cup {said}

\* audio_service_start fails when a capture runs, whoever started it, or when
\* the board's microphone does not open.
Starts == mic = "off"

Keep == UNCHANGED <<mic, pending>>

\* Mutant: a microphone that is taken is cancelled the way a talk is.
OpenStops ==
  \/ /\ Starts
     /\ mic' = KindOf[talk.owner]
     /\ talk' = [talk EXCEPT !.ptt = "talking", !.age = 0]
     /\ UNCHANGED pending
  \/ /\ talk' = [talk EXCEPT !.ptt = "idle"]
     /\ Close("discarded")

Open ==
  \/ /\ Starts
     /\ mic' = KindOf[talk.owner]
     /\ talk' = [talk EXCEPT !.ptt = "talking", !.age = 0]
     /\ UNCHANGED pending
  \/ /\ talk' = [talk EXCEPT !.ptt = "idle"]
     /\ Keep

Idle == talk' = [talk EXCEPT !.ptt = "idle"]

\* A repeat while the gesture is under way is not a new gesture.
Press(late) ==
  /\ talk' = IF talk.ptt = "idle" THEN [talk EXCEPT !.ptt = "arming", !.age = -late] ELSE talk
  /\ Keep

Release(late) ==
  /\ Idle
  /\ IF talk.ptt = "talking"
     THEN Close(IF Elapsed(talk.age + late) < MinSpeech THEN "discarded" ELSE "sent")
     ELSE Keep

\* nev_ptt_cancel, and the capture it stops.
Cancel ==
  /\ Idle
  /\ IF talk.ptt = "talking" THEN Close("discarded") ELSE Keep

\* Mutant: the ceiling is one frame too high.
TalkTickOver ==
  CASE talk.ptt = "arming" /\ Elapsed(talk.age) >= Arm -> Open
    [] talk.ptt = "talking" /\ Elapsed(talk.age) > MaxHold -> Idle /\ Close("discarded")
    [] OTHER -> UNCHANGED device

TalkTick ==
  CASE talk.ptt = "arming" /\ Elapsed(talk.age) >= Arm -> Open
    [] talk.ptt = "talking" /\ Elapsed(talk.age) >= MaxHold -> Idle /\ Close("discarded")
    [] OTHER -> UNCHANGED device

-----------------------------------------------------------------------------
(* The hooks of the apps.                                                  *)

\* Mutant: the app that closes stays the one called back.
CloseHookKeeps(a) ==
  IF a \in TalkApps /\ talk.owner # NoApp THEN Cancel ELSE UNCHANGED device

\* Mutant: the gesture ends and the microphone stays open.
CloseHookOpen(a) ==
  IF a \in TalkApps /\ talk.owner # NoApp
  THEN talk' = [talk EXCEPT !.ptt = "idle", !.owner = NoApp] /\ Keep
  ELSE UNCHANGED device

\* nev_talk_detach, whichever of the two apps calls it: both share one gesture.
CloseHook(a) ==
  IF a \in TalkApps /\ talk.owner # NoApp
  THEN /\ talk' = [talk EXCEPT !.ptt = "idle", !.owner = NoApp]
       /\ IF talk.ptt = "talking" THEN Close("discarded") ELSE Keep
  ELSE UNCHANGED device

\* Mutant: every app that opens attaches.
LaunchHookAny(a, gone) == talk' = [Shut EXCEPT !.owner = a] /\ Keep

\* nev_talk_attach takes the gesture over as it is: an app that closes to make
\* room has stopped its capture before, one that is merely behind has not.
LaunchHook(a, gone) ==
  IF a \in TalkApps
  THEN /\ talk' = [Shut EXCEPT !.owner = a]
       /\ IF gone \in TalkApps /\ talk.owner # NoApp /\ talk.ptt = "talking"
          THEN Close("discarded") ELSE Keep
  ELSE CloseHook(gone)

\* agent_launch and agent_close both forget that an answer was awaited.
AgentHook(gone, opened) ==
  agent' = [agent EXCEPT !.waiting = IF "agent" \in {gone, opened} THEN FALSE ELSE @,
                         !.shown = IF opened = "agent" THEN {} ELSE @]

\* A tile of the grid: an app that is behind comes back with no hook called.
Return(a) ==
  /\ phase = "drawn" /\ front = NoApp
  /\ Life!Return(a)
  /\ phase' = "rest"
  /\ UNCHANGED <<device, replies>>

\* Or it is launched; the least recently used app goes first when room is short.
Launch(a) ==
  /\ phase = "drawn" /\ front = NoApp
  /\ Life!Open(a) /\ front' = a
  /\ LET gone == IF Len(warm) < Room THEN NoApp ELSE Head(warm)
     IN  /\ LaunchHook(a, gone)
         /\ AgentHook(gone, a)
  /\ phase' = "rest"
  /\ UNCHANGED answering

\* Button B among the events, a swipe or a tap among the touches.
GoHome ==
  /\ phase \in {"events", "drawn"} /\ front # NoApp
  /\ Life!Home
  /\ phase' = IF phase = "drawn" THEN "rest" ELSE phase
  /\ UNCHANGED <<device, replies>>

MemPressure ==
  /\ phase = "events"
  /\ Life!Reclaim
  /\ CloseHook(Head(warm))
  /\ AgentHook(Head(warm), NoApp)
  /\ UNCHANGED <<phase, answering>>

-----------------------------------------------------------------------------
(* What the app in front does with an event.                               *)

Event == phase = "events" /\ UNCHANGED <<front, warm, phase>>

\* Button A, through nev_talk_event: nobody hears it before an app attached.
ButtonDown == /\ Event /\ front \in TalkApps /\ talk.owner # NoApp
              /\ \E late \in Late : Press(late)
              /\ UNCHANGED replies

ButtonUp == /\ Event /\ front \in TalkApps /\ talk.owner # NoApp
            /\ \E late \in Late : Release(late)
            /\ UNCHANGED replies

\* nev_talk_stop; the agent no longer waits.  Meeting goes on recording.
Disconnected ==
  /\ Event
  /\ front \in TalkApps
  /\ IF talk.owner # NoApp THEN Cancel ELSE UNCHANGED device
  /\ agent' = IF front = "agent" THEN [agent EXCEPT !.waiting = FALSE] ELSE agent
  /\ UNCHANGED answering

\* ask: one question at a time; nev_bridge_ask may refuse it, link down or full.
Ask ==
  IF agent.waiting THEN UNCHANGED replies
  ELSE /\ agent.turn < MaxTurn
       /\ \E sent \in BOOLEAN :
            /\ agent' = [turn |-> agent.turn + 1, waiting |-> sent, shown |-> {}]
            /\ answering' = IF sent THEN answering \cup {agent.turn + 1} ELSE answering

\* A transcript comes back, with or without words in it.  Notes lists it,
\* meeting shows it, and the agent asks it, whatever it is the transcript of.
TranscriptFinal(said) ==
  /\ Event
  /\ pending' = pending \ {said}
  /\ UNCHANGED <<talk, mic>>
  /\ \/ front = "agent" /\ Ask
     \/ UNCHANGED replies

\* Mutant: the turn of a token is not looked at.
AppendTokenAny(t) == agent' = [agent EXCEPT !.shown = @ \cup {t}]

\* append_token: a reply to a question already replaced is dropped.
AppendToken(t) ==
  agent' = IF t = agent.turn THEN [agent EXCEPT !.shown = @ \cup {t}] ELSE agent

AgentToken(t) ==
  /\ Event /\ front = "agent"
  /\ AppendToken(t)
  /\ UNCHANGED <<device, answering>>

\* AGENT_DONE is lost on an agent that is not in front.
AgentDone(t) ==
  /\ Event
  /\ answering' = answering \ {t}
  /\ agent' = IF front = "agent" /\ t = agent.turn
              THEN [agent EXCEPT !.waiting = FALSE] ELSE agent
  /\ UNCHANGED device

-----------------------------------------------------------------------------
(* Time and touches.                                                       *)

\* The next frame; an age no rule tells apart any more stays where it is.
NextFrame ==
  /\ phase \in {"drawn", "rest"}
  /\ phase' = "events"
  /\ talk' = [talk EXCEPT !.age = IF talk.ptt = "idle" THEN 0
                                  ELSE IF @ + Frame > MaxHold THEN MaxHold ELSE @ + Frame]
  /\ UNCHANGED <<front, warm, mic, pending, replies>>

\* The shell ticks the app in front and nobody else.
AppTick ==
  /\ phase = "events"
  /\ IF front \in TalkApps /\ talk.owner # NoApp THEN TalkTick ELSE UNCHANGED device
  /\ phase' = "drawn"
  /\ UNCHANGED <<front, warm, replies>>

Touch == phase = "drawn" /\ phase' = "rest" /\ UNCHANGED <<front, warm>>

\* hold_cb of the button on the screen does not ask whether an app is attached.
HoldPressed == /\ Touch /\ front \in TalkApps
               /\ \E late \in Late : Press(late)
               /\ UNCHANGED replies

\* RELEASED, or PRESS_LOST when the finger or the screen went away.
HoldReleased == /\ Touch /\ Live \cap TalkApps # {}
                /\ \E late \in Late : Release(late)
                /\ UNCHANGED replies

RecordClicked ==
  /\ Touch /\ front = "meeting"
  /\ IF mic # "off" THEN Close("sent")
     ELSE mic' \in {"off", "transcript"} /\ UNCHANGED pending
  /\ UNCHANGED <<talk, replies>>

PromptClicked ==
  /\ Touch /\ front = "agent"
  /\ Ask
  /\ UNCHANGED device

\* factory_reset_confirmed, from the modal over settings: whatever records is
\* stopped, the pairing is forgotten and the store erased; the shell goes home if
\* that worked.  The gesture of talk.c is not asked.
FactoryReset ==
  /\ phase = "drawn" /\ front = "settings"
  /\ Close("sent")
  /\ Life!Home \/ UNCHANGED <<front, warm>>
  /\ phase' = "rest"
  /\ UNCHANGED <<talk, replies>>

\* Power lost or the process ended: nothing of this is kept.
Reboot ==
  /\ front # NoApp
  /\ front' = NoApp /\ warm' = <<>>
  /\ phase' = "drawn"
  /\ talk' = Shut /\ mic' = "off" /\ pending' = {}
  /\ agent' = NoAnswer /\ answering' = {}

Next ==
  \/ \E a \in Apps : Return(a) \/ Launch(a)
  \/ GoHome
  \/ MemPressure
  \/ ButtonDown \/ ButtonUp
  \/ Disconnected
  \/ \E said \in pending : TranscriptFinal(said)
  \/ \E t \in answering : AgentToken(t) \/ AgentDone(t)
  \/ NextFrame
  \/ AppTick
  \/ HoldPressed \/ HoldReleased
  \/ RecordClicked
  \/ PromptClicked
  \/ FactoryReset
  \/ Reboot

Spec == Init /\ [][Next]_vars

-----------------------------------------------------------------------------
(* Properties.                                                             *)

\* The type invariant of the variables declared here.
TypeOK ==
  /\ front \in Apps \cup {NoApp} /\ warm \in Seq(Apps)
  /\ phase \in {"events", "drawn", "rest"}
  /\ talk \in [ptt : {"idle", "arming", "talking"}, age : -1..MaxHold,
               owner : TalkApps \cup {NoApp}]
  /\ mic \in {"off", "note", "question", "transcript"}
  /\ pending \subseteq {"sent", "discarded"}
  /\ agent \in [turn : 0..MaxTurn, waiting : BOOLEAN, shown : SUBSET (1..MaxTurn)]
  /\ answering \subseteq 1..MaxTurn

\* talk.c calls back into the app that attached last.  Apps are closed for room,
\* under memory pressure and out of the order they attached in, and the widgets
\* the callback paints go with them: the owner is never an app already closed.
OwnerIsLive == talk.owner = NoApp \/ talk.owner \in Live

\* The microphone a held button opened stays the button's: no step leaves the
\* capture running and the gesture over, except the launch of a talk app over
\* it, which nev_talk_attach does without asking (listed in the README).
Held == mic \in {"note", "question"} /\ talk.ptt = "talking"
Orphans == Held /\ mic' = mic /\ talk'.ptt # "talking"
OnlyALaunchOrphans == [][Orphans => \E a \in TalkApps : Launch(a)]_vars

\* meeting_close: a recording survives whatever the user does in other apps.
\* Unless a gesture believes that it talks, only Stop in meeting itself ends it,
\* or the factory reset of settings; a hold that finds the microphone taken leaves
\* it running, and so do all who come, go and are reclaimed.
MeetingEndsByHand ==
  [][mic = "transcript" /\ mic' # "transcript"
     => RecordClicked \/ FactoryReset \/ Reboot \/ talk.ptt = "talking"]_vars

\* A button that is held too long does not keep the microphone open: in an app
\* in front no talk is past max_ms once the frame's tick is done.
CeilingInFront ==
  phase = "drawn" /\ front \in TalkApps /\ talk.owner # NoApp /\ talk.ptt = "talking"
  => talk.age < MaxHold

\* Whatever replies are still on their way, to questions asked before the app was
\* closed or before the link broke, one reply never holds words of two.
OneReplyAtATime == agent.shown \subseteq {agent.turn}

=============================================================================
