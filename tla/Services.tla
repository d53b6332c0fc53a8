------------------------------- MODULE Services -------------------------------
(***************************************************************************)
(* Fifteen parts that share no state with one another, for any values of   *)
(* their parameters: the input and power policy, Wi-Fi, firmware updates,  *)
(* the cues, the face, the focus timer, the game engine and the games of   *)
(* the device; speech on its way to the daemon; the answers that the       *)
(* daemon sends, and the records that it keeps.  Side by side they would   *)
(* say no more than each alone, so a behaviour is one of one part, the     *)
(* subject; the variables of the others stay Unused.                       *)
(***************************************************************************)
EXTENDS Integers, Sequences

CONSTANT Unused
VARIABLE subject

CONSTANTS Buttons, Timeouts, Debounce
VARIABLES power, touch, btn, stage, heard
Power == INSTANCE Power WITH core <- power

CONSTANTS Networks, MaxDoubling
VARIABLES saved, editing, notice, net, last, radio, shown, address
Wifi == INSTANCE Wifi WITH core <- net

CONSTANTS Offers, Current, Partition, ImageBytes, NoOffer
VARIABLES offers, ota, told
Ota == INSTANCE Ota WITH Bytes <- ImageBytes, ring <- offers, core <- ota

CONSTANTS Slice, Totals, Room
VARIABLES cue, pending, taken, hole
Sound == INSTANCE Sound WITH heard <- taken

CONSTANTS GameStep, FrameTimes, FrameWrap, MaxSteps, MaxScore
VARIABLES game, frame, highscore, start, beats, lost
Game == INSTANCE Game WITH
  Step <- GameStep, Frames <- FrameTimes, Wrap <- FrameWrap, g <- game, saved <- highscore

CONSTANTS Conns, RingDepth, MaxUtterance, MaxQueued, MaxSession, MaxSeq
VARIABLES mic, ring, link, conn, tasks, capturing, unended
Stream == INSTANCE Stream WITH Depth <- RingDepth

CONSTANT RecordIds
VARIABLES audio, record, saving, deleting, purge, deleted, raced, failed
Records == INSTANCE Records WITH Ids <- RecordIds

CONSTANTS MaxTurn, MaxPieces, MaxParts, MaxHistory
VARIABLES live, stream, events, task, out, talk
Replies == INSTANCE Replies

CONSTANTS MsWrap, MaxFrame, Holds, Hints
VARIABLES clock, face, zero
Persona == INSTANCE Persona WITH Wrap <- MsWrap, now <- clock, core <- face

CONSTANTS Second, Preset
VARIABLES ticks, timer, ran
Focus == INSTANCE Focus WITH Wrap <- MsWrap, now <- ticks

CONSTANTS Grid, StartLen, MaxLen, TurnQueue
VARIABLES body, dir, turns, food, wrap, snakeState
Snake == INSTANCE Snake WITH Queue <- TurnQueue, queue <- turns, state <- snakeState

CONSTANTS Rows, Cols, Colours, Run
VARIABLES tile, selected, resolving, matchState, gaveUp
Match == INSTANCE Match WITH state <- matchState

CONSTANTS Coyote, Buffer
VARIABLES player, runnerState, jumps
Runner == INSTANCE Runner WITH state <- runnerState

CONSTANTS Bricks, Upper, Lives, MostLives, MaxDrops, MaxLevel
VARIABLES wall, brick, drops, wallState
Breakout == INSTANCE Breakout WITH c <- wall, state <- wallState

CONSTANTS Rounds, Delays, Feedback, Floor, Ceiling
VARIABLES trial, result, points, seen
Reflex == INSTANCE Reflex WITH core <- trial, score <- points, shown <- seen

powerVars == <<power, touch, btn, stage, heard>>
wifiVars == <<saved, editing, notice, net, last, radio, shown, address>>
otaVars == <<offers, ota, told>>
soundVars == <<cue, pending, taken, hole>>
gameVars == <<game, frame, highscore, start, beats, lost>>
streamVars == <<mic, ring, link, conn, tasks, capturing, unended>>
recordsVars == <<audio, record, saving, deleting, purge, deleted, raced, failed>>
repliesVars == <<live, stream, events, task, out, talk>>
personaVars == <<clock, face, zero>>
focusVars == <<ticks, timer, ran>>
snakeVars == <<body, dir, turns, food, wrap, snakeState>>
matchVars == <<tile, selected, resolving, matchState, gaveUp>>
runnerVars == <<player, runnerState, jumps>>
breakoutVars == <<wall, brick, drops, wallState>>
reflexVars == <<trial, result, points, seen>>

vars == <<subject, powerVars, wifiVars, otaVars, soundVars, gameVars, streamVars,
          recordsVars, repliesVars, personaVars, focusVars, snakeVars, matchVars,
          runnerVars, breakoutVars, reflexVars>>

\* The parts' parameters are such as each of them says.
ASSUME ServicesAssumption ==
  /\ Power!Parameters /\ Ota!Parameters /\ Sound!Parameters /\ Game!Parameters
  /\ Stream!Parameters /\ Replies!Parameters /\ MaxDoubling \in Nat
  /\ Persona!Parameters /\ Focus!Parameters /\ Snake!Parameters /\ Runner!Parameters
  /\ Breakout!Parameters /\ Reflex!Parameters

Parts == {"power", "wifi", "ota", "sound", "game", "stream", "records", "replies",
          "persona", "focus", "snake", "match", "runner", "breakout", "reflex"}

\* The subject begins; nothing else does.
Begins ==
  /\ IF subject = "power" THEN Power!Init ELSE
       /\ power = Unused /\ touch = Unused /\ btn = Unused /\ stage = Unused
       /\ heard = Unused
  /\ IF subject = "wifi" THEN Wifi!Init ELSE
       /\ saved = Unused /\ editing = Unused /\ notice = Unused /\ net = Unused
       /\ last = Unused /\ radio = Unused /\ shown = Unused /\ address = Unused
  /\ IF subject = "ota" THEN Ota!Init ELSE
       /\ offers = Unused /\ ota = Unused /\ told = Unused
  /\ IF subject = "sound" THEN Sound!Init ELSE
       /\ cue = Unused /\ pending = Unused /\ taken = Unused /\ hole = Unused
  /\ IF subject = "game" THEN Game!Init ELSE
       /\ game = Unused /\ frame = Unused /\ highscore = Unused /\ start = Unused
       /\ beats = Unused /\ lost = Unused
  /\ IF subject = "stream" THEN Stream!Init ELSE
       /\ mic = Unused /\ ring = Unused /\ link = Unused /\ conn = Unused /\ tasks = Unused
       /\ capturing = Unused /\ unended = Unused
  /\ IF subject = "records" THEN Records!Init ELSE
       /\ audio = Unused /\ record = Unused /\ saving = Unused /\ deleting = Unused
       /\ purge = Unused /\ deleted = Unused /\ raced = Unused /\ failed = Unused
  /\ IF subject = "replies" THEN Replies!Init ELSE
       /\ live = Unused /\ stream = Unused /\ events = Unused /\ task = Unused
       /\ out = Unused /\ talk = Unused
  /\ IF subject = "persona" THEN Persona!Init ELSE
       /\ clock = Unused /\ face = Unused /\ zero = Unused
  /\ IF subject = "focus" THEN Focus!Init ELSE
       /\ ticks = Unused /\ timer = Unused /\ ran = Unused
  /\ IF subject = "snake" THEN Snake!Init ELSE
       /\ body = Unused /\ dir = Unused /\ turns = Unused /\ food = Unused /\ wrap = Unused
       /\ snakeState = Unused
  /\ IF subject = "match" THEN Match!Init ELSE
       /\ tile = Unused /\ selected = Unused /\ resolving = Unused /\ matchState = Unused
       /\ gaveUp = Unused
  /\ IF subject = "runner" THEN Runner!Init ELSE
       /\ player = Unused /\ runnerState = Unused /\ jumps = Unused
  /\ IF subject = "breakout" THEN Breakout!Init ELSE
       /\ wall = Unused /\ brick = Unused /\ drops = Unused /\ wallState = Unused
  /\ IF subject = "reflex" THEN Reflex!Init ELSE
       /\ trial = Unused /\ result = Unused /\ points = Unused /\ seen = Unused

Init == subject \in Parts /\ Begins

Next ==
  /\ UNCHANGED subject
  /\ IF subject = "power" THEN Power!Next ELSE UNCHANGED powerVars
  /\ IF subject = "wifi" THEN Wifi!Next ELSE UNCHANGED wifiVars
  /\ IF subject = "ota" THEN Ota!Next ELSE UNCHANGED otaVars
  /\ IF subject = "sound" THEN Sound!Next ELSE UNCHANGED soundVars
  /\ IF subject = "game" THEN Game!Next ELSE UNCHANGED gameVars
  /\ IF subject = "stream" THEN Stream!Next ELSE UNCHANGED streamVars
  /\ IF subject = "records" THEN Records!Next ELSE UNCHANGED recordsVars
  /\ IF subject = "replies" THEN Replies!Next ELSE UNCHANGED repliesVars
  /\ IF subject = "persona" THEN Persona!Next ELSE UNCHANGED personaVars
  /\ IF subject = "focus" THEN Focus!Next ELSE UNCHANGED focusVars
  /\ IF subject = "snake" THEN Snake!Next ELSE UNCHANGED snakeVars
  /\ IF subject = "match" THEN Match!Next ELSE UNCHANGED matchVars
  /\ IF subject = "runner" THEN Runner!Next ELSE UNCHANGED runnerVars
  /\ IF subject = "breakout" THEN Breakout!Next ELSE UNCHANGED breakoutVars
  /\ IF subject = "reflex" THEN Reflex!Next ELSE UNCHANGED reflexVars

Spec == Init /\ [][Next]_vars

-----------------------------------------------------------------------------

\* Every part's variables keep their types.
TypeOK ==
  /\ subject = "power" => Power!TypeOK
  /\ subject = "wifi" => Wifi!TypeOK
  /\ subject = "ota" => Ota!TypeOK
  /\ subject = "sound" => Sound!TypeOK
  /\ subject = "game" => Game!TypeOK
  /\ subject = "stream" => Stream!TypeOK
  /\ subject = "records" => Records!TypeOK
  /\ subject = "replies" => Replies!TypeOK
  /\ subject = "persona" => Persona!TypeOK
  /\ subject = "focus" => Focus!TypeOK
  /\ subject = "snake" => Snake!TypeOK
  /\ subject = "match" => Match!TypeOK
  /\ subject = "runner" => Runner!TypeOK
  /\ subject = "breakout" => Breakout!TypeOK
  /\ subject = "reflex" => Reflex!TypeOK

\* Whatever wakes the screen is kept from the rest of the device, whatever is let
\* through is taken back when it ends, and the device dozes exactly while the policy
\* sleeps (input_service.c, power_service.c).  What the device is told of the network
\* is whether the core is online, the core is only since it saw an address and no loss of
\* the radio after that, and a network that was saved is tried, however notices, timers
\* and the radio fall (net_core.c, net_service.c).  An image is ready only if it is to
\* the byte the newer one that was offered, in whatever order offers, data and aborts
\* come (ota_core.c, ota_service.c).  A cue has no hole (sound_service.c).  The best score
\* is the stored one between runs but for a run broken off or a factory reset, a record is
\* told once a run, and no frame leaves work for the next (game.c).
DeviceAgrees ==
  /\ subject = "power" => Power!InputAgrees
  /\ subject = "wifi" => Wifi!WifiAgrees
  /\ subject = "ota" => Ota!UpdateIsSound
  /\ subject = "sound" => Sound!NoHoleInACue
  /\ subject = "game" => Game!GameAgrees

\* A hole within an utterance or a meeting is reported, a meeting is left unfiled only
\* when the daemon can no longer write to its device, and the live indicator counts what
\* is open, wherever a chunk or the link is lost (audio_service.c, nev_bridge.c,
\* session.rs, server.rs).
SpeechArrives == subject = "stream" => Stream!SpeechArrives

\* The daemon leaves no recording that its page does not list, and does not bring back
\* what was deleted, whatever ran at once and wherever it was stopped, but for files that
\* it failed to write, read or remove (nevos-store).  It sends the pieces of a reply in
\* their order, reports one done without an error only when it has sent all that came of
\* it, and lets the newest question win, but for the rest of one piece of an older reply
\* (server.rs, state.rs, nevos-agent).
DaemonAgrees ==
  /\ subject = "records" => Records!RecordsAreKept
  /\ subject = "replies" => Replies!RepliesAreSound

\* A reaction of the face ends, the focus timer is never short, and the games keep their
\* own rules: no reversal, no dead board that drawing was not given up on, one jump a
\* landing, bricks that add up, rounds that are earned (persona_core.c, focus_app.c and
\* the games' cores).
DeskAgrees ==
  /\ subject = "persona" => Persona!HeldMoodEnds
  /\ subject = "focus" => Focus!TimerIsNeverShort
  /\ subject = "snake" => Snake!SnakeIsFair
  /\ subject = "match" => Match!NeverADeadBoard
  /\ subject = "runner" => Runner!OneJumpALanding
  /\ subject = "breakout" => Breakout!BreakoutIsFair
  /\ subject = "reflex" => Reflex!RoundsAreEarned
=============================================================================
