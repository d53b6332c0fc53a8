--------------------------- MODULE CaptureProofs ---------------------------
(***************************************************************************)
(* Proofs about the microphone: whoever launches, closes or reboots, the   *)
(* gesture belongs to a live app, a held button does not talk past its     *)
(* ceiling, a recording ends by hand, and a reply is one question's.       *)
(***************************************************************************)
EXTENDS Capture, SequenceTheorems, TLAPS

Ptts == {"idle", "arming", "talking"}
Talk == [ptt : Ptts, age : -1..MaxHold, owner : TalkApps \cup {NoApp}]
Agent == [turn : 0..MaxTurn, waiting : BOOLEAN, shown : SUBSET (1..MaxTurn)]
Kinds == {"off", "note", "question", "transcript"}
DeviceOK == talk \in Talk /\ mic \in Kinds /\ pending \subseteq {"sent", "discarded"}
RepliesOK == agent \in Agent /\ answering \subseteq 1..MaxTurn

-----------------------------------------------------------------------------
(* The operators.                                                          *)

\* Unsigned subtraction of times that are near.
LEMMA Near ==
  ASSUME NEW w \in Nat \ {0}, NEW a \in Int, 0 <= a, a < w PROVE a % w = a
  OBVIOUS

\* A stamp that is one reading of the clock ahead.
LEMMA Ahead ==
  ASSUME NEW w \in Nat, w > 1 PROVE (-1) % w = w - 1
  OBVIOUS

\* What the gesture tells of an age that its variable can have.
LEMMA ElapsedIs ==
  ASSUME NEW a \in -1..MaxHold
  PROVE  Elapsed(a) >= MaxHold \/ Elapsed(a) = a
<1>1. Wrap \in Nat /\ MaxHold \in Nat /\ MaxHold + 1 < Wrap
  BY CaptureAssumption DEF CaptureAssumption
<1>2. CASE a = -1
  <2>1. Wrap > 1
    BY <1>1
  <2>2. (-1) % Wrap = Wrap - 1
    BY <1>1, <2>1, Ahead
  <2>3. Elapsed(a) = Wrap - 1
    BY <1>2, <2>2 DEF Elapsed
  <2> QED BY <1>1, <2>3
<1>3. CASE a # -1
  <2>1. a \in Int /\ 0 <= a /\ a < Wrap
    BY <1>1, <1>3
  <2> QED BY <1>1, <2>1, Near DEF Elapsed
<1> QED BY <1>2, <1>3

\* An app that leaves the queue leaves the others in it.
LEMMA RemoveAtKeeps ==
  ASSUME NEW S, NEW q \in Seq(S), NEW i \in 1..Len(q)
  PROVE  /\ RemoveAt(q, i) \in Seq(S)
         /\ \A m \in 1..Len(q) : m # i =>
              \E p \in 1..Len(RemoveAt(q, i)) : RemoveAt(q, i)[p] = q[m]
<1> DEFINE s == SubSeq(q, 1, i - 1)
           u == SubSeq(q, i + 1, Len(q))
<1>1. /\ s \in Seq(S) /\ Len(s) = i - 1 /\ \A m \in 1..i - 1 : s[m] = q[m]
  BY SubSeqProperties
<1>2. /\ u \in Seq(S) /\ Len(u) = Len(q) - i /\ \A m \in 1..Len(q) - i : u[m] = q[m + i]
  BY SubSeqProperties
<1>3. RemoveAt(q, i) = s \o u
  BY DEF RemoveAt
<1> HIDE DEF s, u
<1>4. /\ s \o u \in Seq(S) /\ Len(s \o u) = Len(s) + Len(u)
      /\ \A m \in 1..Len(s) + Len(u) : (s \o u)[m] = IF m <= Len(s) THEN s[m] ELSE u[m - Len(s)]
  BY <1>1, <1>2, ConcatProperties
<1>5. Len(q) \in Nat /\ Len(s \o u) = Len(q) - 1
  BY <1>1, <1>2, <1>4
<1>6. ASSUME NEW m \in 1..Len(q), m # i
      PROVE  \E p \in 1..Len(s \o u) : (s \o u)[p] = q[m]
  <2>1. CASE m < i
    <3>1. m \in 1..Len(s \o u) /\ m <= Len(s) /\ m \in 1..i - 1
      BY <1>1, <1>5, <2>1
    <3> QED BY <1>1, <1>2, <1>4, <1>5, <3>1
  <2>2. CASE m > i
    <3>1. m - 1 \in 1..Len(s \o u) /\ ~(m - 1 <= Len(s)) /\ (m - 1) - Len(s) = m - i
      BY <1>1, <1>5, <2>2
    <3>2. m - i \in 1..Len(q) - i /\ (m - i) + i = m
      BY <1>5, <2>2
    <3>3. (s \o u)[m - 1] = q[m]
      BY <1>1, <1>2, <1>4, <3>1, <3>2
    <3> QED BY <3>1, <3>3
  <2> QED BY <1>6, <2>1, <2>2
<1> QED BY <1>3, <1>4, <1>6

\* The first in the queue goes: the others stay.
LEMMA TailKeeps ==
  ASSUME NEW S, NEW q \in Seq(S), q # <<>>
  PROVE  /\ Tail(q) \in Seq(S) /\ Head(q) \in S /\ Len(q) \in Nat
         /\ \A m \in 1..Len(q) : q[m] # Head(q) =>
              \E p \in 1..Len(Tail(q)) : Tail(q)[p] = q[m]
<1>1. /\ Tail(q) \in Seq(S) /\ Head(q) \in S /\ Head(q) = q[1] /\ Len(Tail(q)) = Len(q) - 1
      /\ \A p \in 1..Len(q) - 1 : Tail(q)[p] = q[p + 1] /\ Len(q) \in Nat
  BY HeadTailProperties
<1>2. ASSUME NEW m \in 1..Len(q), q[m] # Head(q)
      PROVE  m - 1 \in 1..Len(Tail(q)) /\ Tail(q)[m - 1] = q[m]
  <2>1. m # 1 /\ m - 1 \in 1..Len(q) - 1 /\ (m - 1) + 1 = m
    BY <1>1, <1>2
  <2> QED BY <1>1, <2>1
<1>3. ASSUME NEW m \in 1..Len(q), q[m] # Head(q)
      PROVE  \E p \in 1..Len(Tail(q)) : Tail(q)[p] = q[m]
  BY <1>2, <1>3
<1>4. Len(q) \in Nat
  OBVIOUS
<1> QED BY <1>1, <1>3, <1>4

-----------------------------------------------------------------------------
(* The gesture and the microphone.                                         *)

\* What no step of the gesture does: end a talk and keep its capture, or end a
\* capture that is not its own.
MicKept ==
  /\ Held /\ mic' = mic => talk'.ptt = "talking"
  /\ mic = "transcript" /\ mic' # mic => talk.ptt = "talking"

\* The steps of the gesture of an app that has attached.
LEMMA GestureStep ==
  ASSUME DeviceOK, talk.owner # NoApp,
         \/ \E late \in Late : Press(late) \/ Release(late)
         \/ Cancel \/ TalkTick \/ UNCHANGED device
  PROVE  DeviceOK' /\ talk'.owner = talk.owner /\ MicKept
<1> USE DEF DeviceOK
<1> /\ MaxHold \in Nat /\ MaxHold >= 1 /\ KindOf[talk.owner] \in {"note", "question"}
  BY CaptureAssumption DEF CaptureAssumption, Talk
<1>1. ASSUME NEW said \in {"sent", "discarded"}, Close(said)
      PROVE  mic' = "off" /\ pending' \subseteq {"sent", "discarded"}
  BY <1>1 DEF Close
<1>2. Idle => talk' \in Talk /\ talk'.owner = talk.owner
  BY DEF Idle, Talk, Ptts
<1>3. ASSUME NEW said \in {"sent", "discarded"}, Idle, talk.ptt = "talking", Close(said)
      PROVE  DeviceOK' /\ talk'.owner = talk.owner /\ MicKept
  BY <1>1, <1>2, <1>3 DEF MicKept, Held, Kinds
<1>4. CASE Idle /\ Keep /\ talk.ptt # "talking"
  BY <1>2, <1>4 DEF MicKept, Held, Keep
<1>5. ASSUME NEW late \in Late, Press(late) PROVE DeviceOK' /\ talk'.owner = talk.owner /\ MicKept
  <2>1. -late \in -1..MaxHold
    BY DEF Late
  <2>2. talk' \in Talk /\ talk'.owner = talk.owner /\ (talk.ptt = "talking" => talk'.ptt = "talking")
    BY <1>5, <2>1 DEF Press, Talk, Ptts
  <2> QED BY <1>5, <2>2 DEF Press, Keep, MicKept, Held
<1>6. ASSUME NEW late \in Late, Release(late) PROVE DeviceOK' /\ talk'.owner = talk.owner /\ MicKept
  BY <1>3, <1>4, <1>6 DEF Release
<1>7. CASE Cancel
  BY <1>3, <1>4, <1>7 DEF Cancel
<1>8. CASE UNCHANGED device
  BY <1>8 DEF device, MicKept, Held
<1>9. CASE talk.ptt = "arming" /\ Open
  <2>1. CASE /\ mic = "off" /\ mic' = KindOf[talk.owner] /\ pending' = pending
             /\ talk' = [talk EXCEPT !.ptt = "talking", !.age = 0]
    <3>1. talk' \in Talk /\ talk'.owner = talk.owner
      <4>1. 0 \in -1..MaxHold /\ "talking" \in Ptts
        BY DEF Ptts
      <4> QED BY <2>1, <4>1 DEF Talk
    <3>2. mic' \in Kinds
      BY <2>1 DEF Kinds
    <3> QED BY <1>9, <2>1, <3>1, <3>2 DEF MicKept, Held
  <2>2. CASE Idle /\ Keep
    BY <1>4, <1>9, <2>2
  <2> QED BY <1>9, <2>1, <2>2 DEF Open, Starts, Idle
<1>10. CASE TalkTick
  BY <1>3, <1>8, <1>9, <1>10 DEF TalkTick
<1> QED BY <1>5, <1>6, <1>7, <1>8, <1>10

\* A touch of the button on the screen, whether an app has attached or not.
LEMMA ButtonStep ==
  ASSUME DeviceOK, NEW late \in Late, Press(late) \/ Release(late)
  PROVE  DeviceOK' /\ talk'.owner = talk.owner /\ MicKept
<1> USE DEF DeviceOK
<1>1. CASE Press(late)
  <2>1. -late \in -1..MaxHold
    BY CaptureAssumption DEF CaptureAssumption, Late
  <2>2. talk' \in Talk /\ talk'.owner = talk.owner /\ (talk.ptt = "talking" => talk'.ptt = "talking")
    BY <1>1, <2>1 DEF Press, Talk, Ptts
  <2> QED BY <1>1, <2>2 DEF Press, Keep, MicKept, Held
<1>2. CASE Release(late)
  <2>1. talk' \in Talk /\ talk'.owner = talk.owner
    BY <1>2 DEF Release, Idle, Talk, Ptts
  <2> QED BY <1>2, <2>1 DEF Release, Close, Keep, MicKept, Held, Kinds
<1> QED BY <1>1, <1>2

\* What an app that closes does: whoever owns the gesture, a talk app takes it
\* down, and any other leaves it alone.
LEMMA CloseStep ==
  ASSUME DeviceOK, NEW a, CloseHook(a)
  PROVE  /\ DeviceOK' /\ MicKept
         /\ talk'.owner = IF a \in TalkApps THEN NoApp ELSE talk.owner
<1> USE DEF DeviceOK
<1>1. CASE a \in TalkApps /\ talk.owner # NoApp
  <2>1. talk' = [talk EXCEPT !.ptt = "idle", !.owner = NoApp]
    BY <1>1 DEF CloseHook
  <2>2. talk' \in Talk /\ talk'.owner = NoApp
    BY <2>1 DEF Talk, Ptts
  <2>3. IF talk.ptt = "talking" THEN Close("discarded") ELSE Keep
    BY <1>1 DEF CloseHook
  <2> QED BY <1>1, <2>2, <2>3 DEF Close, Keep, MicKept, Held, Kinds
<1>2. CASE ~(a \in TalkApps /\ talk.owner # NoApp)
  BY <1>2 DEF CloseHook, device, MicKept, Held, Talk
<1> QED BY <1>1, <1>2

\* What an app that opens does.
LEMMA LaunchStep ==
  ASSUME DeviceOK, NEW a \in Apps, NEW gone, LaunchHook(a, gone)
  PROVE  /\ DeviceOK' /\ (MicKept \/ a \in TalkApps)
         /\ mic = "transcript" /\ mic' # mic => talk.ptt = "talking"
         /\ talk'.owner = IF a \in TalkApps THEN a ELSE IF gone \in TalkApps THEN NoApp ELSE talk.owner
<1>1. CASE a \in TalkApps
  <2>1. talk' = [Shut EXCEPT !.owner = a]
    BY <1>1 DEF LaunchHook
  <2>2. talk' \in Talk /\ talk'.owner = a
    BY <1>1, <2>1, CaptureAssumption DEF CaptureAssumption, Shut, Talk, Ptts
  <2>3. Keep \/ (talk.ptt = "talking" /\ Close("discarded"))
    <3>1. IF gone \in TalkApps /\ talk.owner # NoApp /\ talk.ptt = "talking"
          THEN Close("discarded") ELSE Keep
      BY <1>1 DEF LaunchHook
    <3>2. CASE gone \in TalkApps /\ talk.owner # NoApp /\ talk.ptt = "talking"
      BY <3>1, <3>2
    <3>3. CASE ~(gone \in TalkApps /\ talk.owner # NoApp /\ talk.ptt = "talking")
      BY <3>1, <3>3
    <3> QED BY <3>2, <3>3
  <2> QED BY <1>1, <2>2, <2>3 DEF DeviceOK, Close, Keep, Kinds
<1>2. CASE a \notin TalkApps
  <2>1. CloseHook(gone)
    BY <1>2 DEF LaunchHook
  <2> QED BY <1>2, <2>1, CloseStep DEF MicKept
<1> QED BY <1>1, <1>2

-----------------------------------------------------------------------------
(* The answers.                                                            *)

\* A question that is asked replaces the one before.
LEMMA AskStep ==
  ASSUME RepliesOK, OneReplyAtATime, Ask PROVE RepliesOK' /\ OneReplyAtATime'
<1> USE DEF RepliesOK, OneReplyAtATime
<1>1. CASE agent.waiting
  BY <1>1 DEF Ask, replies
<1>2. CASE ~agent.waiting
  <2>1. PICK sent \in BOOLEAN :
          /\ agent' = [turn |-> agent.turn + 1, waiting |-> sent, shown |-> {}]
          /\ answering' = IF sent THEN answering \cup {agent.turn + 1} ELSE answering
    BY <1>2 DEF Ask
  <2>2. agent.turn < MaxTurn /\ agent.turn \in 0..MaxTurn /\ MaxTurn \in Nat
    BY <1>2, CaptureAssumption DEF CaptureAssumption, Ask, Agent
  <2>3. agent.turn + 1 \in 1..MaxTurn
    BY <2>2
  <2>4. agent' \in Agent /\ agent'.shown = {}
    BY <2>1, <2>3 DEF Agent
  <2>5. answering' \subseteq 1..MaxTurn
    BY <2>1, <2>3
  <2> QED BY <2>4, <2>5
<1> QED BY <1>1, <1>2

\* A hook of the agent's, or its waiting that ends.
LEMMA AgentStep ==
  ASSUME RepliesOK, OneReplyAtATime, NEW waiting \in BOOLEAN, NEW shown \in {agent.shown, {}},
         agent' = [agent EXCEPT !.waiting = waiting, !.shown = shown], answering' \subseteq answering
  PROVE  RepliesOK' /\ OneReplyAtATime'
  BY DEF RepliesOK, OneReplyAtATime, Agent

-----------------------------------------------------------------------------
(* The inductive invariant.                                                *)

Inv == TypeOK /\ OwnerIsLive /\ CeilingInFront /\ OneReplyAtATime

LifeOK == front \in Apps \cup {NoApp} /\ warm \in Seq(Apps) /\ phase \in {"events", "drawn", "rest"}

\* The types, in the parts that the steps keep one by one.
LEMMA TypeParts == TypeOK <=> LifeOK /\ DeviceOK /\ RepliesOK
  BY DEF TypeOK, LifeOK, DeviceOK, RepliesOK, Talk, Ptts, Kinds, Agent

\* Every app that was alive and is not the one that goes is alive after.
Survives(gone) == \A a \in Apps : a \in Live /\ a # gone => a \in Live'

\* An app that is launched is in front, and only the one that makes room goes.
LEMMA LaunchLife ==
  ASSUME LifeOK, NEW a \in Apps, Launch(a)
  PROVE  /\ LifeOK' /\ front' = a
         /\ LET gone == IF Len(warm) < Room THEN NoApp ELSE Head(warm)
            IN  /\ LaunchHook(a, gone) /\ AgentHook(gone, a) /\ Survives(gone)
                /\ gone \in Apps \cup {NoApp}
<1> /\ Room \in Nat \ {0} /\ NoApp \notin Apps
  BY CaptureAssumption DEF CaptureAssumption
<1> warm \in Seq(Apps) /\ front = NoApp /\ Len(warm) \in Nat
  BY DEF LifeOK, Launch
<1>1. /\ front' = a /\ phase' = "rest"
      /\ warm' = IF Len(warm) < Room THEN warm ELSE Tail(warm)
  BY DEF Launch, Life!Open, Life!Behind
<1>2. CASE Len(warm) < Room
  <2>1. warm' = warm
    BY <1>1, <1>2
  <2>2. Survives(NoApp)
    BY <1>1, <2>1 DEF Survives, Live
  <2> QED BY <1>1, <1>2, <2>1, <2>2 DEF Launch, LifeOK
<1>3. CASE ~(Len(warm) < Room)
  <2>1. warm # <<>> /\ warm' = Tail(warm)
    BY <1>1, <1>3
  <2>2. /\ Tail(warm) \in Seq(Apps) /\ Head(warm) \in Apps
        /\ \A m \in 1..Len(warm) : warm[m] # Head(warm) =>
             \E p \in 1..Len(Tail(warm)) : Tail(warm)[p] = warm[m]
    BY <2>1, TailKeeps
  <2>3. Survives(Head(warm))
    BY <2>1, <2>2 DEF Survives, Live
  <2> QED BY <1>1, <1>3, <2>1, <2>2, <2>3 DEF Launch, LifeOK
<1> QED BY <1>2, <1>3

\* Memory pressure takes the one used least recently.
LEMMA ReclaimLife ==
  ASSUME LifeOK, MemPressure
  PROVE  /\ LifeOK' /\ Survives(Head(warm)) /\ Head(warm) \in Apps
         /\ front' = front /\ phase' = phase /\ phase = "events"
<1>1. warm # <<>> /\ warm' = Tail(warm) /\ UNCHANGED <<front, phase>> /\ phase = "events"
  BY DEF MemPressure, Life!Reclaim
<1>2. warm \in Seq(Apps)
  BY DEF LifeOK
<1>3. Survives(Head(warm)) /\ Tail(warm) \in Seq(Apps) /\ Head(warm) \in Apps
  BY <1>1, <1>2, TailKeeps DEF Survives, Live
<1> QED BY <1>1, <1>3 DEF LifeOK

\* An app that comes back costs nobody anything.
LEMMA ReturnLife ==
  ASSUME LifeOK, NEW a \in Apps, Return(a)
  PROVE  LifeOK' /\ Survives(NoApp) /\ phase' = "rest"
<1>1. front = NoApp /\ front' = a /\ warm \in Seq(Apps) /\ NoApp \notin Apps /\ phase' = "rest"
  BY CaptureAssumption DEF CaptureAssumption, Return, Life!Return, LifeOK
<1>2. PICK i \in 1..Len(warm) : warm[i] = a /\ warm' = RemoveAt(warm, i)
  <2>1. Life!Behind = warm
    BY <1>1 DEF Life!Behind
  <2>2. PICK i \in 1..Len(warm) : warm[i] = a /\ warm' = Life!RemoveAt(warm, i)
    BY <2>1 DEF Return, Life!Return
  <2>3. Life!RemoveAt(warm, i) = RemoveAt(warm, i)
    BY DEF RemoveAt, Life!RemoveAt
  <2> QED BY <2>2, <2>3
<1>3. /\ RemoveAt(warm, i) \in Seq(Apps)
      /\ \A m \in 1..Len(warm) : m # i =>
           \E p \in 1..Len(RemoveAt(warm, i)) : RemoveAt(warm, i)[p] = warm[m]
  BY <1>1, RemoveAtKeeps
<1> QED BY <1>1, <1>2, <1>3 DEF Survives, Live, LifeOK

\* Nor does the way home.
LEMMA HomeLife ==
  ASSUME LifeOK, front # NoApp, Life!Home, phase' \in {"rest", phase}
  PROVE  LifeOK' /\ Survives(NoApp) /\ front' = NoApp
<1>1. /\ front # NoApp /\ front' = NoApp /\ warm' = Append(warm, front)
      /\ phase' \in {"rest", phase} /\ warm \in Seq(Apps) /\ front \in Apps
  BY DEF Life!Home, Life!Behind, LifeOK
<1>2. /\ Append(warm, front) \in Seq(Apps) /\ Len(warm) \in Nat
      /\ Len(Append(warm, front)) = Len(warm) + 1
      /\ Append(warm, front)[Len(warm) + 1] = front
      /\ \A i \in 1..Len(warm) : Append(warm, front)[i] = warm[i]
  BY <1>1, AppendProperties
<1>3. /\ Len(warm) + 1 \in 1..Len(warm')
      /\ \A i \in 1..Len(warm) : i \in 1..Len(warm')
  BY <1>1, <1>2
<1> QED BY <1>1, <1>2, <1>3 DEF Survives, Live, LifeOK

\* The owner of the gesture stays alive when those who go are not it.
LEMMA OwnerStays ==
  ASSUME DeviceOK, OwnerIsLive, NEW gone, Survives(gone),
         talk'.owner \in {talk.owner, NoApp}, talk'.owner = NoApp \/ talk.owner # gone
  PROVE  OwnerIsLive'
<1>1. TalkApps \subseteq Apps
  BY CaptureAssumption DEF CaptureAssumption
<1> QED BY <1>1 DEF OwnerIsLive, Survives, DeviceOK, Talk

\* The program starts in the invariant.
LEMMA InvInit == Init => Inv
<1> SUFFICES ASSUME Init PROVE Inv
  OBVIOUS
<1>1. MaxHold \in Nat /\ MaxTurn \in Nat /\ NoApp \notin TalkApps
  BY CaptureAssumption DEF CaptureAssumption
<1>2. LifeOK
  BY DEF Init, LifeOK
<1>3. DeviceOK /\ talk.owner = NoApp
  BY <1>1 DEF Init, DeviceOK, Talk, Ptts, Kinds, Shut
<1>4. RepliesOK /\ OneReplyAtATime
  BY <1>1 DEF Init, RepliesOK, OneReplyAtATime, Agent, NoAnswer
<1> QED BY <1>2, <1>3, <1>4, TypeParts DEF Inv, OwnerIsLive, CeilingInFront

\* What the gesture tells of a frame once it is done.
LEMMA TickCeiling ==
  ASSUME DeviceOK, talk.owner # NoApp, TalkTick, talk'.ptt = "talking" PROVE talk'.age < MaxHold
<1> /\ MaxHold \in Nat /\ MaxHold >= 1
  BY CaptureAssumption DEF CaptureAssumption
<1> talk \in Talk /\ talk.age \in -1..MaxHold
  BY DEF DeviceOK, Talk
<1>1. Idle => talk'.ptt # "talking"
  BY DEF Idle, Talk
<1>2. Open => talk'.ptt # "talking" \/ talk'.age = 0
  BY DEF Open, Talk
<1>3. CASE talk.ptt = "talking" /\ ~(Elapsed(talk.age) >= MaxHold) /\ UNCHANGED device
  BY <1>3, ElapsedIs DEF device
<1>4. CASE talk.ptt # "talking" /\ UNCHANGED device
  BY <1>4 DEF device
<1> QED BY <1>1, <1>2, <1>3, <1>4 DEF TalkTick

\* Every step keeps it.
LEMMA InvStep == Inv /\ [Next]_vars => Inv'
<1> SUFFICES ASSUME Inv, [Next]_vars PROVE Inv'
  OBVIOUS
<1> /\ LifeOK /\ DeviceOK /\ RepliesOK /\ OwnerIsLive /\ CeilingInFront /\ OneReplyAtATime
  BY TypeParts DEF Inv
<1> NoApp \notin Apps /\ TalkApps \subseteq Apps
  BY CaptureAssumption DEF CaptureAssumption
<1>a. ASSUME LifeOK', DeviceOK', RepliesOK', OwnerIsLive', CeilingInFront', OneReplyAtATime'
      PROVE  Inv'
  BY <1>a DEF Inv, TypeOK, LifeOK, DeviceOK, RepliesOK, Talk, Ptts, Kinds, Agent
<1>b. ASSUME UNCHANGED replies PROVE RepliesOK' /\ OneReplyAtATime'
  BY <1>b DEF replies, RepliesOK, OneReplyAtATime
<1>c. ASSUME UNCHANGED device PROVE DeviceOK' /\ talk' = talk
  BY <1>c DEF device, DeviceOK
<1>d. phase' # "drawn" => CeilingInFront'
  BY DEF CeilingInFront
<1>e. ASSUME UNCHANGED <<front, warm>>, talk'.owner = talk.owner PROVE OwnerIsLive'
  BY <1>e DEF OwnerIsLive, Live
<1>f. ASSUME Event PROVE LifeOK' /\ CeilingInFront' /\ UNCHANGED <<front, warm>>
  BY <1>d, <1>f DEF Event, LifeOK
<1>g. ASSUME Touch PROVE LifeOK' /\ CeilingInFront' /\ UNCHANGED <<front, warm>>
  BY <1>d, <1>g DEF Touch, LifeOK
<1>1. ASSUME NEW a \in Apps, Return(a) PROVE Inv'
  <2>1. UNCHANGED device /\ UNCHANGED replies
    BY <1>1 DEF Return
  <2>2. OwnerIsLive'
    <3>1. talk.owner = NoApp \/ talk.owner # NoApp
      OBVIOUS
    <3> QED BY <1>1, <1>c, <2>1, ReturnLife, OwnerStays
  <2> QED BY <1>1, <1>a, <1>b, <1>c, <1>d, <2>1, <2>2, ReturnLife
<1>2. ASSUME NEW a \in Apps, Launch(a) PROVE Inv'
  <2> DEFINE gone == IF Len(warm) < Room THEN NoApp ELSE Head(warm)
  <2>1. /\ LifeOK' /\ front' = a /\ LaunchHook(a, gone) /\ AgentHook(gone, a) /\ Survives(gone)
        /\ gone \in Apps \cup {NoApp} /\ answering' = answering /\ phase' = "rest"
    BY <1>2, LaunchLife DEF Launch
  <2> HIDE DEF gone
  <2>2. DeviceOK' /\ talk'.owner = IF a \in TalkApps THEN a
                                   ELSE IF gone \in TalkApps THEN NoApp ELSE talk.owner
    BY <2>1, LaunchStep
  <2>3. OwnerIsLive'
    <3>1. CASE a \in TalkApps
      BY <2>1, <2>2, <3>1 DEF OwnerIsLive, Live
    <3>2. CASE a \notin TalkApps
      <4>1. talk.owner \in TalkApps \cup {NoApp}
        BY DEF DeviceOK, Talk
      <4> QED BY <2>1, <2>2, <3>2, <4>1, OwnerStays
    <3> QED BY <3>1, <3>2
  <2>4. RepliesOK' /\ OneReplyAtATime'
    BY <2>1, AgentStep DEF AgentHook, RepliesOK, Agent
  <2> QED BY <1>a, <1>d, <2>1, <2>2, <2>3, <2>4
<1>3. CASE GoHome
  <2>1. UNCHANGED device /\ UNCHANGED replies
    BY <1>3 DEF GoHome
  <2>2. LifeOK' /\ Survives(NoApp) /\ front' = NoApp
    BY <1>3, HomeLife DEF GoHome
  <2>3. OwnerIsLive'
    BY <1>c, <2>1, <2>2, OwnerStays
  <2>4. CeilingInFront'
    BY <2>2 DEF CeilingInFront
  <2> QED BY <1>a, <1>b, <1>c, <2>1, <2>2, <2>3, <2>4
<1>4. CASE MemPressure
  <2>1. /\ CloseHook(Head(warm)) /\ AgentHook(Head(warm), NoApp) /\ UNCHANGED answering
        /\ LifeOK' /\ Survives(Head(warm)) /\ Head(warm) \in Apps /\ phase' # "drawn"
    BY <1>4, ReclaimLife DEF MemPressure
  <2>2. DeviceOK' /\ talk'.owner = IF Head(warm) \in TalkApps THEN NoApp ELSE talk.owner
    BY <2>1, CloseStep
  <2>3. OwnerIsLive'
    <3>1. talk.owner \in TalkApps \cup {NoApp}
      BY DEF DeviceOK, Talk
    <3> QED BY <2>1, <2>2, <3>1, OwnerStays
  <2>4. RepliesOK' /\ OneReplyAtATime'
    BY <2>1, AgentStep DEF AgentHook, RepliesOK, Agent
  <2> QED BY <1>a, <1>d, <2>1, <2>2, <2>3, <2>4
<1>5. CASE ButtonDown \/ ButtonUp
  <2>1. /\ Event /\ talk.owner # NoApp /\ UNCHANGED replies
        /\ \E late \in Late : Press(late) \/ Release(late)
    BY <1>5 DEF ButtonDown, ButtonUp
  <2>2. DeviceOK' /\ talk'.owner = talk.owner
    BY <2>1, GestureStep
  <2> QED BY <1>a, <1>b, <1>e, <1>f, <2>1, <2>2
<1>6. CASE Disconnected
  <2>1. /\ Event /\ answering' = answering
        /\ agent' = IF front = "agent" THEN [agent EXCEPT !.waiting = FALSE] ELSE agent
        /\ (talk.owner # NoApp /\ Cancel) \/ UNCHANGED device
    BY <1>6 DEF Disconnected
  <2>2. DeviceOK' /\ talk'.owner = talk.owner
    BY <1>c, <2>1, GestureStep
  <2>3. RepliesOK' /\ OneReplyAtATime'
    BY <2>1 DEF RepliesOK, OneReplyAtATime, Agent
  <2> QED BY <1>a, <1>e, <1>f, <2>1, <2>2, <2>3
<1>7. ASSUME NEW said \in pending, TranscriptFinal(said) PROVE Inv'
  <2>1. /\ Event /\ talk' = talk /\ mic' = mic /\ pending' \subseteq pending
        /\ Ask \/ UNCHANGED replies
    BY <1>7 DEF TranscriptFinal
  <2>2. DeviceOK'
    BY <2>1 DEF DeviceOK
  <2>3. RepliesOK' /\ OneReplyAtATime'
    BY <1>b, <2>1, AskStep
  <2> QED BY <1>a, <1>e, <1>f, <2>1, <2>2, <2>3
<1>8. ASSUME NEW t \in answering, AgentToken(t) PROVE Inv'
  <2>1. Event /\ UNCHANGED device /\ answering' = answering /\ AppendToken(t)
    BY <1>8 DEF AgentToken
  <2>2. RepliesOK' /\ OneReplyAtATime'
    BY <2>1 DEF RepliesOK, OneReplyAtATime, Agent, AppendToken
  <2> QED BY <1>a, <1>c, <1>e, <1>f, <2>1, <2>2
<1>9. ASSUME NEW t \in answering, AgentDone(t) PROVE Inv'
  <2>1. Event /\ UNCHANGED device
    BY <1>9 DEF AgentDone
  <2>2. RepliesOK' /\ OneReplyAtATime'
    BY <1>9 DEF AgentDone, RepliesOK, OneReplyAtATime, Agent
  <2> QED BY <1>a, <1>c, <1>e, <1>f, <2>1, <2>2
<1>10. CASE NextFrame
  <2>1. /\ phase' = "events" /\ UNCHANGED <<front, warm>> /\ UNCHANGED <<mic, pending>>
        /\ UNCHANGED replies
        /\ talk' = [talk EXCEPT !.age = IF talk.ptt = "idle" THEN 0
                                        ELSE IF @ + Frame > MaxHold THEN MaxHold ELSE @ + Frame]
    BY <1>10 DEF NextFrame
  <2>2. LifeOK'
    BY <2>1 DEF LifeOK
  <2>3. talk' \in Talk /\ talk'.owner = talk.owner
    <3>1. /\ MaxHold \in Nat /\ Frame \in Nat /\ talk \in Talk /\ talk.age \in -1..MaxHold
      BY CaptureAssumption DEF CaptureAssumption, DeviceOK, Talk
    <3>2. talk'.age \in -1..MaxHold /\ talk' = [talk EXCEPT !.age = talk'.age]
      BY <2>1, <3>1 DEF Talk
    <3> QED BY <3>1, <3>2 DEF Talk
  <2>4. DeviceOK'
    BY <2>1, <2>3 DEF DeviceOK
  <2> QED BY <1>a, <1>b, <1>d, <1>e, <2>1, <2>2, <2>3, <2>4
<1>11. CASE AppTick
  <2>1. /\ phase' = "drawn" /\ UNCHANGED <<front, warm>> /\ UNCHANGED replies
        /\ IF front \in TalkApps /\ talk.owner # NoApp THEN TalkTick ELSE UNCHANGED device
    BY <1>11 DEF AppTick
  <2>2. LifeOK'
    BY <2>1 DEF LifeOK
  <2>3. DeviceOK' /\ talk'.owner = talk.owner
    BY <1>c, <2>1, GestureStep
  <2>4. CeilingInFront'
    BY <1>c, <2>1, <2>3, TickCeiling DEF CeilingInFront
  <2> QED BY <1>a, <1>b, <1>e, <2>1, <2>2, <2>3, <2>4
<1>12. CASE HoldPressed \/ HoldReleased
  <2>1. /\ Touch /\ UNCHANGED replies
        /\ \E late \in Late : Press(late) \/ Release(late)
    BY <1>12 DEF HoldPressed, HoldReleased
  <2>2. DeviceOK' /\ talk'.owner = talk.owner
    BY <2>1, ButtonStep
  <2> QED BY <1>a, <1>b, <1>e, <1>g, <2>1, <2>2
<1>13. CASE RecordClicked
  <2>1. /\ Touch /\ UNCHANGED talk /\ UNCHANGED replies
        /\ mic' \in {"off", "transcript"} /\ pending' \subseteq pending \cup {"sent"}
    BY <1>13 DEF RecordClicked, Close
  <2>2. DeviceOK'
    BY <2>1 DEF DeviceOK, Kinds
  <2> QED BY <1>a, <1>b, <1>e, <1>g, <2>1, <2>2
<1>14. CASE PromptClicked
  <2>1. Touch /\ Ask /\ UNCHANGED device
    BY <1>14 DEF PromptClicked
  <2> QED BY <1>a, <1>c, <1>e, <1>g, <2>1, AskStep
<1>15. CASE Reboot
  <2>1. (LifeOK /\ DeviceOK /\ RepliesOK /\ OneReplyAtATime)' /\ talk'.owner = NoApp /\ front' = NoApp
    <3>1. MaxHold \in Nat /\ MaxTurn \in Nat
      BY CaptureAssumption DEF CaptureAssumption
    <3>2. LifeOK'
      BY <1>15 DEF Reboot, LifeOK
    <3>3. DeviceOK' /\ talk'.owner = NoApp /\ front' = NoApp
      BY <1>15, <3>1 DEF Reboot, DeviceOK, Talk, Ptts, Kinds, Shut
    <3>4. (RepliesOK /\ OneReplyAtATime)'
      BY <1>15, <3>1 DEF Reboot, RepliesOK, OneReplyAtATime, Agent, NoAnswer
    <3> QED BY <3>2, <3>3, <3>4
  <2> QED BY <1>a, <2>1 DEF OwnerIsLive, CeilingInFront
<1>17. CASE FactoryReset
  <2>1. /\ phase' = "rest" /\ front = "settings" /\ front # NoApp
        /\ talk' = talk /\ UNCHANGED replies
        /\ mic' = "off" /\ pending' \subseteq pending \cup {"sent"}
    BY <1>17, CaptureAssumption DEF FactoryReset, Close, CaptureAssumption
  <2>2. DeviceOK'
    BY <2>1 DEF DeviceOK, Kinds
  <2>3. CASE Life!Home
    <3>1. LifeOK' /\ Survives(NoApp)
      BY <2>1, <2>3, HomeLife
    <3>2. OwnerIsLive'
      BY <2>1, <3>1, OwnerStays
    <3> QED BY <1>a, <1>b, <1>d, <2>1, <2>2, <3>1, <3>2
  <2>4. CASE UNCHANGED <<front, warm>>
    <3>1. LifeOK'
      BY <2>1, <2>4 DEF LifeOK
    <3> QED BY <1>a, <1>b, <1>d, <1>e, <2>1, <2>2, <2>4, <3>1
  <2> QED BY <1>17, <2>3, <2>4 DEF FactoryReset
<1>16. CASE UNCHANGED vars
  <2>1. LifeOK' /\ CeilingInFront' /\ UNCHANGED device /\ UNCHANGED replies /\ UNCHANGED <<front, warm>>
    BY <1>16 DEF vars, device, LifeOK, CeilingInFront
  <2> QED BY <1>a, <1>b, <1>c, <1>e, <2>1
<1> QED
  BY <1>1, <1>2, <1>3, <1>4, <1>5, <1>6, <1>7, <1>8, <1>9, <1>10, <1>11, <1>12, <1>13, <1>14,
     <1>15, <1>16, <1>17
  DEF Next

-----------------------------------------------------------------------------
(* The properties that the run checks.                                     *)

\* So it holds for ever.
LEMMA AlwaysInv == Spec => []Inv
  BY InvInit, InvStep, PTL DEF Spec

\* Every variable has its type, whatever the user and the daemon do.
THEOREM TypeCorrect == Spec => []TypeOK
<1>1. Inv => TypeOK
  BY DEF Inv
<1> QED BY <1>1, AlwaysInv, PTL

\* The app that talk.c would call back is alive: its widgets are still there.
THEOREM CallbackIsLive == Spec => []OwnerIsLive
<1>1. Inv => OwnerIsLive
  BY DEF Inv
<1> QED BY <1>1, AlwaysInv, PTL

\* Once a frame's tick is done, no talk of the app in front is past its ceiling.
THEOREM CeilingHolds == Spec => []CeilingInFront
<1>1. Inv => CeilingInFront
  BY DEF Inv
<1> QED BY <1>1, AlwaysInv, PTL

\* What the agent shows belongs to the question it asked last.
THEOREM RepliesAreWhole == Spec => []OneReplyAtATime
<1>1. Inv => OneReplyAtATime
  BY DEF Inv
<1> QED BY <1>1, AlwaysInv, PTL

\* What each step does to the microphone.
LEMMA MicStep ==
  ASSUME Inv, [Next]_vars
  PROVE  \/ MicKept
         \/ RecordClicked /\ talk' = talk
         \/ FactoryReset /\ talk' = talk
         \/ Reboot
         \/ \E a \in TalkApps : /\ Launch(a)
                                /\ mic = "transcript" /\ mic' # mic => talk.ptt = "talking"
<1> DeviceOK /\ LifeOK
  BY TypeParts DEF Inv
<1>1. CASE UNCHANGED <<talk, mic>>
  BY <1>1 DEF MicKept, Held
<1>2. ASSUME NEW a \in Apps, Launch(a)
      PROVE  \/ MicKept
             \/ a \in TalkApps /\ (mic = "transcript" /\ mic' # mic => talk.ptt = "talking")
  BY <1>2, LaunchLife, LaunchStep
<1>3. CASE MemPressure
  BY <1>3, CloseStep DEF MemPressure
<1>4. CASE ButtonDown \/ ButtonUp \/ HoldPressed \/ HoldReleased
  BY <1>4, ButtonStep DEF ButtonDown, ButtonUp, HoldPressed, HoldReleased
<1>5. CASE Disconnected
  <2>1. CASE talk.owner # NoApp /\ Cancel
    BY <2>1, GestureStep
  <2>2. CASE UNCHANGED device
    BY <1>1, <2>2 DEF device
  <2> QED BY <1>5, <2>1, <2>2 DEF Disconnected
<1>6. CASE NextFrame
  <2>1. talk'.ptt = talk.ptt /\ mic' = mic
    BY <1>6 DEF NextFrame, DeviceOK, Talk
  <2> QED BY <2>1 DEF MicKept, Held
<1>7. CASE AppTick
  <2>1. CASE talk.owner # NoApp /\ TalkTick
    BY <2>1, GestureStep
  <2>2. CASE UNCHANGED device
    BY <1>1, <2>2 DEF device
  <2> QED BY <1>7, <2>1, <2>2 DEF AppTick
<1>8. CASE RecordClicked
  BY <1>8 DEF RecordClicked
<1>9. CASE FactoryReset
  BY <1>9 DEF FactoryReset
<1> QED
  BY <1>1, <1>2, <1>3, <1>4, <1>5, <1>6, <1>7, <1>8, <1>9, CaptureAssumption
  DEF CaptureAssumption, Next, Return, GoHome, TranscriptFinal, AgentToken, AgentDone,
      PromptClicked, device, vars

\* A capture that a held button opened is orphaned by nothing but the launch of
\* a talk app over it.
THEOREM OnlyALaunch == Spec => OnlyALaunchOrphans
<1>1. Inv /\ [Next]_vars => [Orphans => \E a \in TalkApps : Launch(a)]_vars
  <2> SUFFICES ASSUME Inv, [Next]_vars, Orphans PROVE \E a \in TalkApps : Launch(a)
    OBVIOUS
  <2>1. ~MicKept
    BY DEF MicKept, Orphans
  <2>2. ~((RecordClicked \/ FactoryReset) /\ talk' = talk)
    BY DEF Orphans, Held
  <2>3. ~Reboot
    BY DEF Reboot, Orphans, Held
  <2> QED BY <2>1, <2>2, <2>3, MicStep
<1> QED BY <1>1, AlwaysInv, PTL DEF Spec, OnlyALaunchOrphans

\* A recording of meeting's ends in meeting, by a factory reset in settings, or with
\* the power, unless a gesture believes that the microphone is its own.
THEOREM RecordingLasts == Spec => MeetingEndsByHand
<1> DEFINE Ends == mic = "transcript" /\ mic' # "transcript"
                     => RecordClicked \/ FactoryReset \/ Reboot \/ talk.ptt = "talking"
<1>1. Inv /\ [Next]_vars => [Ends]_vars
  BY MicStep DEF MicKept
<1>2. Spec => [][Ends]_vars
  BY <1>1, AlwaysInv, PTL DEF Spec
<1> QED BY <1>2 DEF MeetingEndsByHand
=============================================================================
