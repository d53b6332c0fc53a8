-------------------------------- MODULE Wifi --------------------------------
(***************************************************************************)
(* Joining a network: the state machine net_core.c, the service that reads *)
(* the radio and the settings for it (net_service.c, on nev_net), and the  *)
(* Wi-Fi app that writes the settings (wifi_app.c, on nev_ui).             *)
(*                                                                         *)
(* The radio is the board's: it reports any of its four statuses at any    *)
(* time.  The service looks now and then, and acts only on a change since  *)
(* the last look.  What it has to hear of the settings is one bit: its     *)
(* ring of four may drop a notice, never the last one.  The passing of     *)
(* time is a choice of the tick: each wait may be over or not.             *)
(***************************************************************************)
EXTENDS Integers

CONSTANTS
  Networks,    \* names that the user types
  MaxDoubling  \* backoff_min_ms doubled so often is backoff_max_ms

NoNetwork == "none"   \* the empty name
Statuses == {"down", "associated", "online", "refused"}   \* nev_wifi_status_t

VARIABLES
  saved,    \* NEV_SET_WIFI_SSID; and password: NEV_SET_WIFI_PASS is this network's
  editing,  \* the second setting the app has yet to write, or NoNetwork
  notice,   \* a STORAGE_SETTING_CHANGED waits in s_sub
  core,     \* nev_net_core_t; backoff: 0, or 1 and the doublings since
  last,     \* s_last_status
  radio,    \* the board: the network it was told to join, and its status
  shown,    \* the last of NET_WIFI_UP and NET_WIFI_DOWN published was UP
  address   \* history: an address was seen, and the radio not down or refused since

vars == <<saved, editing, notice, core, last, radio, shown, address>>

HaveCredentials == saved.ssid # NoNetwork

\* net_service_init on a device with or without a network saved.
Init ==
  \E n \in Networks \union {NoNetwork} :
    /\ saved = [ssid |-> n, pass |-> n]
    /\ editing = NoNetwork
    /\ notice = FALSE
    /\ core = [state |-> IF n = NoNetwork THEN "idle" ELSE "connecting", backoff |-> 0,
               have |-> n # NoNetwork]
    /\ last = "down"
    /\ radio = [on |-> n, status |-> "down"]
    /\ shown = FALSE
    /\ address = FALSE

-----------------------------------------------------------------------------
(* The settings, on nev_ui.  A value that is the one there already gives   *)
(* no notice.  The app writes the password first, then the name; either    *)
(* may be refused as too long, and then nothing more is written.  To       *)
(* forget writes both empty, the name first: the service asks only whether *)
(* there is a name, so what it does between the two writes is no different.*)

Write(ssid, pass) ==
  /\ saved' = [ssid |-> ssid, pass |-> pass]
  /\ notice' = (notice \/ saved' # saved)
  /\ UNCHANGED <<core, last, radio, shown, address>>

Save(n) ==
  /\ editing = NoNetwork
  /\ editing' = n
  /\ Write(saved.ssid, n)

\* The name that was typed, which may be none; or one too long.
SaveName ==
  /\ editing # NoNetwork
  /\ editing' = NoNetwork
  /\ \E n \in {editing, NoNetwork, saved.ssid} : Write(n, saved.pass)

Forget ==
  /\ editing = NoNetwork
  /\ Write(NoNetwork, NoNetwork)
  /\ UNCHANGED editing

\* nev_store_factory_reset tells of every setting, whether or not it changed.
FactoryReset ==
  /\ editing = NoNetwork
  /\ saved' = [ssid |-> NoNetwork, pass |-> NoNetwork]
  /\ notice' = TRUE
  /\ UNCHANGED <<editing, core, last, radio, shown, address>>

\* Any other setting is changed, by any of the apps.
OtherSetting ==
  /\ notice' = TRUE
  /\ UNCHANGED <<saved, editing, core, last, radio, shown, address>>

-----------------------------------------------------------------------------
(* What the core's actions do, and what it may be told.                    *)

Enter(state, backoff) == core' = [core EXCEPT !.state = state, !.backoff = backoff]
DoNothing == UNCHANGED <<radio, shown>>
DoConnect == radio' = [radio EXCEPT !.on = saved.ssid] /\ UNCHANGED shown
DoDisconnect == radio' = [radio EXCEPT !.on = NoNetwork] /\ UNCHANGED shown
DoUp == shown' = TRUE /\ UNCHANGED radio
DoDown == shown' = FALSE /\ UNCHANGED radio

\* fail(): a wait twice as long as the last, and DOWN only when something was up.
Longer == IF core.backoff < MaxDoubling + 1 THEN core.backoff + 1 ELSE core.backoff
Fail ==
  /\ Enter("backoff", Longer)
  /\ IF core.state = "online" THEN DoDown ELSE DoNothing

\* The credentials are gone: DOWN when online, and the radio is left as it is.
Forgotten ==
  /\ core' = [core EXCEPT !.state = "idle", !.have = FALSE]
  /\ IF core.state = "online" THEN DoDown ELSE DoDisconnect

\* nev_net_core_credentials keeps whether there are any; new ones matter only to an
\* idle core.
Credentials ==
  \/ ~HaveCredentials /\ Forgotten
  \/ /\ HaveCredentials /\ core.state = "idle"
     /\ core' = [state |-> "connecting", backoff |-> 0, have |-> TRUE]
     /\ DoConnect
  \/ /\ HaveCredentials /\ core.state # "idle"
     /\ core' = [core EXCEPT !.have = TRUE]
     /\ DoNothing

\* The status has changed: associated, got_address and lost.
Associated ==
  /\ radio.status = "associated"
  /\ IF core.state = "connecting" THEN Enter("waiting", core.backoff) ELSE UNCHANGED core
  /\ DoNothing

GotAddress ==
  /\ radio.status = "online"
  /\ IF core.state = "online" THEN UNCHANGED core /\ DoNothing ELSE Enter("online", 0) /\ DoUp

Lost ==
  /\ radio.status \in {"down", "refused"}
  /\ IF core.state = "idle" THEN UNCHANGED core /\ DoNothing ELSE Fail

-----------------------------------------------------------------------------
(* net_service_tick, in its order: the settings, the radio, the core.      *)

TickSettings ==
  /\ notice
  /\ notice' = FALSE
  /\ Credentials
  /\ UNCHANGED <<saved, editing, last, address>>

TickRadio ==
  /\ radio.status # last
  /\ last' = radio.status
  /\ address' = (radio.status = "online" \/ (address /\ radio.status = "associated"))
  /\ Associated \/ GotAddress \/ Lost
  /\ UNCHANGED <<saved, editing, notice>>

\* nev_net_core_tick: a wait for the radio or for an address is over, or the
\* backoff is; then the credentials that the core last heard of decide, and those that
\* are saved now are what the radio is given.
TickCore ==
  /\ \/ core.state \in {"connecting", "waiting"} /\ Fail
     \/ core.state = "backoff" /\ ~core.have /\ Enter("idle", core.backoff) /\ DoNothing
     \/ core.state = "backoff" /\ core.have /\ Enter("connecting", core.backoff) /\ DoConnect
  /\ UNCHANGED <<saved, editing, notice, last, address>>

\* The radio reports whatever it likes: the access point may take the address back and
\* keep the association, and a board without a radio refuses from the start.
RadioMoves ==
  /\ \E s \in Statuses : radio' = [radio EXCEPT !.status = s]
  /\ UNCHANGED <<saved, editing, notice, core, last, shown, address>>

Next ==
  \/ \E n \in Networks : Save(n)
  \/ SaveName
  \/ Forget
  \/ FactoryReset
  \/ OtherSetting
  \/ TickSettings
  \/ TickRadio
  \/ TickCore
  \/ RadioMoves

-----------------------------------------------------------------------------

States == {"idle", "connecting", "waiting", "online", "backoff"}
Names == Networks \union {NoNetwork}

TypeOK ==
  /\ saved \in [ssid : Names, pass : Names]
  /\ editing \in Names
  /\ notice \in BOOLEAN
  /\ core \in [state : States, backoff : 0..(MaxDoubling + 1), have : BOOLEAN]
  /\ last \in Statuses
  /\ radio \in [on : Names, status : Statuses]
  /\ shown \in BOOLEAN /\ address \in BOOLEAN

\* UP and DOWN alternate on the bus, and the last of them says whether the core
\* is online, however it came to be (net_core.c: "DOWN only when something was up").
ShownIsOnline == shown = (core.state = "online")

\* The core is online only since a look found the radio with an address, and none has
\* found it down or refused since: a network that associates and hands out nothing never
\* counts.  An address taken back from a radio that stays associated goes unnoticed.
OnlineHasAddress ==
  /\ core.state = "online" => address
  /\ core.state = "waiting" => last = "associated"

\* A core that waits to retry has failed, and one that got through starts afresh.
BackoffIsEarned ==
  /\ core.state = "backoff" => core.backoff > 0
  /\ core.state = "online" => core.backoff = 0

\* A network saved is not left lying, though the core goes by what it last heard: while
\* that is wrong the notice is still to be read, and an idle core has heard of none.
SavedIsTried ==
  /\ core.have # HaveCredentials => notice
  /\ core.state = "idle" => ~core.have

\* The Wi-Fi core and what the rest of the device is told of it.
WifiAgrees == ShownIsOnline /\ OnlineHasAddress /\ BackoffIsEarned /\ SavedIsTried
=============================================================================
