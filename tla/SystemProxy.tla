------------------------------ MODULE SystemProxy ------------------------------
(***************************************************************************)
(* The system proxy of a TUN-off connection (system_proxy.rs, with the     *)
(* SystemProxyController of connection_mode.rs that drives it and the      *)
(* recovery at daemon start in main.rs).  The user's WinINet settings are  *)
(* saved in a marker file before they are replaced, and come back from it  *)
(* on disconnect, after a failed connect and after a crash.                *)
(*                                                                         *)
(* The daemon may die between any two steps; every file and registry       *)
(* operation may fail.  A settings record is four registry values, written *)
(* one after the other.  Bound: the user edits the settings only between   *)
(* the daemon's operations, not in the middle of one.                      *)
(***************************************************************************)
EXTENDS Integers, Sequences

CONSTANTS
    UserSettings,  \* settings a user may have: records of the four values
    Ports,         \* the ProxyServer values "127.0.0.1:<mixed port>"
    OurBypass,     \* PROXY_OVERRIDE
    NoPac,         \* no AutoConfigURL
    NoMarker,      \* there is no marker file
    JunkMarker,    \* a marker file that cannot be parsed
    TornWrites,    \* FALSE: the four values of a record are written all or
                   \* none; TRUE: a failure or a crash may come in between
    EditedFields   \* the values the user edits while MultiCore runs

Fields == {"enable", "server", "bypass", "pac"}
WriteOrder == <<"enable", "server", "bypass", "pac">>
FieldCount == 4

\* ProxySettings.  An absent ProxyEnable is 0: both mean that the proxy is off.
Values(f) == {s[f] : s \in UserSettings}
Settings == [enable : {0, 1},
             server : Values("server") \cup Ports,
             bypass : Values("bypass") \cup {OurBypass},
             pac : Values("pac") \cup {NoPac}]

\* ProxyMarker.
Markers == [previous : Settings, server : Ports]

ASSUME SettingsAssumption ==
    \A s \in UserSettings : s \in Settings /\ s.server \notin Ports
ASSUME MarkersAssumption ==
    NoMarker # JunkMarker /\ {NoMarker, JunkMarker} \cap Markers = {}
ASSUME FaultsAssumption == TornWrites \in BOOLEAN /\ EditedFields \subseteq Fields

VARIABLES
    reg,       \* the four values in the registry
    wanted,    \* the user's own settings: what must come back in the end
    marker,    \* system-proxy.json
    phase,     \* what the daemon does: "dead", "off" or "on" (at rest), or a
               \* step of recover ("look", "put", "drop") or of apply
               \* ("save", "write")
    why,       \* who called recover: "start", "apply", "undo" or "restore"
    written,   \* how many of the four values are written
    port,      \* the mixed port of this connection
    mihomo,    \* Mihomo runs
    published  \* TunnelProxy names the mixed port

vars == <<reg, wanted, marker, phase, why, written, port, mihomo, published>>

\* ProxySettings::applied.
Applied(p) == [enable |-> 1, server |-> p, bypass |-> OurBypass, pac |-> NoPac]

Readable == marker \notin {NoMarker, JunkMarker}

AtRest == phase \in {"dead", "off", "on"}

Init ==
    /\ reg \in UserSettings
    /\ wanted = reg
    /\ marker \in {NoMarker, JunkMarker}
    /\ phase = "dead"
    /\ why = "start"
    /\ written = 0
    /\ port \in Ports
    /\ mihomo = FALSE
    /\ published = FALSE
-----------------------------------------------------------------------------
(***************************************************************************)
(* recover.                                                                *)
(***************************************************************************)

Goto(p) == phase' = p /\ UNCHANGED why

\* Mihomo is stopped: after a failed apply, and after restore whatever came of
\* it.
StopMihomo == phase' = "off" /\ mihomo' = FALSE /\ UNCHANGED why

\* recover returns to its caller: apply goes on only if it succeeded, the
\* other three ignore the result.
Return(ok) ==
    \/ why = "start" /\ Goto("off") /\ UNCHANGED mihomo
    \/ why = "apply" /\ ok /\ Goto("save") /\ UNCHANGED mihomo
    \/ why = "apply" /\ ~ok /\ StopMihomo
    \/ why \in {"undo", "restore"} /\ StopMihomo

\* Mutant: the proxy counts as unchanged as long as it is switched on.
RestoreIfEnabled == reg.enable = 1

\* restore_plan: the proxy is still on and still ours.
RestorePlanned == reg.enable = 1 /\ reg.server = marker.server

\* recover reads the marker and the settings and decides.
Look ==
    /\ phase = "look"
    /\ written' = 0
    /\ \/ marker = NoMarker /\ Return(TRUE)
       \/ marker # NoMarker /\ Return(FALSE)
       \/ marker = JunkMarker /\ Goto("drop") /\ UNCHANGED mihomo
       \/ Readable /\ ~RestorePlanned /\ Goto("drop") /\ UNCHANGED mihomo
       \/ Readable /\ RestorePlanned /\ Goto("put") /\ UNCHANGED mihomo
    /\ UNCHANGED <<reg, wanted, marker, port, published>>

\* WinInetSettings::write: the next value, or all of them, of the record s.
WriteNext(s) ==
    IF TornWrites
    THEN LET f == WriteOrder[written + 1]
         IN  /\ reg' = [reg EXCEPT ![f] = s[f]]
             /\ written' = written + 1
    ELSE reg' = s /\ written' = FieldCount

\* recover writes the user's settings back and tells the applications.
Put ==
    /\ phase = "put"
    /\ \/ /\ written < FieldCount
          /\ WriteNext(marker.previous)
          /\ UNCHANGED <<phase, why, mihomo>>
       \/ /\ written < FieldCount
          /\ Return(FALSE)
          /\ UNCHANGED <<reg, written>>
       \/ /\ written = FieldCount
          /\ Goto("drop")
          /\ UNCHANGED <<reg, written, mihomo>>
    /\ UNCHANGED <<wanted, marker, port, published>>

\* recover removes the marker.
DropMarker ==
    /\ phase = "drop"
    /\ \/ marker' = NoMarker /\ Return(TRUE)
       \/ UNCHANGED marker /\ Return(FALSE)
    /\ UNCHANGED <<reg, wanted, written, port, published>>
-----------------------------------------------------------------------------
(***************************************************************************)
(* apply and restore, called by SystemProxyController.                     *)
(***************************************************************************)

\* The daemon starts and recovers what a crash left.
DaemonStart ==
    /\ phase = "dead"
    /\ phase' = "look"
    /\ why' = "start"
    /\ UNCHANGED <<reg, wanted, marker, written, port, mihomo, published>>

\* Mutant: apply saves the settings without recovering first.
ConnectWithoutRecovery ==
    /\ phase = "off"
    /\ phase' = "save"
    /\ why' = "apply"
    /\ port' \in Ports
    /\ mihomo' = TRUE
    /\ UNCHANGED <<reg, wanted, marker, written, published>>

\* start(Mihomo): once Mihomo is ready, apply recovers first.  A Mihomo that
\* does not start changes nothing.
Connect ==
    /\ phase = "off"
    /\ phase' = "look"
    /\ why' = "apply"
    /\ port' \in Ports
    /\ mihomo' = TRUE
    /\ UNCHANGED <<reg, wanted, marker, written, published>>

\* apply saves what it is about to replace (temporary file, then a rename).
SaveMarker ==
    /\ phase = "save"
    /\ \/ marker' = [previous |-> reg, server |-> port] /\ Goto("write") /\ UNCHANGED mihomo
       \/ UNCHANGED marker /\ StopMihomo
    /\ written' = 0
    /\ UNCHANGED <<reg, wanted, port, published>>

\* apply writes its settings.  A failed write is undone through the marker; a
\* complete one is announced and the mixed port published.
WriteSettings ==
    /\ phase = "write"
    /\ \/ /\ written < FieldCount
          /\ WriteNext(Applied(port))
          /\ UNCHANGED <<phase, why, published>>
       \/ /\ written < FieldCount
          /\ phase' = "look"
          /\ why' = "undo"
          /\ UNCHANGED <<reg, written, published>>
       \/ /\ written = FieldCount
          /\ Goto("on")
          /\ published' = TRUE
          /\ UNCHANGED <<reg, written>>
    /\ UNCHANGED <<wanted, marker, port, mihomo>>

\* Mutant: the mixed port stays published.
DisconnectPublished ==
    /\ phase = "on"
    /\ phase' = "look"
    /\ why' = "restore"
    /\ UNCHANGED <<reg, wanted, marker, written, port, mihomo, published>>

\* stop(Mihomo): restore, then Mihomo stops.
Disconnect ==
    /\ phase = "on"
    /\ phase' = "look"
    /\ why' = "restore"
    /\ published' = FALSE
    /\ UNCHANGED <<reg, wanted, marker, written, port, mihomo>>
-----------------------------------------------------------------------------
(***************************************************************************)
(* The rest of the world.                                                  *)
(***************************************************************************)

\* The daemon dies, and with it its cores.
Crash ==
    /\ phase # "dead"
    /\ phase' = "dead"
    /\ mihomo' = FALSE
    /\ published' = FALSE
    /\ UNCHANGED <<reg, wanted, marker, why, written, port>>

\* Mihomo ends by itself; the daemon notices and disconnects.
MihomoDies ==
    /\ mihomo
    /\ mihomo' = FALSE
    /\ UNCHANGED <<reg, wanted, marker, phase, why, written, port, published>>

\* The user changes one value in the Windows settings.  From now on the result
\* is what the user wants, unless it is again exactly what MultiCore applied.
UserEdits ==
    /\ AtRest
    /\ \E f \in EditedFields, s \in UserSettings :
          /\ reg[f] # s[f]
          /\ reg' = [reg EXCEPT ![f] = s[f]]
          /\ wanted' = IF Readable /\ reg' = Applied(marker.server)
                       THEN marker.previous ELSE reg'
    /\ UNCHANGED <<marker, phase, why, written, port, mihomo, published>>

Next ==
    \/ DaemonStart
    \/ Look
    \/ Put
    \/ DropMarker
    \/ Connect
    \/ SaveMarker
    \/ WriteSettings
    \/ Disconnect
    \/ Crash
    \/ MihomoDies
    \/ UserEdits

Spec == Init /\ [][Next]_vars
-----------------------------------------------------------------------------
(***************************************************************************)
(* Properties.                                                             *)
(***************************************************************************)

\* Types.
TypeOK ==
    /\ reg \in Settings
    /\ wanted \in Settings
    /\ marker \in Markers \cup {NoMarker, JunkMarker}
    /\ phase \in {"dead", "off", "on", "look", "put", "drop", "save", "write"}
    /\ why \in {"start", "apply", "undo", "restore"}
    /\ written \in 0..FieldCount
    /\ port \in Ports
    /\ mihomo \in BOOLEAN
    /\ published \in BOOLEAN

\* The user's own settings are never lost: either they are in the registry,
\* or MultiCore's are and the marker holds the user's, so that the next
\* recover, after whatever crash, puts them back.
SettingsAreRestorable ==
    \/ reg = wanted
    \/ /\ Readable
       /\ marker.previous = wanted
       /\ reg = Applied(marker.server)

\* recover gives the marker up only once the user's settings are back (or the
\* user's change won): nothing of MultiCore's stays behind without a marker.
StepDropsRestored == Readable /\ marker' = NoMarker => reg' = wanted'
MarkerDroppedWhenRestored == [][StepDropsRestored]_vars

\* The mixed port is published for the daemon's own downloads only while the
\* connection is up and the marker is there to undo it, and the registry names
\* that port unless the user changed it.
PublishedWhileApplied ==
    published => /\ phase = "on"
                 /\ Readable /\ marker.server = port
                 /\ reg = Applied(port) \/ reg = wanted

\* "Partially written values are put back by the marker", and "they come back
\* ... on a failed connect, and - through recover at daemon start - after a
\* crash": a recovery that completes leaves the user's settings.
PartialWritesArePutBack ==
    [][phase = "drop" /\ marker' = NoMarker => reg = wanted]_vars
=============================================================================
