-------------------------- MODULE SystemProxyProofs --------------------------
(***************************************************************************)
(* What the marker file of SystemProxy guarantees when the four values of  *)
(* a settings record are written all or none, and the user edits only the  *)
(* two values restore_plan compares.  The run proxy_torn shows that the    *)
(* first assumption cannot be dropped; nor can the second.                 *)
(***************************************************************************)
EXTENDS SystemProxy, TLAPS

\* Settings that name a mixed port differ from what apply writes at most in
\* ProxyEnable, so that the two values restore_plan compares tell everything.
OursIsComplete(s) == s.server \in Ports => s.bypass = OurBypass /\ s.pac = NoPac

\* A marker that would be restored holds what the user wants.
MarkerIsCurrent ==
    Readable => /\ OursIsComplete(marker.previous)
                /\ RestorePlanned => marker.previous = wanted

\* What holds between the steps of recover and of apply.
StepsAreSafe ==
    /\ phase = "put" => /\ Readable /\ marker.previous = wanted
                        /\ written \in {0, FieldCount}
                        /\ written = FieldCount => reg = wanted
    /\ phase = "drop" => reg = wanted
    /\ phase = "save" => marker = NoMarker
    /\ phase = "write" => /\ Readable /\ marker.previous = wanted
                          /\ marker.server = port
                          /\ written \in {0, FieldCount}
                          /\ written = FieldCount => reg = Applied(port)
    /\ phase = "on" => Readable /\ marker.server = port
    /\ published => phase = "on"

\* The inductive invariant.
Restorable ==
    /\ TypeOK
    /\ OursIsComplete(reg)
    /\ SettingsAreRestorable
    /\ MarkerIsCurrent
    /\ StepsAreSafe

\* What apply writes is a settings record.
LEMMA AppliedType == \A p \in Ports : Applied(p) \in Settings
BY DEF Applied, Settings

\* The marker apply writes is one that recover can read.
LEMMA SavedMarkerReadable ==
    ASSUME NEW s \in Settings, NEW p \in Ports
    PROVE  /\ [previous |-> s, server |-> p] \in Markers
           /\ [previous |-> s, server |-> p] \notin {NoMarker, JunkMarker}
BY MarkersAssumption DEF Markers

\* Two settings records with the same four values are equal.
LEMMA SettingsEqual ==
    ASSUME NEW s \in Settings, NEW t \in Settings,
           s.enable = t.enable, s.server = t.server,
           s.bypass = t.bypass, s.pac = t.pac
    PROVE  s = t
BY DEF Settings

\* Settings that restore_plan recognises are exactly what apply wrote.
LEMMA PlannedIsApplied ==
    ASSUME NEW s \in Settings, NEW p \in Ports, OursIsComplete(s)
    PROVE  s.enable = 1 /\ s.server = p <=> s = Applied(p)
<1>1. ASSUME s.enable = 1, s.server = p PROVE s = Applied(p)
  <2>1. s.bypass = OurBypass /\ s.pac = NoPac /\ Applied(p) \in Settings
    BY <1>1, AppliedType DEF OursIsComplete
  <2> QED
    BY <1>1, <2>1, SettingsEqual DEF Applied
<1>2. ASSUME s = Applied(p) PROVE s.enable = 1 /\ s.server = p
  BY <1>2 DEF Applied
<1> QED
  BY <1>1, <1>2

\* The user's settings, no marker and nothing under way.
LEMMA InitRestorable == Init => Restorable
<1> SUFFICES ASSUME Init PROVE Restorable
  OBVIOUS
<1>1. reg \in Settings /\ reg.server \notin Ports
  BY SettingsAssumption DEF Init
<1>2. TypeOK
  <2>1. written \in 0..FieldCount
    BY DEF Init, FieldCount
  <2>2. mihomo \in BOOLEAN /\ published \in BOOLEAN
    BY DEF Init
  <2> QED
    BY <1>1, <2>1, <2>2 DEF Init, TypeOK
<1>3. ~Readable /\ reg = wanted /\ phase = "dead" /\ ~published
  BY DEF Init, Readable
<1> QED
  BY <1>1, <1>2, <1>3 DEF Restorable, OursIsComplete, SettingsAreRestorable,
     MarkerIsCurrent, StepsAreSafe

\* recover's return to its caller only moves the daemon to a phase that asks
\* for nothing, or, after a success, to "save".
LEMMA ReturnPhase ==
    ASSUME TypeOK, NEW ok \in BOOLEAN, Return(ok)
    PROVE  /\ phase' \in {"off", "save"} /\ (phase' = "save" => ok)
           /\ why' = why /\ mihomo' \in BOOLEAN
BY DEF TypeOK, Return, Goto, StopMihomo

\* Every step, with whole writes and edits of the two compared values only.
LEMMA NextRestorable ==
    ASSUME ~TornWrites, EditedFields \subseteq {"enable", "server"},
           Restorable, [Next]_vars
    PROVE  Restorable'
<1> USE DEF Restorable
<1>0. CASE UNCHANGED vars
  BY <1>0 DEF vars, TypeOK, OursIsComplete, SettingsAreRestorable,
     MarkerIsCurrent, StepsAreSafe, Readable, RestorePlanned
<1>1. CASE DaemonStart
  BY <1>1 DEF DaemonStart, TypeOK, OursIsComplete, SettingsAreRestorable,
     MarkerIsCurrent, StepsAreSafe, Readable, RestorePlanned
<1>2. CASE Look
  <2>1. UNCHANGED <<reg, wanted, marker, port, published>> /\ written' = 0
    BY <1>2 DEF Look
  <2>2. TypeOK'
    <3>1. phase' \in {"off", "save", "put", "drop"} /\ why' = why
          /\ mihomo' \in BOOLEAN
      BY <1>2, ReturnPhase DEF Look, Goto, TypeOK
    <3>2. written' \in 0..FieldCount
      BY <2>1 DEF FieldCount
    <3> QED
      BY <2>1, <3>1, <3>2 DEF TypeOK
  <2>3. StepsAreSafe'
    <3>1. CASE phase' = "put"
      <4>1. Readable /\ RestorePlanned
        BY <1>2, <3>1, ReturnPhase DEF Look, Goto
      <4> QED
        BY <1>2, <2>1, <3>1, <4>1 DEF Look, StepsAreSafe, MarkerIsCurrent, Readable, FieldCount
    <3>2. CASE phase' = "drop"
      <4>1. ~Readable \/ ~RestorePlanned
        BY <1>2, <3>2, ReturnPhase DEF Look, Goto, Readable
      <4>2. Readable => marker.server \in Ports
        BY DEF TypeOK, Readable, Markers
      <4>3. reg = wanted
        BY <4>1, <4>2, PlannedIsApplied
        DEF SettingsAreRestorable, RestorePlanned, TypeOK
      <4> QED
        BY <1>2, <2>1, <3>2, <4>3 DEF Look, StepsAreSafe
    <3>3. CASE phase' \notin {"put", "drop"}
      <4>1. phase' \in {"off", "save"} /\ (phase' = "save" => marker = NoMarker)
        BY <1>2, <3>3, ReturnPhase DEF Look, Goto
      <4> QED
        BY <1>2, <2>1, <4>1 DEF Look, StepsAreSafe
    <3> QED
      BY <3>1, <3>2, <3>3
  <2> QED
    BY <2>1, <2>2, <2>3 DEF OursIsComplete, SettingsAreRestorable,
       MarkerIsCurrent, Readable, RestorePlanned
<1>3. CASE Put
  <2>1. UNCHANGED <<wanted, marker, port, published>> /\ phase = "put" /\ Readable
        /\ marker.previous = wanted
    BY <1>3 DEF Put, StepsAreSafe
  <2>2. CASE written < FieldCount /\ WriteNext(marker.previous)
             /\ UNCHANGED <<phase, why, mihomo>>
    <3>1. reg' = wanted /\ written' = FieldCount
      BY <2>1, <2>2 DEF WriteNext
    <3>2. TypeOK'
      BY <2>1, <2>2, <3>1 DEF TypeOK, FieldCount
    <3>3. OursIsComplete(reg)' /\ MarkerIsCurrent'
      BY <2>1, <3>1 DEF OursIsComplete, MarkerIsCurrent, Readable
    <3> QED
      BY <2>1, <2>2, <3>1, <3>2, <3>3
      DEF SettingsAreRestorable, StepsAreSafe, Readable, FieldCount
  <2>3. CASE Return(FALSE) /\ UNCHANGED <<reg, written>>
    <3>1. phase' = "off" /\ TypeOK'
      BY <2>1, <2>3, ReturnPhase DEF TypeOK
    <3> QED
      BY <2>1, <2>3, <3>1 DEF OursIsComplete, SettingsAreRestorable,
         MarkerIsCurrent, StepsAreSafe, Readable, RestorePlanned
  <2>4. CASE written = FieldCount /\ Goto("drop") /\ UNCHANGED <<reg, written, mihomo>>
    <3>1. phase' = "drop" /\ TypeOK' /\ reg = wanted
      BY <2>1, <2>4 DEF TypeOK, Goto, StepsAreSafe
    <3> QED
      BY <2>1, <2>4, <3>1 DEF OursIsComplete, SettingsAreRestorable,
         MarkerIsCurrent, StepsAreSafe, Readable, RestorePlanned
  <2> QED
    BY <1>3, <2>2, <2>3, <2>4 DEF Put
<1>4. CASE DropMarker
  <2>1. UNCHANGED <<reg, wanted, written, port, published>> /\ reg = wanted
        /\ phase = "drop"
    BY <1>4 DEF DropMarker, StepsAreSafe
  <2>2. /\ phase' \in {"off", "save"} /\ (phase' = "save" => marker' = NoMarker)
        /\ marker' \in {marker, NoMarker} /\ why' = why /\ mihomo' \in BOOLEAN
    BY <1>4, ReturnPhase DEF DropMarker
  <2>3. TypeOK'
    BY <2>1, <2>2 DEF TypeOK
  <2> QED
    BY <2>1, <2>2, <2>3 DEF OursIsComplete, SettingsAreRestorable,
       MarkerIsCurrent, StepsAreSafe, Readable, RestorePlanned
<1>5. CASE Connect
  BY <1>5 DEF Connect, TypeOK, OursIsComplete, SettingsAreRestorable,
     MarkerIsCurrent, StepsAreSafe, Readable, RestorePlanned
<1>6. CASE SaveMarker
  <2>1. UNCHANGED <<reg, wanted, port, published>> /\ written' = 0 /\ phase = "save"
        /\ marker = NoMarker /\ reg = wanted /\ ~published
    BY <1>6 DEF SaveMarker, StepsAreSafe, SettingsAreRestorable, Readable
  <2>2. CASE marker' = [previous |-> reg, server |-> port] /\ Goto("write") /\ UNCHANGED mihomo
    <3>1. marker' \in Markers /\ Readable' /\ marker'.previous = reg /\ marker'.server = port
      BY <2>2, SavedMarkerReadable DEF TypeOK, Readable
    <3>2. TypeOK'
      BY <2>1, <2>2, <3>1 DEF TypeOK, Goto, FieldCount
    <3>3. phase' = "write" /\ written' \in {0, FieldCount} /\ written' # FieldCount
      BY <2>1, <2>2 DEF Goto, FieldCount
    <3>4. StepsAreSafe'
      BY <2>1, <3>1, <3>3 DEF StepsAreSafe
    <3> QED
      BY <2>1, <3>1, <3>2, <3>4 DEF OursIsComplete, SettingsAreRestorable,
         MarkerIsCurrent
  <2>3. CASE UNCHANGED marker /\ StopMihomo
    <3>1. TypeOK'
      <4>1. written' \in 0..FieldCount
        BY <2>1 DEF FieldCount
      <4>2. mihomo' \in BOOLEAN
        BY <2>3 DEF StopMihomo
      <4> QED
        BY <2>1, <2>3, <4>1, <4>2 DEF TypeOK, StopMihomo
    <3> QED
      BY <2>1, <2>3, <3>1 DEF StopMihomo, OursIsComplete, SettingsAreRestorable,
         MarkerIsCurrent, StepsAreSafe, Readable
  <2> QED
    BY <1>6, <2>2, <2>3 DEF SaveMarker
<1>7. CASE WriteSettings
  <2>1. UNCHANGED <<wanted, marker, port, mihomo>> /\ phase = "write" /\ Readable
        /\ marker.previous = wanted /\ marker.server = port /\ ~published
    BY <1>7 DEF WriteSettings, StepsAreSafe
  <2>2. CASE WriteNext(Applied(port)) /\ UNCHANGED <<phase, why, published>>
    <3>1. reg' = Applied(port) /\ written' = FieldCount
      BY <2>2 DEF WriteNext
    <3>2. TypeOK'
      BY <2>1, <2>2, <3>1, AppliedType DEF TypeOK, FieldCount
    <3>3. OursIsComplete(reg)'
      BY <3>1 DEF OursIsComplete, Applied
    <3> QED
      BY <2>1, <2>2, <3>1, <3>2, <3>3 DEF SettingsAreRestorable,
         MarkerIsCurrent, StepsAreSafe, Readable, FieldCount, Applied
  <2>3. CASE phase' = "look" /\ why' = "undo" /\ UNCHANGED <<reg, written, published>>
    <3>1. TypeOK'
      BY <2>1, <2>3 DEF TypeOK
    <3> QED
      BY <2>1, <2>3, <3>1 DEF OursIsComplete, SettingsAreRestorable,
         MarkerIsCurrent, StepsAreSafe, Readable, RestorePlanned
  <2>4. CASE Goto("on") /\ published' = TRUE /\ UNCHANGED <<reg, written>>
    <3>1. TypeOK'
      BY <2>1, <2>4 DEF TypeOK, Goto
    <3> QED
      BY <2>1, <2>4, <3>1 DEF Goto, OursIsComplete, SettingsAreRestorable,
         MarkerIsCurrent, StepsAreSafe, Readable, RestorePlanned
  <2> QED
    BY <1>7, <2>2, <2>3, <2>4 DEF WriteSettings
<1>8. CASE Disconnect
  BY <1>8 DEF Disconnect, TypeOK, OursIsComplete, SettingsAreRestorable,
     MarkerIsCurrent, StepsAreSafe, Readable, RestorePlanned
<1>9. CASE Crash
  BY <1>9 DEF Crash, TypeOK, OursIsComplete, SettingsAreRestorable,
     MarkerIsCurrent, StepsAreSafe, Readable, RestorePlanned
<1>10. CASE MihomoDies
  <2>1. TypeOK'
    BY <1>10 DEF MihomoDies, TypeOK
  <2> QED
    BY <1>10, <2>1 DEF MihomoDies, OursIsComplete, SettingsAreRestorable,
       MarkerIsCurrent, StepsAreSafe, Readable, RestorePlanned
<1>11. CASE UserEdits
  <2>1. /\ AtRest
        /\ UNCHANGED <<marker, phase, why, written, port, mihomo, published>>
    BY <1>11 DEF UserEdits
  <2>2. PICK f \in EditedFields, s \in UserSettings :
          /\ reg' = [reg EXCEPT ![f] = s[f]]
          /\ wanted' = IF Readable /\ reg' = Applied(marker.server)
                       THEN marker.previous ELSE reg'
    BY <1>11 DEF UserEdits
  <2>3. s \in Settings /\ s.server \notin Ports
    BY SettingsAssumption
  <2>4. reg' \in Settings /\ OursIsComplete(reg')
    <3>1. CASE f = "enable"
      BY <2>2, <2>3, <3>1 DEF TypeOK, Settings, OursIsComplete
    <3>2. CASE f = "server"
      BY <2>2, <2>3, <3>2 DEF TypeOK, Settings, OursIsComplete
    <3> QED
      BY <3>1, <3>2
  <2>5. Readable => marker \in Markers /\ marker.previous \in Settings
    BY DEF Readable, TypeOK, Markers
  <2>6. TypeOK'
    BY <2>1, <2>2, <2>4, <2>5 DEF TypeOK
  <2>7. SettingsAreRestorable'
    BY <2>1, <2>2 DEF SettingsAreRestorable, Readable
  <2>8. Readable' => (RestorePlanned' <=> reg' = Applied(marker'.server))
    <3>1. Readable' => marker'.server \in Ports
      BY <2>6 DEF TypeOK, Readable, Markers
    <3> QED
      BY <2>4, <3>1, PlannedIsApplied DEF RestorePlanned
  <2>9. MarkerIsCurrent'
    BY <2>1, <2>2, <2>8 DEF MarkerIsCurrent, Readable, OursIsComplete
  <2>10. StepsAreSafe'
    BY <2>1 DEF StepsAreSafe, AtRest, Readable
  <2> QED
    BY <2>4, <2>6, <2>7, <2>9, <2>10 DEF OursIsComplete
<1> QED
  BY <1>0, <1>1, <1>2, <1>3, <1>4, <1>5, <1>6, <1>7, <1>8, <1>9, <1>10, <1>11
  DEF Next

\* The inductive invariant holds always.
THEOREM AlwaysRestorable ==
    ASSUME ~TornWrites, EditedFields \subseteq {"enable", "server"}
    PROVE  Spec => []Restorable
<1>1. Init => Restorable
  BY InitRestorable
<1>2. Restorable /\ [Next]_vars => Restorable'
  BY NextRestorable
<1> QED
  BY <1>1, <1>2, PTL DEF Spec

\* The user's settings are in the registry, or MultiCore's are and the marker
\* brings the user's back: through every crash, failed operation and retry.
THEOREM SettingsNeverLost ==
    ASSUME ~TornWrites, EditedFields \subseteq {"enable", "server"}
    PROVE  Spec => []SettingsAreRestorable
<1>1. Restorable => SettingsAreRestorable
  BY DEF Restorable
<1> QED
  BY <1>1, AlwaysRestorable, PTL

\* The marker goes only once the user's settings are back.
THEOREM MarkerOutlivesSettings ==
    ASSUME ~TornWrites, EditedFields \subseteq {"enable", "server"}
    PROVE  Spec => MarkerDroppedWhenRestored
<1>1. Restorable' /\ [Next]_vars => [StepDropsRestored]_vars
  BY DEF Restorable, SettingsAreRestorable, StepDropsRestored, Readable
<1>2. Spec => []Restorable
  BY AlwaysRestorable
<1> QED
  BY <1>1, <1>2, PTL DEF Spec, MarkerDroppedWhenRestored

\* The published port is the applied one, with a marker to undo it.
THEOREM PublishedIsApplied ==
    ASSUME ~TornWrites, EditedFields \subseteq {"enable", "server"}
    PROVE  Spec => []PublishedWhileApplied
<1>1. Restorable => PublishedWhileApplied
  BY DEF Restorable, StepsAreSafe, PublishedWhileApplied, SettingsAreRestorable
<1> QED
  BY <1>1, AlwaysRestorable, PTL
=============================================================================
