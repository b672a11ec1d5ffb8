-------------------------- MODULE BluetoothManager --------------------------
(***************************************************************************)
(* The Bluetooth page's model of BlueZ (aa/BluetoothManager.cpp).          *)
(*                                                                         *)
(* The manager keeps a copy of the adapter's properties and of the device  *)
(* list. It reads them one D-Bus call after the other, on the GUI thread,  *)
(* every three seconds and whenever a signal says that something changed;  *)
(* its setters write the copy without looking at the reply. BlueZ, other   *)
(* programs and the daemon's restarts change the original meanwhile, and a *)
(* signal may get lost. BlueZ may also call the pairing agent, which lives *)
(* on the same GUI thread as the blocking Connect().                       *)
(***************************************************************************)
EXTENDS Naturals, Sequences

CONSTANTS
    Devices,        \* Bluetooth devices
    Names,          \* adapter aliases
    SystemName,     \* BlueZ's own
    MaxEvents       \* bound: steps of the user and of the world outside

ASSUME ManagerAssumption == MaxEvents \in Nat /\ SystemName \in Names

VARIABLES
    up,             \* bluetoothd is on the bus
    adapter,        \* org.bluez.Adapter1 properties
    devs,           \* BlueZ's devices: absent, new, paired or connected
    mirror,         \* m_adapterName .. m_discovering
    shown,          \* what the page read at the last adapterInfoChanged
    devices,        \* m_devices
    gui,            \* the GUI thread: place, property to read, changed, and what follows
    refreshes,      \* queued signals: refreshAdapter, refreshDevices
    agentAsked,     \* BlueZ waits for the pairing agent
    events          \* bound counter

daemon == <<up, adapter, devs>>
page == <<mirror, shown, devices>>
managerVars == <<daemon, page, gui, refreshes, agentAsked, events>>

NoText == "none"
Absent == "absent"
Order == <<"Alias", "Discoverable", "Powered", "Discovering">>
Values(p) == IF p = "Alias" THEN Names ELSE BOOLEAN
Typed(p) == IF p = "Alias" THEN Names \cup {NoText} ELSE BOOLEAN    \* NoText: the empty text
Adapters == [Alias : Names, Discoverable : BOOLEAN, Powered : BOOLEAN, Discovering : BOOLEAN]
Unread == [Alias |-> NoText, Discoverable |-> FALSE, Powered |-> FALSE, Discovering |-> FALSE]
DeviceLists == [Devices -> {Absent, "new", "paired", "connected"}]
NoDevices == [d \in Devices |-> Absent]
Loop == [at |-> "loop", i |-> 1, changed |-> FALSE, next |-> "loop"]

ManagerTypeOK ==
    /\ up \in BOOLEAN /\ adapter \in Adapters /\ devs \in DeviceLists
    /\ {mirror, shown} \subseteq [Alias : Names \cup {NoText}, Discoverable : BOOLEAN,
                                  Powered : BOOLEAN, Discovering : BOOLEAN]
    /\ devices \in DeviceLists
    /\ gui \in [at : {"loop", "adapter", "valid", "objects", "connect"},
                i : 1 .. Len(Order) + 1, changed : BOOLEAN, next : {"loop", "valid"}]
    /\ refreshes \subseteq {"adapter", "devices"}
    /\ agentAsked \in BOOLEAN /\ events \in 0 .. MaxEvents

----------------------------------------------------------------------------
(* Refreshing. *)

RefreshAdapter(next) == gui' = [at |-> "adapter", i |-> 1, changed |-> FALSE, next |-> next]
RefreshDevices == gui' = [Loop EXCEPT !.at = "valid"]

\* The adapter is read first, then the devices, before the event loop runs.
ManagerInit ==
    /\ up \in BOOLEAN /\ adapter \in Adapters
    /\ devs \in [Devices -> {Absent, "paired"}]
    /\ mirror = Unread /\ shown = Unread /\ devices = NoDevices
    /\ gui = [at |-> "adapter", i |-> 1, changed |-> FALSE, next |-> "valid"]
    /\ refreshes = {} /\ agentAsked = FALSE /\ events = 0

\* getProperty: an empty QVariant, hence "" or false, when BlueZ is away.
Read(p) == IF up THEN adapter[p] ELSE Unread[p]

\* Mutant: only the last property read decides whether anything has changed.
ReadProperty_Last ==
    /\ gui.at = "adapter" /\ gui.i <= Len(Order)
    /\ LET p == Order[gui.i] IN
        /\ mirror' = [mirror EXCEPT ![p] = Read(p)]
        /\ gui' = [gui EXCEPT !.i = @ + 1, !.changed = Read(p) /= mirror[p]]
    /\ UNCHANGED <<daemon, shown, devices, refreshes, agentAsked, events>>

ReadProperty ==
    /\ gui.at = "adapter" /\ gui.i <= Len(Order)
    /\ LET p == Order[gui.i] IN
        /\ mirror' = [mirror EXCEPT ![p] = Read(p)]
        /\ gui' = [gui EXCEPT !.i = @ + 1, !.changed = @ \/ Read(p) /= mirror[p]]
    /\ UNCHANGED <<daemon, shown, devices, refreshes, agentAsked, events>>

AdapterRead ==
    /\ gui.at = "adapter" /\ gui.i = Len(Order) + 1
    /\ shown' = IF gui.changed THEN mirror ELSE shown
    /\ gui' = [Loop EXCEPT !.at = gui.next]
    /\ UNCHANGED <<daemon, mirror, devices, refreshes, agentAsked, events>>

\* objMgr.isValid(): a missing service clears the list.
CheckValid ==
    /\ gui.at = "valid"
    /\ IF up
       THEN gui' = [gui EXCEPT !.at = "objects"] /\ UNCHANGED devices
       ELSE gui' = Loop /\ devices' = NoDevices
    /\ UNCHANGED <<daemon, mirror, shown, refreshes, agentAsked, events>>

\* GetManagedObjects: an error reply leaves the list as it was.
ReadObjects ==
    /\ gui.at = "objects"
    /\ devices' = IF up THEN devs ELSE devices
    /\ gui' = Loop
    /\ UNCHANGED <<daemon, mirror, shown, refreshes, agentAsked, events>>

\* Mutant: the poll trusts the signals for the adapter.
Poll_DevicesOnly ==
    /\ gui.at = "loop"
    /\ RefreshDevices
    /\ UNCHANGED <<daemon, page, refreshes, agentAsked, events>>

Poll ==
    /\ gui.at = "loop"
    /\ RefreshAdapter("valid")
    /\ UNCHANGED <<daemon, page, refreshes, agentAsked, events>>

OnSignal ==
    /\ gui.at = "loop"
    /\ \E s \in refreshes :
        /\ refreshes' = refreshes \ {s}
        /\ IF s = "adapter" THEN RefreshAdapter("loop") ELSE RefreshDevices
    /\ UNCHANGED <<daemon, page, agentAsked, events>>

----------------------------------------------------------------------------
(* The user: every operation of the page that is open. *)

Count == events < MaxEvents /\ events' = events + 1
Signal(s) == refreshes' \in {refreshes, refreshes \cup {s}}

\* A call that changes a property: BlueZ replaces an empty alias by the name of
\* the system, and it may refuse (an rfkill block, no discovery to stop).
BluezSets(p, v) ==
    \/ /\ up
       /\ adapter' = [adapter EXCEPT ![p] = IF p = "Alias" /\ v = NoText THEN SystemName ELSE v]
       /\ Signal("adapter")
    \/ UNCHANGED <<adapter, refreshes>>

\* Nothing is sent to a missing service, and nobody looks at the reply.
SetAdapterProperty(p, v) == IF up THEN BluezSets(p, v) ELSE UNCHANGED <<adapter, refreshes>>

SetProperty(p) ==
    /\ Count /\ gui.at = "loop"
    /\ p /= "Powered" => shown.Powered
    /\ \E v \in Typed(p) :
        /\ v /= mirror[p]
        /\ SetAdapterProperty(p, v)
        /\ mirror' = [mirror EXCEPT ![p] = v]
        /\ shown' = [mirror EXCEPT ![p] = v]
    /\ UNCHANGED <<up, devs, devices, gui, agentAsked>>

Discover ==
    /\ Count /\ gui.at = "loop" /\ shown.Powered
    /\ IF up
       THEN BluezSets("Discovering", ~shown.Discovering) /\ RefreshAdapter("loop")
       ELSE UNCHANGED <<adapter, refreshes, gui>>
    /\ UNCHANGED <<up, devs, page, agentAsked>>

\* RemoveDevice and Disconnect answer at once, in one way or the other.
CallDevice(d, state) ==
    \/ up /\ devs[d] /= Absent /\ devs' = [devs EXCEPT ![d] = state] /\ Signal("devices")
    \/ UNCHANGED <<devs, refreshes>>

RemovePairing(d) ==
    /\ Count /\ gui.at = "loop" /\ devices[d] /= Absent
    /\ CallDevice(d, Absent)
    /\ RefreshDevices
    /\ UNCHANGED <<up, adapter, page, agentAsked>>

DisconnectDevice(d) ==
    /\ Count /\ gui.at = "loop" /\ devices[d] = "connected"
    /\ CallDevice(d, "paired")
    /\ RefreshDevices
    /\ UNCHANGED <<up, adapter, page, agentAsked>>

\* Connect blocks the GUI thread until BlueZ answers or Qt gives up.
ConnectDevice(d) ==
    /\ Count /\ gui.at = "loop" /\ devices[d] = "paired"
    /\ IF up THEN gui' = [Loop EXCEPT !.at = "connect"] ELSE RefreshDevices
    /\ UNCHANGED <<daemon, page, refreshes, agentAsked>>

\* BlueZ answers once it has its own answer from the agent.
ConnectReturns ==
    /\ gui.at = "connect" /\ ~agentAsked
    /\ \/ up /\ \E d \in Devices :
            devs[d] = "paired" /\ devs' = [devs EXCEPT ![d] = "connected"]
       \/ UNCHANGED devs
    /\ RefreshDevices
    /\ UNCHANGED <<up, adapter, page, refreshes, agentAsked, events>>

\* Mutant: a call that timed out is made again.
ConnectTimesOut_Retries == gui.at = "connect" /\ UNCHANGED managerVars

\* The 25 seconds of a D-Bus call.
ConnectTimesOut ==
    /\ gui.at = "connect"
    /\ RefreshDevices
    /\ UNCHANGED <<daemon, page, refreshes, agentAsked, events>>

----------------------------------------------------------------------------
(* The world outside: bluetoothd, other programs, the phones. *)

AgentAnswers ==
    /\ gui.at = "loop" /\ agentAsked
    /\ agentAsked' = FALSE
    /\ UNCHANGED <<daemon, page, gui, refreshes, events>>

AgentAsked ==
    /\ Count /\ up /\ ~agentAsked
    /\ agentAsked' = TRUE
    /\ UNCHANGED <<daemon, page, gui, refreshes>>

AdapterChanges ==
    /\ Count /\ up
    /\ \E p \in DOMAIN adapter : \E v \in Values(p) :
        v /= adapter[p] /\ adapter' = [adapter EXCEPT ![p] = v]
    /\ Signal("adapter")
    /\ UNCHANGED <<up, devs, page, gui, agentAsked>>

\* Only a device that comes or goes is announced to the manager.
DeviceChanges ==
    /\ Count /\ up
    /\ \E d \in Devices : \E s \in {Absent, "new", "paired", "connected"} \ {devs[d]} :
        /\ devs' = [devs EXCEPT ![d] = s]
        /\ IF Absent \in {s, devs[d]} THEN Signal("devices") ELSE UNCHANGED refreshes
    /\ UNCHANGED <<up, adapter, page, gui, agentAsked>>

Dies ==
    /\ Count /\ up
    /\ up' = FALSE /\ agentAsked' = FALSE
    /\ UNCHANGED <<adapter, devs, page, gui, refreshes>>

Restarts ==
    /\ Count /\ ~up
    /\ up' = TRUE
    /\ adapter' = [adapter EXCEPT !.Discovering = FALSE, !.Discoverable = FALSE]
    /\ devs' = [d \in Devices |-> IF devs[d] \in {"paired", "connected"} THEN "paired" ELSE Absent]
    /\ Signal("devices")
    /\ UNCHANGED <<page, gui, agentAsked>>

GuiStep == ReadProperty \/ AdapterRead \/ CheckValid \/ ReadObjects \/ ConnectTimesOut

ManagerNext ==
    \/ ReadProperty \/ AdapterRead \/ CheckValid \/ ReadObjects \/ Poll \/ OnSignal
    \/ \E p \in {"Alias", "Discoverable", "Powered"} : SetProperty(p)
    \/ Discover
    \/ \E d \in Devices : RemovePairing(d) \/ DisconnectDevice(d) \/ ConnectDevice(d)
    \/ ConnectReturns \/ ConnectTimesOut
    \/ AgentAnswers \/ AgentAsked \/ AdapterChanges \/ DeviceChanges \/ Dies \/ Restarts

\* The GUI thread runs, the poll timer is periodic, and a call that is queued for
\* the agent gets its turn: posted events are served before timers.
ManagerFairness == WF_managerVars(GuiStep) /\ WF_managerVars(Poll) /\ SF_managerVars(AgentAnswers)

ManagerSpec == ManagerInit /\ [][ManagerNext]_managerVars /\ ManagerFairness

----------------------------------------------------------------------------
(* Properties. *)

\* BlueZ as the page should show it.
Truth == IF up THEN adapter ELSE Unread
ListedDevices == IF up THEN devs ELSE NoDevices

\* Whenever the event loop runs, the page has read what the manager holds: of the
\* several properties that are read one by one and set by the user, none is
\* changed without adapterInfoChanged.
PageIsTold == gui.at /= "adapter" => shown = mirror

\* Whatever refusals, lost signals, restarts and half-finished reads there were,
\* the page settles on what BlueZ says.
MirrorConverges == <>[](shown = Truth /\ devices = ListedDevices)

\* BlueZ gets its answer from the pairing agent even when it asks while the GUI
\* thread waits for BlueZ in Connect().
AgentAnswered == agentAsked ~> ~agentAsked

(* The inductive invariant behind PageIsTold. *)

\* A reading that has found no change so far leaves the page right.
NothingHidden == ~gui.changed => shown = mirror

=============================================================================
