-------------------------- MODULE BluetoothService --------------------------
(***************************************************************************)
(* frontend/src/services/bluetooth.service.ts and the list that drives it, *)
(* components/bluetooth/BluetoothDeviceList.tsx: what the service believes  *)
(* of each device, what the list shows, and the GATT links of the browser.  *)
(*                                                                         *)
(* Calls of connectToDevice run side by side and may fail at every await.  *)
(* gatt.disconnect() returns nothing to wait for, so disconnectDevice is   *)
(* one step.  A value a device sends is decrypted and kept by every handler *)
(* its characteristic has.  The service does not subscribe to gattserverdisconnected: a  *)
(* link that the radio drops tells nobody.                                 *)
(***************************************************************************)
EXTENDS Naturals, Sequences

CONSTANTS Devices,
          Calls,    \* calls of connectToDevice
          Values,   \* what the devices send, each once
          MaxRows,  \* bound on the rows of the list
          MaxClock  \* bound on the clock

ASSUME BoundsAssumption == MaxRows \in Nat /\ MaxClock \in Nat

VARIABLES isInitialized, isScanning,  \* the service's flags
          entry,      \* connectedDevices: "absent", or connected "off" or "on"
          call,       \* the calls: their device and where they wait
          gatt,       \* external: device.gatt.connected
          listeners,  \* handlers added to the device's characteristic
          clock,      \* Date.now()
          runs,       \* handlers that are decrypting each value
          inbox,      \* what reached the chat store: an id, and the value
          chooser,    \* external: requestDevice's dialog is open
          mounted,    \* the list is on the page
          rows,       \* its devices
          uiScanning, \* its own isScanning
          dropped,    \* history: devices whose link the radio dropped since
                      \* they last connected or were last found
          abandoned,  \* history: devices found again while linked, or left
                      \* linked by a call that failed
          again,      \* history: devices found again, or asked to connect
                      \* again, while linked or connecting
          handled     \* history: the times at which each value was handled

serviceVars == <<isInitialized, isScanning, entry, call>>
radioVars == <<gatt, listeners, chooser>>
listVars == <<mounted, rows, uiScanning>>
historyVars == <<dropped, abandoned, again>>
inboxVars == <<clock, runs, inbox, handled>>
vars == <<serviceVars, radioVars, listVars, historyVars, inboxVars>>

Idle == [dev : {"none"}, phase : {"idle"}]
Phases == {"linking", "discovering", "notifying", "failing", "done"}

\* Calls for d that may still complete.
Live(d) == {c \in Calls : /\ call[c].dev = d
                          /\ call[c].phase \in {"linking", "discovering", "notifying"}}

Init ==
  /\ isInitialized = FALSE /\ isScanning = FALSE
  /\ entry = [d \in Devices |-> "absent"]
  /\ call \in [Calls -> Idle]
  /\ gatt = [d \in Devices |-> FALSE]
  /\ listeners = [d \in Devices |-> 0]
  /\ chooser = FALSE
  /\ mounted = FALSE /\ rows = <<>> /\ uiScanning = FALSE
  /\ dropped = {} /\ abandoned = {} /\ again = {}
  /\ clock = 0 /\ inbox = {}
  /\ runs = [v \in Values |-> 0]
  /\ handled = [v \in Values |-> {}]

-----------------------------------------------------------------------------
\* The handlers of device-connected and device-disconnected rewrite every row
\* of the device (lines 18, 24 of the list); the variant stops at the first.
RowsMarkedFirst(d, on) ==
  [i \in DOMAIN rows |->
    IF rows[i].id = d /\ \A j \in 1 .. i - 1 : rows[j].id # d
    THEN [id |-> d, on |-> on] ELSE rows[i]]
RowsMarked(d, on) ==
  [i \in DOMAIN rows |-> IF rows[i].id = d THEN [id |-> d, on |-> on] ELSE rows[i]]

\* The entry of a device that was just found (line 82), and without that line.
FoundUnrecorded(d) == entry
FoundEntry(d) == [entry EXCEPT ![d] = "off"]

\* isScanning after a dialog that found nothing (line 88), and without it.
StillScanning == TRUE
ScanReleased == FALSE

\* The entry after disconnectDevice (line 188), and without that line.
EntryKept(d) == entry
EntryOff(d) == [entry EXCEPT ![d] = "off"]

\* The devices whose link line 187 takes down, and without that call.
LinkKept(d) == {}
LinkDown(d) == {d}

\* The name of an incoming message (line 166), and one that is not renewed.
StampOnce == 0
Stamp == clock

Drop(lost, waiting) ==
  /\ gatt' = [d \in Devices |-> gatt[d] /\ d \notin lost]
  /\ listeners' = [d \in Devices |-> IF d \in lost THEN 0 ELSE listeners[d]]
  /\ call' = [c \in Calls |->
               IF call[c].dev \in lost /\ call[c].phase \in waiting
               THEN [call[c] EXCEPT !.phase = "failing"] ELSE call[c]]

-----------------------------------------------------------------------------
Initialize ==
  /\ ~isInitialized
  /\ isInitialized' = TRUE
  /\ UNCHANGED <<isScanning, entry, call, radioVars, listVars, historyVars>>

\* The list comes and goes with its page or panel; its state goes with it.
Mount ==
  /\ ~mounted
  /\ mounted' = TRUE
  /\ UNCHANGED <<serviceVars, radioVars, rows, uiScanning, historyVars>>

Unmount ==
  /\ mounted
  /\ mounted' = FALSE /\ rows' = <<>> /\ uiScanning' = FALSE
  /\ UNCHANGED <<serviceVars, radioVars, historyVars>>

\* The Scan button.  While the service is already scanning the call returns
\* at once and nothing changes.
ScanForDevices ==
  /\ mounted /\ isInitialized /\ ~uiScanning /\ Len(rows) < MaxRows
  /\ ~isScanning
  /\ isScanning' = TRUE /\ uiScanning' = TRUE /\ chooser' = TRUE
  /\ UNCHANGED <<isInitialized, entry, call, gatt, listeners, mounted, rows, historyVars>>

\* The user picks d, whether or not it is known already.
DeviceFound(d) ==
  /\ chooser
  /\ chooser' = FALSE /\ isScanning' = FALSE /\ uiScanning' = FALSE
  /\ entry' = FoundEntry(d)
  /\ rows' = IF mounted THEN Append(rows, [id |-> d, on |-> FALSE]) ELSE rows
  /\ dropped' = dropped \ {d}
  /\ abandoned' = IF gatt[d] THEN abandoned \cup {d} ELSE abandoned
  /\ again' = IF gatt[d] \/ Live(d) # {} THEN again \cup {d} ELSE again
  /\ UNCHANGED <<isInitialized, call, gatt, listeners, mounted>>

ScanFails ==
  /\ chooser
  /\ chooser' = FALSE /\ uiScanning' = FALSE
  /\ isScanning' = ScanReleased
  /\ UNCHANGED <<isInitialized, entry, call, gatt, listeners, mounted, rows, historyVars>>

\* The Connect button of a row, which stays enabled while a call runs.
ConnectToDevice(c, d) ==
  /\ call[c].phase = "idle"
  /\ mounted /\ \E i \in DOMAIN rows : rows[i] = [id |-> d, on |-> FALSE]
  /\ call' = [call EXCEPT ![c] = [dev |-> d, phase |-> "linking"]]
  /\ again' = IF Live(d) # {} THEN again \cup {d} ELSE again
  /\ UNCHANGED <<isInitialized, isScanning, entry, radioVars, listVars, dropped, abandoned>>

\* gatt.connect() resolves (line 104), at once if the link is up.
Linked(c) ==
  /\ call[c].phase = "linking"
  /\ call' = [call EXCEPT ![c].phase = "discovering"]
  /\ gatt' = [gatt EXCEPT ![call[c].dev] = TRUE]
  /\ UNCHANGED <<isInitialized, isScanning, entry, listeners, chooser, listVars, historyVars>>

\* The characteristic is there: the entry says connected, and so do the rows.
Discovered(c) ==
  /\ call[c].phase = "discovering"
  /\ call' = [call EXCEPT ![c].phase = "notifying"]
  /\ entry' = [entry EXCEPT ![call[c].dev] = "on"]
  /\ rows' = RowsMarked(call[c].dev, TRUE)
  /\ dropped' = dropped \ {call[c].dev}
  /\ UNCHANGED <<isInitialized, isScanning, radioVars, mounted, uiScanning, abandoned, again>>

Listening(c) ==
  /\ call[c].phase = "notifying"
  /\ call' = [call EXCEPT ![c].phase = "done"]
  /\ listeners' = [listeners EXCEPT ![call[c].dev] = @ + 1]
  /\ UNCHANGED <<isInitialized, isScanning, entry, gatt, chooser, listVars, historyVars>>

\* Any await throws: nothing is undone (lines 120-124).
ConnectFails(c) ==
  /\ call[c].phase \in {"linking", "discovering", "notifying", "failing"}
  /\ call' = [call EXCEPT ![c].phase = "done"]
  /\ abandoned' = IF gatt[call[c].dev] THEN abandoned \cup {call[c].dev} ELSE abandoned
  /\ UNCHANGED <<isInitialized, isScanning, entry, radioVars, listVars, dropped, again>>

\* The Disconnect button of a row.  Without a link it does nothing (line 186).
DisconnectDevice(d) ==
  /\ mounted /\ \E i \in DOMAIN rows : rows[i] = [id |-> d, on |-> TRUE]
  /\ gatt[d]
  /\ Drop(LinkDown(d), {"linking", "discovering", "notifying"})
  /\ entry' = EntryOff(d)
  /\ rows' = RowsMarked(d, FALSE)
  /\ abandoned' = abandoned \ {d}
  /\ UNCHANGED <<isInitialized, isScanning, chooser, mounted, uiScanning, dropped, again>>

\* The device goes out of range or is switched off.
RadioDrops(d) ==
  /\ gatt[d]
  /\ Drop({d}, {"discovering", "notifying"})
  /\ dropped' = dropped \cup {d}
  /\ abandoned' = abandoned \ {d}
  /\ UNCHANGED <<isInitialized, isScanning, entry, chooser, listVars, again>>

-----------------------------------------------------------------------------
\* A linked device sends a value: every handler starts to decrypt it.
ValueChanged(v, d) ==
  /\ runs[v] = 0 /\ handled[v] = {}
  /\ gatt[d] /\ listeners[d] > 0
  /\ runs' = [runs EXCEPT ![v] = listeners[d]]
  /\ UNCHANGED <<clock, inbox, handled>>

\* handleIncomingMessage after its await; addOfflineMessage drops a message
\* whose id is in the list.
HandleIncomingMessage(v) ==
  /\ runs[v] > 0
  /\ runs' = [runs EXCEPT ![v] = @ - 1]
  /\ inbox' = IF \E m \in inbox : m.id = Stamp THEN inbox
              ELSE inbox \cup {[id |-> Stamp, value |-> v]}
  /\ handled' = [handled EXCEPT ![v] = @ \cup {clock}]
  /\ UNCHANGED clock

\* It cannot be decrypted, and is forgotten (lines 179-181).
HandlingFails(v) ==
  /\ runs[v] > 0
  /\ runs' = [runs EXCEPT ![v] = @ - 1]
  /\ UNCHANGED <<clock, inbox, handled>>

Tick ==
  /\ clock < MaxClock
  /\ clock' = clock + 1
  /\ UNCHANGED <<runs, inbox, handled>>

Linking ==
  \/ Initialize \/ Mount \/ Unmount \/ ScanForDevices \/ ScanFails
  \/ \E d \in Devices : DeviceFound(d) \/ DisconnectDevice(d) \/ RadioDrops(d)
  \/ \E c \in Calls : \/ \E d \in Devices : ConnectToDevice(c, d)
                      \/ Linked(c) \/ Discovered(c) \/ Listening(c) \/ ConnectFails(c)

Receiving ==
  \/ \E v \in Values : \/ \E d \in Devices : ValueChanged(v, d)
                       \/ HandleIncomingMessage(v) \/ HandlingFails(v)
  \/ Tick

Next ==
  \/ Linking /\ UNCHANGED inboxVars
  \/ Receiving /\ UNCHANGED <<serviceVars, radioVars, listVars, historyVars>>

Spec == Init /\ [][Next]_vars

-----------------------------------------------------------------------------
\* Types; and whatever is shown, linked or connecting is a recorded device.
TypeOK ==
  /\ {isInitialized, isScanning, chooser, mounted, uiScanning} \subseteq BOOLEAN
  /\ entry \in [Devices -> {"absent", "off", "on"}]
  /\ call \in [Calls -> Idle \cup [dev : Devices, phase : Phases]]
  /\ gatt \in [Devices -> BOOLEAN]
  /\ listeners \in [Devices -> Nat]
  /\ rows \in Seq([id : Devices, on : BOOLEAN])
  /\ {dropped, abandoned, again} \subseteq SUBSET Devices
  /\ clock \in 0 .. MaxClock
  /\ runs \in [Values -> Nat]
  /\ inbox \subseteq [id : 0 .. MaxClock, value : Values]
  /\ handled \in [Values -> SUBSET (0 .. MaxClock)]
  /\ \A d \in Devices : entry[d] = "absent" =>
       ~gatt[d] /\ Live(d) = {} /\ \A i \in DOMAIN rows : rows[i].id # d

\* The newest row of a device shows what the service believes, whatever calls
\* overlap and whenever the list was mounted (bluetooth.service.ts:84, 111,
\* 190; BluetoothDeviceList.tsx:12-26).
NewestRowAgrees ==
  \A i \in DOMAIN rows :
    (\A j \in i + 1 .. Len(rows) : rows[j].id # rows[i].id)
      => (rows[i].on <=> entry[rows[i].id] = "on")

\* The service believes a device connected while it is not only if the radio
\* dropped it: no order of connects, failures, disconnects and scans does that
\* (bluetooth.service.ts:108, 188).
ConnectedUnlessDropped ==
  \A d \in Devices : entry[d] = "on" => gatt[d] \/ d \in dropped

\* A link the service does not show as connected belongs to a call that is
\* still running, was left by one that failed, or was found again by a scan
\* (bluetooth.service.ts:82, 104-109, 186-188).
LinkedIsAccounted ==
  \A d \in Devices :
    gatt[d] => entry[d] = "on" \/ Live(d) # {} \/ d \in abandoned

\* An incoming value is handled once, unless the user connected a device, or
\* found it again, while it was linked or connecting (line 115 adds a new
\* handler each time).
HeardOnce == \A d \in Devices : listeners[d] > 1 => d \in again \cup abandoned

\* A value that was decrypted is lost only to another message of the same
\* millisecond (bluetooth.service.ts:166, chatStore.ts:118).
LostToSameMillisecond ==
  \A v \in Values : \A t \in handled[v] : \E m \in inbox :
    m.id = t /\ (m.value # v => t \in handled[m.value])

\* The service can scan again as soon as the dialog is closed, and the list
\* says so (bluetooth.service.ts:64-66, 83, 88; the list's line 49).
ScanFlagHonest == (isScanning <=> chooser) /\ (uiScanning => isScanning)

=============================================================================
