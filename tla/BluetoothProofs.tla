--------------------------- MODULE BluetoothProofs ---------------------------
(* Theorems about BluetoothService for any devices, calls, values and bounds. *)
EXTENDS BluetoothService, TLAPS

USE BoundsAssumption

Row == [id : Devices, on : BOOLEAN]
Call == Idle \cup [dev : Devices, phase : Phases]

\* TypeOK without what is received and without the recorded devices.
LinkTypes ==
  /\ isInitialized \in BOOLEAN /\ isScanning \in BOOLEAN /\ chooser \in BOOLEAN
  /\ mounted \in BOOLEAN /\ uiScanning \in BOOLEAN
  /\ entry \in [Devices -> {"absent", "off", "on"}]
  /\ call \in [Calls -> Call]
  /\ gatt \in [Devices -> BOOLEAN]
  /\ listeners \in [Devices -> Nat]
  /\ rows \in Seq(Row)
  /\ dropped \subseteq Devices /\ abandoned \subseteq Devices /\ again \subseteq Devices

\* A call past its first await has a link, until the link goes; one past the
\* second was announced, or its device has been found again since.
CallOK(c) ==
  /\ call[c].phase \in {"discovering", "notifying"} => gatt[call[c].dev]
  /\ call[c].phase = "notifying" =>
       entry[call[c].dev] = "on" \/ call[c].dev \in abandoned

\* The device's entry against its link, its link against the calls, and its
\* handlers against all three.
DeviceOK(d) ==
  /\ entry[d] = "absent" => ~gatt[d] /\ Live(d) = {}
  /\ entry[d] = "on" => gatt[d] \/ d \in dropped
  /\ gatt[d] => entry[d] = "on" \/ Live(d) # {} \/ d \in abandoned
  /\ listeners[d] > 0 => gatt[d]
  /\ \A c, e \in Live(d) : c # e => d \in again
  /\ listeners[d] > 0 /\ Live(d) # {} => d \in again \cup abandoned
  /\ listeners[d] > 1 => d \in again \cup abandoned

\* Rows are of recorded devices; one whose entry says connected is never shown
\* otherwise, and the newest row says what the entry says.
RowOK(i) ==
  /\ entry[rows[i].id] # "absent"
  /\ entry[rows[i].id] = "on" => rows[i].on
  /\ (\A j \in i + 1 .. Len(rows) : rows[j].id # rows[i].id)
       => (rows[i].on <=> entry[rows[i].id] = "on")

\* Without its page the list is empty.
ListOK == (mounted \/ rows = <<>>) /\ \A i \in DOMAIN rows : RowOK(i)

LinkInv ==
  /\ LinkTypes /\ ScanFlagHonest /\ ListOK
  /\ \A c \in Calls : CallOK(c)
  /\ \A d \in Devices : DeviceOK(d)

InboxTypes ==
  /\ clock \in 0 .. MaxClock
  /\ runs \in [Values -> Nat]
  /\ inbox \subseteq [id : 0 .. MaxClock, value : Values]
  /\ handled \in [Values -> SUBSET (0 .. MaxClock)]

InboxInv ==
  /\ InboxTypes
  /\ LostToSameMillisecond
  /\ \A m \in inbox : m.id \in handled[m.value]

-----------------------------------------------------------------------------
\* What the parts of the invariant say together.
LEMMA PartsSuffice ==
  ASSUME LinkInv, InboxInv
  PROVE  /\ TypeOK /\ NewestRowAgrees /\ ConnectedUnlessDropped /\ LinkedIsAccounted
         /\ HeardOnce /\ LostToSameMillisecond /\ ScanFlagHonest
<1>1. TypeOK
  <2>1. \A d \in Devices : entry[d] = "absent" =>
          ~gatt[d] /\ Live(d) = {} /\ \A i \in DOMAIN rows : rows[i].id # d
    BY DEF LinkInv, DeviceOK, ListOK, RowOK
  <2>2. QED
    BY <2>1 DEF LinkInv, InboxInv, LinkTypes, InboxTypes, TypeOK, Row, Call
<1>2. NewestRowAgrees
  BY DEF LinkInv, ListOK, RowOK, NewestRowAgrees
<1>3. ConnectedUnlessDropped /\ LinkedIsAccounted /\ HeardOnce
  BY DEF LinkInv, DeviceOK, ConnectedUnlessDropped, LinkedIsAccounted, HeardOnce
<1>4. QED
  BY <1>1, <1>2, <1>3 DEF LinkInv, InboxInv

\* A call that has begun belongs to a device.
LEMMA CallOfDevice ==
  ASSUME LinkTypes, NEW c \in Calls, call[c].phase # "idle"
  PROVE  call[c] \in [dev : Devices, phase : Phases] /\ call[c].dev \in Devices
<1>1. call[c] \in Call
  BY DEF LinkTypes
<1>2. QED
  BY <1>1 DEF Call, Idle

\* A call that moves on stays with its device.
LEMMA CallMoves ==
  ASSUME LinkTypes, NEW c \in Calls, call[c].phase # "idle", NEW p \in Phases,
         call' = [call EXCEPT ![c].phase = p]
  PROVE  /\ call' \in [Calls -> Call]
         /\ call[c].dev \in Devices
         /\ call'[c].dev = call[c].dev /\ call'[c].phase = p
         /\ \A e \in Calls : e # c => call'[e] = call[e]
<1>1. call[c] \in [dev : Devices, phase : Phases] /\ call[c].dev \in Devices
  BY CallOfDevice
<1>2. call \in [Calls -> Call]
  BY DEF LinkTypes
<1>3. call'[c] = [call[c] EXCEPT !.phase = p]
  BY <1>2
<1>4. call'[c] = [dev |-> call[c].dev, phase |-> p]
  BY <1>1, <1>3
<1>5. QED
  BY <1>1, <1>2, <1>4 DEF Call

\* Marking keeps the rows in place and rewrites those of one device.
LEMMA RowsAreMarked ==
  ASSUME LinkTypes, NEW d \in Devices, NEW on \in BOOLEAN, rows' = RowsMarked(d, on)
  PROVE  /\ rows' \in Seq(Row) /\ DOMAIN rows' = DOMAIN rows /\ Len(rows') = Len(rows)
         /\ \A i \in DOMAIN rows :
              /\ rows[i] \in Row /\ rows'[i].id = rows[i].id
              /\ rows[i].id = d => rows'[i].on = on
              /\ rows[i].id # d => rows'[i] = rows[i]
<1> DEFINE m == RowsMarked(d, on)
<1>1. /\ rows \in Seq(Row) /\ DOMAIN rows = 1 .. Len(rows) /\ Len(rows) \in Nat
      /\ \A i \in DOMAIN rows : rows[i] \in Row
  BY DEF LinkTypes
<1>2. DOMAIN m = DOMAIN rows
  BY DEF RowsMarked
<1>3. \A i \in DOMAIN rows :
        m[i] = IF rows[i].id = d THEN [id |-> d, on |-> on] ELSE rows[i]
  BY DEF RowsMarked
<1>4. \A i \in DOMAIN rows : m[i] \in Row
  BY <1>1, <1>3 DEF Row
<1>5. m = [i \in 1 .. Len(rows) |-> m[i]]
  BY <1>1, <1>2 DEF RowsMarked
<1>6. m \in Seq(Row) /\ Len(m) = Len(rows)
  BY <1>1, <1>4, <1>5
<1>7. m = rows'
  OBVIOUS
<1> HIDE DEF m
<1>8. QED
  BY <1>1, <1>2, <1>3, <1>6, <1>7

-----------------------------------------------------------------------------
\* The steps of the list and of the service.

\* What neither a call nor a device notices keeps their conditions.
LEMMA DevicesKept ==
  ASSUME LinkInv, UNCHANGED <<entry, call, gatt, listeners, historyVars>>
  PROVE  /\ \A c \in Calls : CallOK(c)'
         /\ \A d \in Devices : DeviceOK(d)'
  BY DEF LinkInv, CallOK, DeviceOK, Live, historyVars

\* So do the rows what changes none of them.
LEMMA RowsKept ==
  ASSUME LinkInv, UNCHANGED <<rows, mounted, entry>>
  PROVE  ListOK'
  BY DEF LinkInv, ListOK, RowOK

\* Buttons and dialogs, without a device.
LEMMA PageStep ==
  ASSUME LinkInv, Initialize \/ Mount \/ Unmount \/ ScanForDevices \/ ScanFails
  PROVE  LinkInv'
<1>1. UNCHANGED <<entry, call, gatt, listeners, historyVars>>
  BY DEF Initialize, Mount, Unmount, ScanForDevices, ScanFails, serviceVars, radioVars
<1>2. ScanFlagHonest'
  BY DEF LinkInv, ScanFlagHonest, Initialize, Mount, Unmount, ScanForDevices, ScanFails,
         ScanReleased, serviceVars, radioVars, listVars
<1>3. LinkTypes'
  <2>1. <<>> \in Seq(Row)
    OBVIOUS
  <2>2. QED
    BY <1>1, <2>1 DEF LinkInv, LinkTypes, Initialize, Mount, Unmount, ScanForDevices,
         ScanFails, ScanReleased, serviceVars, radioVars, listVars, historyVars
<1>4. ListOK'
  <2>1. CASE rows' = <<>>
    BY <2>1 DEF ListOK
  <2>2. CASE rows' = rows /\ (mounted => mounted')
    BY <1>1, <2>2 DEF LinkInv, ListOK, RowOK
  <2>3. QED
    BY <2>1, <2>2 DEF Initialize, Mount, Unmount, ScanForDevices, ScanFails, listVars
<1>5. QED
  BY <1>1, <1>2, <1>3, <1>4, DevicesKept DEF LinkInv

\* A scan records the device, and shows it as not connected.
LEMMA FoundStep ==
  ASSUME LinkInv, NEW d \in Devices, DeviceFound(d)
  PROVE  LinkInv'
<1>1. /\ UNCHANGED <<call, gatt, listeners, mounted>>
      /\ dropped' = dropped \ {d}
      /\ gatt[d] => abandoned' = abandoned \cup {d}
      /\ ~gatt[d] => abandoned' = abandoned
      /\ (gatt[d] \/ Live(d) # {}) => again' = again \cup {d}
      /\ ~(gatt[d] \/ Live(d) # {}) => again' = again
  BY DEF DeviceFound
<1>2. /\ entry' \in [Devices -> {"absent", "off", "on"}]
      /\ entry'[d] = "off" /\ \A x \in Devices : x # d => entry'[x] = entry[x]
  BY DEF DeviceFound, FoundEntry, LinkInv, LinkTypes
<1>3. ASSUME mounted PROVE ListOK'
  <2> DEFINE r == [id |-> d, on |-> FALSE]
  <2> PICK n \in Nat : n = Len(rows)
    BY DEF LinkInv, LinkTypes
  <2>1. rows' = Append(rows, r)
    BY <1>3 DEF DeviceFound
  <2>2. r \in Row /\ rows \in Seq(Row) /\ r.id = d /\ r.on = FALSE
    BY DEF Row, LinkInv, LinkTypes
  <2> HIDE DEF r
  <2>3. /\ rows' \in Seq(Row) /\ n \in Nat /\ Len(rows') = n + 1
        /\ DOMAIN rows = 1 .. n /\ DOMAIN rows' = 1 .. n + 1
        /\ rows'[n + 1] = r
        /\ \A i \in 1 .. n : rows'[i] = rows[i] /\ rows[i] \in Row
    BY <2>1, <2>2
  <2>4. ASSUME NEW i \in 1 .. n PROVE RowOK(i)'
    <3>1. rows'[i] = rows[i] /\ rows[i].id \in Devices /\ RowOK(i)
      BY <2>3 DEF Row, LinkInv, ListOK
    <3>2. CASE rows[i].id = d
      <4>1. n + 1 \in i + 1 .. Len(rows') /\ rows'[n + 1].id = rows'[i].id
        BY <2>2, <2>3, <3>1, <3>2
      <4>2. QED
        BY <1>2, <3>1, <3>2, <4>1 DEF RowOK
    <3>3. CASE rows[i].id # d
      <4>1. entry'[rows[i].id] = entry[rows[i].id]
        BY <1>2, <3>1, <3>3
      <4>2. ASSUME \A j \in i + 1 .. Len(rows') : rows'[j].id # rows'[i].id
            PROVE  \A j \in i + 1 .. Len(rows) : rows[j].id # rows[i].id
        <5>1. \A j \in i + 1 .. n : j \in 1 .. n /\ j \in i + 1 .. n + 1
          BY <2>3
        <5>2. QED
          BY <2>3, <3>1, <4>2, <5>1
      <4>3. QED
        BY <3>1, <4>1, <4>2 DEF RowOK
    <3>4. QED
      BY <3>2, <3>3
  <2>5. RowOK(n + 1)'
    BY <1>2, <2>2, <2>3 DEF RowOK
  <2>6. \A i \in DOMAIN rows' : i \in 1 .. n \/ i = n + 1
    BY <2>3
  <2>7. QED
    BY <1>1, <1>3, <2>3, <2>4, <2>5, <2>6 DEF ListOK
<1>4. ASSUME ~mounted PROVE ListOK'
  <2>1. rows' = <<>>
    BY <1>4 DEF DeviceFound, LinkInv, ListOK
  <2>2. QED
    BY <2>1 DEF ListOK
<1>5. rows' \in Seq(Row)
  <2>1. [id |-> d, on |-> FALSE] \in Row /\ rows \in Seq(Row)
    BY DEF Row, LinkInv, LinkTypes
  <2>2. rows' \in {rows, Append(rows, [id |-> d, on |-> FALSE])}
    BY DEF DeviceFound
  <2>3. QED
    BY <2>1, <2>2
<1>6. LinkTypes'
  BY <1>1, <1>2, <1>5 DEF DeviceFound, LinkInv, LinkTypes
<1>7. ScanFlagHonest'
  BY DEF DeviceFound, ScanFlagHonest
<1>8. ASSUME NEW c \in Calls PROVE CallOK(c)'
  <2>1. CASE call[c].phase \in {"discovering", "notifying"}
    <3>1. call[c].dev \in Devices /\ CallOK(c)
      BY <2>1, CallOfDevice DEF LinkInv
    <3>2. QED
      BY <1>1, <1>2, <2>1, <3>1 DEF CallOK
  <2>2. CASE call[c].phase \notin {"discovering", "notifying"}
    BY <1>1, <2>2 DEF CallOK
  <2>3. QED
    BY <2>1, <2>2
<1>9. ASSUME NEW x \in Devices PROVE DeviceOK(x)'
  <2>1. Live(x)' = Live(x)
    BY <1>1 DEF Live
  <2>2. DeviceOK(x) /\ again \subseteq again' /\ abandoned \subseteq abandoned'
    BY <1>1 DEF LinkInv
  <2>3. CASE x = d
    BY <1>1, <1>2, <2>1, <2>2, <2>3 DEF DeviceOK
  <2>4. CASE x # d
    BY <1>1, <1>2, <2>1, <2>2, <2>4 DEF DeviceOK
  <2>5. QED
    BY <2>3, <2>4
<1>10. QED
  BY <1>3, <1>4, <1>6, <1>7, <1>8, <1>9 DEF LinkInv

-----------------------------------------------------------------------------
\* The steps of a call.

\* Only a row that shows no link has the button, so what the device had before
\* is a call still running, or a link nobody sees.
LEMMA ConnectStep ==
  ASSUME LinkInv, NEW c \in Calls, NEW d \in Devices, ConnectToDevice(c, d)
  PROVE  LinkInv'
<1>1. /\ call[c].phase = "idle" /\ mounted
      /\ UNCHANGED <<isInitialized, isScanning, entry, gatt, listeners, chooser, mounted,
                     rows, uiScanning, dropped, abandoned>>
      /\ Live(d) # {} => again' = again \cup {d}
      /\ Live(d) = {} => again' = again
  BY DEF ConnectToDevice, radioVars, listVars
<1>2. /\ call' \in [Calls -> Call]
      /\ call'[c].dev = d /\ call'[c].phase = "linking"
      /\ \A e \in Calls : e # c => call'[e] = call[e]
  <2>1. [dev |-> d, phase |-> "linking"] \in Call
    BY DEF Call, Phases
  <2>2. QED
    BY <2>1 DEF ConnectToDevice, LinkInv, LinkTypes
<1>3. entry[d] = "off"
  <2>1. PICK i \in DOMAIN rows : rows[i] = [id |-> d, on |-> FALSE]
    BY DEF ConnectToDevice
  <2>2. rows[i].id = d /\ rows[i].on = FALSE /\ RowOK(i)
    BY <2>1 DEF LinkInv, ListOK
  <2>3. entry[d] \in {"absent", "off", "on"}
    BY DEF LinkInv, LinkTypes
  <2>4. QED
    BY <2>2, <2>3 DEF RowOK
<1>4. LinkTypes' /\ ScanFlagHonest'
  BY <1>1, <1>2 DEF LinkInv, LinkTypes, ScanFlagHonest
<1>5. ListOK'
  BY <1>1, RowsKept
<1>6. ASSUME NEW e \in Calls PROVE CallOK(e)'
  BY <1>1, <1>2 DEF LinkInv, CallOK
<1>7. ASSUME NEW x \in Devices PROVE DeviceOK(x)'
  <2>1. DeviceOK(x) /\ again \subseteq again'
    BY <1>1 DEF LinkInv
  <2>2. CASE x = d
    <3>1. Live(x)' = Live(x) \cup {c} /\ Live(x)' # {}
      BY <1>1, <1>2, <2>2 DEF Live
    <3>2. \A a, b \in Live(x)' : a # b => x \in again'
      BY <1>1, <2>1, <2>2, <3>1 DEF DeviceOK
    <3>3. listeners[x] > 0 => x \in again' \cup abandoned'
      BY <1>1, <1>3, <2>1, <2>2 DEF DeviceOK
    <3>4. QED
      BY <1>1, <1>3, <2>1, <2>2, <3>1, <3>2, <3>3 DEF DeviceOK
  <2>3. CASE x # d
    <3>1. Live(x)' = Live(x)
      BY <1>1, <1>2, <2>3 DEF Live
    <3>2. QED
      BY <1>1, <2>1, <3>1 DEF DeviceOK
  <2>4. QED
    BY <2>2, <2>3
<1>8. QED
  BY <1>4, <1>5, <1>6, <1>7 DEF LinkInv

\* The link is up, and a call knows it.
LEMMA LinkedStep ==
  ASSUME LinkInv, NEW c \in Calls, Linked(c)
  PROVE  LinkInv'
<1> DEFINE d == call[c].dev
<1>1. /\ call[c].phase = "linking"
      /\ call' = [call EXCEPT ![c].phase = "discovering"]
      /\ gatt' = [gatt EXCEPT ![d] = TRUE]
      /\ UNCHANGED <<isInitialized, isScanning, entry, listeners, chooser, mounted, rows,
                     uiScanning, dropped, abandoned, again>>
  BY DEF Linked, listVars, historyVars
<1>2. /\ call' \in [Calls -> Call] /\ d \in Devices
      /\ call'[c].dev = d /\ call'[c].phase = "discovering"
      /\ \A e \in Calls : e # c => call'[e] = call[e]
  BY <1>1, CallMoves DEF LinkInv, Phases
<1>3. /\ gatt' \in [Devices -> BOOLEAN]
      /\ gatt'[d] /\ \A x \in Devices : x # d => gatt'[x] = gatt[x]
  BY <1>1, <1>2 DEF LinkInv, LinkTypes
<1>4. LinkTypes' /\ ScanFlagHonest'
  BY <1>1, <1>2, <1>3 DEF LinkInv, LinkTypes, ScanFlagHonest
<1>5. ListOK'
  BY <1>1, RowsKept
<1>6. ASSUME NEW e \in Calls PROVE CallOK(e)'
  <2>1. CASE e = c
    BY <1>2, <1>3, <2>1 DEF CallOK
  <2>2. CASE e # c /\ call[e].phase \in {"discovering", "notifying"}
    <3>1. call[e].dev \in Devices /\ CallOK(e)
      BY <2>2, CallOfDevice DEF LinkInv
    <3>2. QED
      BY <1>1, <1>2, <1>3, <2>2, <3>1 DEF CallOK
  <2>3. QED
    BY <1>2, <2>1, <2>2 DEF CallOK
<1>7. ASSUME NEW x \in Devices PROVE DeviceOK(x)'
  <2>1. Live(x)' = Live(x)
    BY <1>1, <1>2 DEF Live
  <2>2. DeviceOK(x) /\ c \in Live(d)
    BY <1>1 DEF LinkInv, Live
  <2>3. QED
    BY <1>1, <1>3, <2>1, <2>2 DEF DeviceOK
<1>8. QED
  BY <1>4, <1>5, <1>6, <1>7 DEF LinkInv

\* The device is announced as connected: it has a link.
LEMMA DiscoveredStep ==
  ASSUME LinkInv, NEW c \in Calls, Discovered(c)
  PROVE  LinkInv'
<1> DEFINE d == call[c].dev
<1>1. /\ call[c].phase = "discovering"
      /\ call' = [call EXCEPT ![c].phase = "notifying"]
      /\ entry' = [entry EXCEPT ![d] = "on"]
      /\ rows' = RowsMarked(d, TRUE)
      /\ dropped' = dropped \ {d}
      /\ UNCHANGED <<isInitialized, isScanning, gatt, listeners, chooser, mounted,
                     uiScanning, abandoned, again>>
  BY DEF Discovered, radioVars
<1>2. /\ call' \in [Calls -> Call] /\ d \in Devices
      /\ call'[c].dev = d /\ call'[c].phase = "notifying"
      /\ \A e \in Calls : e # c => call'[e] = call[e]
  BY <1>1, CallMoves DEF LinkInv, Phases
<1>3. /\ entry' \in [Devices -> {"absent", "off", "on"}]
      /\ entry'[d] = "on" /\ \A x \in Devices : x # d => entry'[x] = entry[x]
  BY <1>1, <1>2 DEF LinkInv, LinkTypes
<1>4. /\ rows' \in Seq(Row) /\ DOMAIN rows' = DOMAIN rows /\ Len(rows') = Len(rows)
      /\ \A i \in DOMAIN rows :
           /\ rows[i] \in Row /\ rows'[i].id = rows[i].id
           /\ rows[i].id = d => rows'[i].on = TRUE
           /\ rows[i].id # d => rows'[i] = rows[i]
  <2>1. PICK on \in BOOLEAN : on = TRUE
    OBVIOUS
  <2>2. rows' = RowsMarked(d, on)
    BY <1>1, <2>1, Zenon
  <2>3. LinkTypes
    BY DEF LinkInv
  <2>4. QED
    BY <1>2, <2>1, <2>2, <2>3, RowsAreMarked
<1>5. LinkTypes' /\ ScanFlagHonest'
  BY <1>1, <1>2, <1>3, <1>4 DEF LinkInv, LinkTypes, ScanFlagHonest
<1>6. ListOK'
  <2>1. ASSUME NEW i \in DOMAIN rows PROVE RowOK(i)'
    <3>1. RowOK(i) /\ rows[i].id \in Devices /\ rows[i].on \in BOOLEAN
      BY <1>4 DEF LinkInv, ListOK, Row
    <3>2. CASE rows[i].id = d
      BY <1>3, <1>4, <3>1, <3>2 DEF RowOK
    <3>3. CASE rows[i].id # d
      <4>1. ASSUME \A j \in i + 1 .. Len(rows') : rows'[j].id # rows'[i].id
            PROVE  \A j \in i + 1 .. Len(rows) : rows[j].id # rows[i].id
        <5>1. DOMAIN rows = 1 .. Len(rows) /\ Len(rows) \in Nat
          BY DEF LinkInv, LinkTypes
        <5>2. \A j \in i + 1 .. Len(rows) : j \in DOMAIN rows
          BY <5>1
        <5>3. QED
          BY <1>4, <4>1, <5>2
      <4>2. QED
        BY <1>3, <1>4, <3>1, <3>3, <4>1 DEF RowOK
    <3>4. QED
      BY <3>2, <3>3
  <2>2. mounted' \/ rows' = <<>>
    <3>1. CASE rows = <<>>
      BY <1>1, <3>1 DEF RowsMarked
    <3>2. QED
      BY <1>1, <3>1 DEF LinkInv, ListOK
  <2>3. QED
    BY <1>4, <2>1, <2>2 DEF ListOK
<1>7. ASSUME NEW e \in Calls PROVE CallOK(e)'
  <2>1. CASE e = c
    BY <1>1, <1>2, <1>3, <2>1 DEF LinkInv, CallOK
  <2>2. CASE e # c /\ call[e].phase \in {"discovering", "notifying"}
    <3>1. call[e].dev \in Devices /\ CallOK(e)
      BY <2>2, CallOfDevice DEF LinkInv
    <3>2. QED
      BY <1>1, <1>2, <1>3, <2>2, <3>1 DEF CallOK
  <2>3. QED
    BY <1>2, <2>1, <2>2 DEF CallOK
<1>8. ASSUME NEW x \in Devices PROVE DeviceOK(x)'
  <2>1. Live(x)' = Live(x)
    BY <1>1, <1>2 DEF Live
  <2>2. DeviceOK(x) /\ CallOK(c)
    BY DEF LinkInv
  <2>3. QED
    BY <1>1, <1>3, <2>1, <2>2 DEF DeviceOK, CallOK
<1>9. QED
  BY <1>5, <1>6, <1>7, <1>8 DEF LinkInv

\* Another handler: the second of a device only where it was asked for again.
LEMMA ListeningStep ==
  ASSUME LinkInv, NEW c \in Calls, Listening(c)
  PROVE  LinkInv'
<1> DEFINE d == call[c].dev
<1>1. /\ call[c].phase = "notifying"
      /\ call' = [call EXCEPT ![c].phase = "done"]
      /\ listeners' = [listeners EXCEPT ![d] = @ + 1]
      /\ UNCHANGED <<isInitialized, isScanning, entry, gatt, chooser, mounted, rows,
                     uiScanning, dropped, abandoned, again>>
  BY DEF Listening, listVars, historyVars
<1>2. /\ call' \in [Calls -> Call] /\ d \in Devices
      /\ call'[c].dev = d /\ call'[c].phase = "done"
      /\ \A e \in Calls : e # c => call'[e] = call[e]
  BY <1>1, CallMoves DEF LinkInv, Phases
<1>3. /\ listeners' \in [Devices -> Nat] /\ listeners[d] \in Nat
      /\ listeners'[d] = listeners[d] + 1
      /\ \A x \in Devices : x # d => listeners'[x] = listeners[x]
  BY <1>1, <1>2 DEF LinkInv, LinkTypes
<1>4. LinkTypes' /\ ScanFlagHonest'
  BY <1>1, <1>2, <1>3 DEF LinkInv, LinkTypes, ScanFlagHonest
<1>5. ListOK'
  BY <1>1, RowsKept
<1>6. ASSUME NEW e \in Calls PROVE CallOK(e)'
  BY <1>1, <1>2 DEF LinkInv, CallOK
<1>7. ASSUME NEW x \in Devices PROVE DeviceOK(x)'
  <2>1. DeviceOK(x) /\ CallOK(c) /\ c \in Live(d)
    BY <1>1 DEF LinkInv, Live
  <2>2. CASE x = d
    <3>1. Live(x)' = Live(x) \ {c}
      BY <1>1, <1>2, <2>2 DEF Live
    <3>2. gatt[x] /\ (entry[x] = "on" \/ x \in abandoned)
      BY <1>1, <2>1, <2>2 DEF CallOK
    <3>3. \A a, b \in Live(x)' : a # b => x \in again'
      BY <1>1, <2>1, <3>1 DEF DeviceOK
    <3>4. Live(x)' # {} => x \in again'
      BY <1>1, <2>1, <2>2, <3>1 DEF DeviceOK
    <3>5. listeners'[x] > 1 => x \in again' \cup abandoned'
      BY <1>1, <1>3, <2>1, <2>2 DEF DeviceOK
    <3>6. QED
      BY <1>1, <2>1, <2>2, <3>1, <3>2, <3>3, <3>4, <3>5 DEF DeviceOK
  <2>3. CASE x # d
    <3>1. Live(x)' = Live(x)
      BY <1>1, <1>2, <2>3 DEF Live
    <3>2. QED
      BY <1>1, <1>3, <2>1, <2>3, <3>1 DEF DeviceOK
  <2>4. QED
    BY <2>2, <2>3
<1>8. QED
  BY <1>4, <1>5, <1>6, <1>7 DEF LinkInv

\* A call that fails leaves its link up.
LEMMA FailStep ==
  ASSUME LinkInv, NEW c \in Calls, ConnectFails(c)
  PROVE  LinkInv'
<1> DEFINE d == call[c].dev
<1>1. /\ call[c].phase # "idle"
      /\ call' = [call EXCEPT ![c].phase = "done"]
      /\ gatt[d] => abandoned' = abandoned \cup {d}
      /\ ~gatt[d] => abandoned' = abandoned
      /\ UNCHANGED <<isInitialized, isScanning, entry, gatt, listeners, chooser, mounted,
                     rows, uiScanning, dropped, again>>
  BY DEF ConnectFails, radioVars, listVars
<1>2. /\ call' \in [Calls -> Call] /\ d \in Devices
      /\ call'[c].dev = d /\ call'[c].phase = "done"
      /\ \A e \in Calls : e # c => call'[e] = call[e]
  BY <1>1, CallMoves DEF LinkInv, Phases
<1>3. LinkTypes' /\ ScanFlagHonest'
  BY <1>1, <1>2 DEF LinkInv, LinkTypes, ScanFlagHonest
<1>4. ListOK'
  BY <1>1, RowsKept
<1>5. abandoned \subseteq abandoned'
  BY <1>1
<1>6. ASSUME NEW e \in Calls PROVE CallOK(e)'
  BY <1>1, <1>2, <1>5 DEF LinkInv, CallOK
<1>7. ASSUME NEW x \in Devices PROVE DeviceOK(x)'
  <2>1. Live(x)' = Live(x) \ {c}
    BY <1>2 DEF Live
  <2>2. DeviceOK(x)
    BY DEF LinkInv
  <2>3. x # d => Live(x)' = Live(x)
    BY <2>1 DEF Live
  <2>4. QED
    BY <1>1, <1>5, <2>1, <2>2, <2>3 DEF DeviceOK
<1>8. QED
  BY <1>3, <1>4, <1>6, <1>7 DEF LinkInv

-----------------------------------------------------------------------------
\* Links that go down.

\* A link that is gone takes the handlers of its device, and its calls fail.
LEMMA LinkLost ==
  ASSUME LinkInv, NEW d \in Devices, gatt[d],
         NEW waiting, {"discovering", "notifying"} \subseteq waiting, "idle" \notin waiting,
         Drop({d}, waiting)
  PROVE  /\ call' \in [Calls -> Call] /\ gatt' \in [Devices -> BOOLEAN]
         /\ listeners' \in [Devices -> Nat]
         /\ ~gatt'[d] /\ listeners'[d] = 0 /\ entry[d] # "absent"
         /\ \A x \in Devices : x # d => /\ gatt'[x] = gatt[x]
                                        /\ listeners'[x] = listeners[x]
                                        /\ Live(x)' = Live(x)
         /\ Live(d)' \subseteq Live(d)
         /\ "linking" \in waiting => Live(d)' = {}
         /\ \A e \in Calls : call'[e].phase \in {"discovering", "notifying"} =>
              call'[e] = call[e] /\ call[e].dev # d
<1>1. /\ gatt' = [x \in Devices |-> gatt[x] /\ x \notin {d}]
      /\ listeners' = [x \in Devices |-> IF x \in {d} THEN 0 ELSE listeners[x]]
      /\ call' = [e \in Calls |-> IF call[e].dev \in {d} /\ call[e].phase \in waiting
                                  THEN [call[e] EXCEPT !.phase = "failing"] ELSE call[e]]
  BY DEF Drop
<1>2. ASSUME NEW e \in Calls, call[e].dev = d, call[e].phase \in waiting
      PROVE  /\ call'[e] \in Call /\ call'[e].dev = d /\ call'[e].phase = "failing"
  <2>1. call[e] \in [dev : Devices, phase : Phases]
    BY <1>2, CallOfDevice DEF LinkInv
  <2>2. call'[e] = [call[e] EXCEPT !.phase = "failing"]
    BY <1>1, <1>2
  <2>3. call'[e] = [dev |-> d, phase |-> "failing"]
    BY <1>2, <2>1, <2>2
  <2>4. QED
    BY <2>3 DEF Call, Phases
<1>3. ASSUME NEW e \in Calls, ~(call[e].dev = d /\ call[e].phase \in waiting)
      PROVE  call'[e] = call[e] /\ call'[e] \in Call
  BY <1>1, <1>3 DEF LinkInv, LinkTypes
<1>4. call' \in [Calls -> Call]
  <2>1. \A e \in Calls : call'[e] \in Call
    BY <1>2, <1>3
  <2>2. call' = [e \in Calls |-> call'[e]]
    BY <1>1
  <2>3. QED
    BY <2>1, <2>2
<1>5. /\ gatt' \in [Devices -> BOOLEAN] /\ listeners' \in [Devices -> Nat]
      /\ ~gatt'[d] /\ listeners'[d] = 0
      /\ \A x \in Devices : x # d => gatt'[x] = gatt[x] /\ listeners'[x] = listeners[x]
  BY <1>1 DEF LinkInv, LinkTypes
<1>6. entry[d] # "absent"
  BY DEF LinkInv, DeviceOK
<1>7. ASSUME NEW x \in Devices, x # d PROVE Live(x)' = Live(x)
  BY <1>2, <1>3, <1>7 DEF Live
<1>8. Live(d)' \subseteq Live(d)
  BY <1>2, <1>3 DEF Live
<1>9. "linking" \in waiting => Live(d)' = {}
  BY <1>2, <1>3 DEF Live
<1>10. \A e \in Calls : call'[e].phase \in {"discovering", "notifying"} =>
         call'[e] = call[e] /\ call[e].dev # d
  BY <1>2, <1>3
<1>11. QED
  BY <1>4, <1>5, <1>6, <1>7, <1>8, <1>9, <1>10

\* The calls that still have a link keep what goes with it.
LEMMA CallsAfterLoss ==
  ASSUME LinkInv, NEW d \in Devices, abandoned' = abandoned \ {d},
         \A x \in Devices : x # d => gatt'[x] = gatt[x] /\ entry'[x] = entry[x],
         \A e \in Calls : call'[e].phase \in {"discovering", "notifying"} =>
           call'[e] = call[e] /\ call[e].dev # d
  PROVE  \A e \in Calls : CallOK(e)'
<1> SUFFICES ASSUME NEW e \in Calls, call'[e].phase \in {"discovering", "notifying"}
             PROVE  CallOK(e)'
  BY DEF CallOK
<1>1. call'[e] = call[e] /\ call[e].dev # d
  OBVIOUS
<1>2. call[e].dev \in Devices /\ CallOK(e)
  BY <1>1, CallOfDevice DEF LinkInv
<1>3. QED
  BY <1>1, <1>2 DEF CallOK

\* The service takes the link down, and says so.
LEMMA DisconnectStep ==
  ASSUME LinkInv, NEW d \in Devices, DisconnectDevice(d)
  PROVE  LinkInv'
<1>1. /\ gatt[d] /\ mounted
      /\ Drop({d}, {"linking", "discovering", "notifying"})
      /\ entry' = [entry EXCEPT ![d] = "off"]
      /\ rows' = RowsMarked(d, FALSE)
      /\ abandoned' = abandoned \ {d}
      /\ UNCHANGED <<isInitialized, isScanning, chooser, mounted, uiScanning, dropped, again>>
  BY DEF DisconnectDevice, LinkDown, EntryOff
<1>2. /\ entry' \in [Devices -> {"absent", "off", "on"}]
      /\ entry'[d] = "off" /\ \A x \in Devices : x # d => entry'[x] = entry[x]
  BY <1>1 DEF LinkInv, LinkTypes
<1>3. /\ call' \in [Calls -> Call] /\ gatt' \in [Devices -> BOOLEAN]
      /\ listeners' \in [Devices -> Nat]
      /\ ~gatt'[d] /\ listeners'[d] = 0
      /\ \A x \in Devices : x # d => /\ gatt'[x] = gatt[x]
                                     /\ listeners'[x] = listeners[x]
                                     /\ Live(x)' = Live(x)
      /\ Live(d)' = {}
      /\ \A e \in Calls : call'[e].phase \in {"discovering", "notifying"} =>
           call'[e] = call[e] /\ call[e].dev # d
  <2>1. PICK waiting : waiting = {"linking", "discovering", "notifying"}
    OBVIOUS
  <2>2. /\ Drop({d}, waiting) /\ {"discovering", "notifying"} \subseteq waiting
        /\ "idle" \notin waiting /\ "linking" \in waiting
    BY <1>1, <2>1
  <2>3. QED
    BY <1>1, <2>2, LinkLost
<1>4. /\ rows' \in Seq(Row) /\ DOMAIN rows' = DOMAIN rows /\ Len(rows') = Len(rows)
      /\ \A i \in DOMAIN rows :
           /\ rows[i] \in Row /\ rows'[i].id = rows[i].id
           /\ rows[i].id = d => rows'[i].on = FALSE
           /\ rows[i].id # d => rows'[i] = rows[i]
  <2>1. PICK on \in BOOLEAN : on = FALSE
    OBVIOUS
  <2>2. rows' = RowsMarked(d, on)
    BY <1>1, <2>1, Zenon
  <2>3. LinkTypes
    BY DEF LinkInv
  <2>4. QED
    BY <2>1, <2>2, <2>3, RowsAreMarked
<1>5. LinkTypes' /\ ScanFlagHonest'
  BY <1>1, <1>2, <1>3, <1>4 DEF LinkInv, LinkTypes, ScanFlagHonest
<1>6. ListOK'
  <2>1. ASSUME NEW i \in DOMAIN rows PROVE RowOK(i)'
    <3>1. RowOK(i) /\ rows[i].id \in Devices /\ rows[i].on \in BOOLEAN
      BY <1>4 DEF LinkInv, ListOK, Row
    <3>2. CASE rows[i].id = d
      BY <1>2, <1>4, <3>1, <3>2 DEF RowOK
    <3>3. CASE rows[i].id # d
      <4>1. ASSUME \A j \in i + 1 .. Len(rows') : rows'[j].id # rows'[i].id
            PROVE  \A j \in i + 1 .. Len(rows) : rows[j].id # rows[i].id
        <5>1. DOMAIN rows = 1 .. Len(rows) /\ Len(rows) \in Nat
          BY DEF LinkInv, LinkTypes
        <5>2. \A j \in i + 1 .. Len(rows) : j \in DOMAIN rows
          BY <5>1
        <5>3. QED
          BY <1>4, <4>1, <5>2
      <4>2. QED
        BY <1>2, <1>4, <3>1, <3>3, <4>1 DEF RowOK
    <3>4. QED
      BY <3>2, <3>3
  <2>2. QED
    BY <1>1, <1>4, <2>1 DEF ListOK
<1>7. \A e \in Calls : CallOK(e)'
  BY <1>1, <1>2, <1>3, CallsAfterLoss
<1>8. ASSUME NEW x \in Devices PROVE DeviceOK(x)'
  <2>1. DeviceOK(x)
    BY DEF LinkInv
  <2>2. CASE x = d
    BY <1>2, <1>3, <2>2 DEF DeviceOK
  <2>3. CASE x # d
    BY <1>1, <1>2, <1>3, <2>1, <2>3 DEF DeviceOK
  <2>4. QED
    BY <2>2, <2>3
<1>9. QED
  BY <1>5, <1>6, <1>7, <1>8 DEF LinkInv

\* The radio takes it down, and nobody says so.
LEMMA RadioStep ==
  ASSUME LinkInv, NEW d \in Devices, RadioDrops(d)
  PROVE  LinkInv'
<1>1. /\ gatt[d]
      /\ Drop({d}, {"discovering", "notifying"})
      /\ dropped' = dropped \cup {d} /\ abandoned' = abandoned \ {d}
      /\ UNCHANGED <<isInitialized, isScanning, entry, chooser, mounted, rows, uiScanning,
                     again>>
  BY DEF RadioDrops, listVars
<1>2. /\ call' \in [Calls -> Call] /\ gatt' \in [Devices -> BOOLEAN]
      /\ listeners' \in [Devices -> Nat]
      /\ ~gatt'[d] /\ listeners'[d] = 0 /\ entry[d] # "absent"
      /\ \A x \in Devices : x # d => /\ gatt'[x] = gatt[x]
                                     /\ listeners'[x] = listeners[x]
                                     /\ Live(x)' = Live(x)
      /\ Live(d)' \subseteq Live(d)
      /\ \A e \in Calls : call'[e].phase \in {"discovering", "notifying"} =>
           call'[e] = call[e] /\ call[e].dev # d
  <2>1. PICK waiting : waiting = {"discovering", "notifying"}
    OBVIOUS
  <2>2. /\ Drop({d}, waiting) /\ {"discovering", "notifying"} \subseteq waiting
        /\ "idle" \notin waiting
    BY <1>1, <2>1
  <2>3. QED
    BY <1>1, <2>2, LinkLost
<1>3. LinkTypes' /\ ScanFlagHonest'
  BY <1>1, <1>2 DEF LinkInv, LinkTypes, ScanFlagHonest
<1>4. ListOK'
  BY <1>1, RowsKept
<1>5. \A e \in Calls : CallOK(e)'
  BY <1>1, <1>2, CallsAfterLoss
<1>6. ASSUME NEW x \in Devices PROVE DeviceOK(x)'
  <2>1. DeviceOK(x)
    BY DEF LinkInv
  <2>2. CASE x = d
    BY <1>1, <1>2, <2>1, <2>2 DEF DeviceOK
  <2>3. CASE x # d
    BY <1>1, <1>2, <2>1, <2>3 DEF DeviceOK
  <2>4. QED
    BY <2>2, <2>3
<1>7. QED
  BY <1>3, <1>4, <1>5, <1>6 DEF LinkInv

-----------------------------------------------------------------------------
\* What is received.

\* What is in the store under a time is one of the values handled then.
LEMMA ReceivingStep ==
  ASSUME InboxInv, LinkInv, Receiving
  PROVE  InboxInv'
<1>1. /\ InboxTypes /\ LostToSameMillisecond
      /\ \A m \in inbox : m.id \in handled[m.value] /\ m.value \in Values
  BY DEF InboxInv, InboxTypes
<1>2. ASSUME NEW v \in Values, NEW d \in Devices, ValueChanged(v, d)
      PROVE  InboxInv'
  <2>1. listeners[d] \in Nat
    BY DEF LinkInv, LinkTypes
  <2>2. InboxTypes'
    BY <1>1, <1>2, <2>1 DEF ValueChanged, InboxTypes
  <2>3. QED
    BY <1>1, <1>2, <2>2 DEF ValueChanged, InboxInv, LostToSameMillisecond
<1>3. ASSUME NEW v \in Values, HandleIncomingMessage(v)
      PROVE  InboxInv'
  <2>1. /\ runs[v] > 0 /\ runs' = [runs EXCEPT ![v] = @ - 1] /\ UNCHANGED clock
        /\ handled' = [handled EXCEPT ![v] = @ \cup {clock}]
        /\ (\E m \in inbox : m.id = clock) => inbox' = inbox
        /\ ~(\E m \in inbox : m.id = clock) =>
             inbox' = inbox \cup {[id |-> clock, value |-> v]}
    BY <1>3 DEF HandleIncomingMessage, Stamp
  <2>2. InboxTypes'
    <3>1. runs' \in [Values -> Nat]
      BY <1>1, <2>1 DEF InboxTypes
    <3>2. handled' \in [Values -> SUBSET (0 .. MaxClock)]
      BY <1>1, <2>1 DEF InboxTypes
    <3>3. inbox' \subseteq [id : 0 .. MaxClock, value : Values]
      BY <1>1, <2>1 DEF InboxTypes
    <3>4. QED
      BY <1>1, <2>1, <3>1, <3>2, <3>3 DEF InboxTypes
  <2>3. /\ handled'[v] = handled[v] \cup {clock}
        /\ \A w \in Values : w # v => handled'[w] = handled[w]
        /\ \A w \in Values : handled[w] \subseteq handled'[w]
    BY <1>1, <2>1 DEF InboxTypes
  <2>4. inbox \subseteq inbox' /\ \E m \in inbox' : m.id = clock
    <3>1. CASE \E m \in inbox : m.id = clock
      BY <2>1, <3>1
    <3>2. CASE ~(\E m \in inbox : m.id = clock)
      <4>1. [id |-> clock, value |-> v].id = clock
        OBVIOUS
      <4>2. QED
        BY <2>1, <3>2, <4>1
    <3>3. QED
      BY <3>1, <3>2
  <2>5. \A m \in inbox' : m.id \in handled'[m.value] /\ m.value \in Values
    <3>1. SUFFICES ASSUME NEW m \in inbox'
                   PROVE  m.id \in handled'[m.value] /\ m.value \in Values
      OBVIOUS
    <3>2. CASE m \in inbox
      BY <1>1, <2>3, <3>2
    <3>3. CASE m = [id |-> clock, value |-> v]
      BY <2>3, <3>3
    <3>4. QED
      BY <2>1, <3>2, <3>3
  <2>6. LostToSameMillisecond'
    <3>1. SUFFICES ASSUME NEW w \in Values, NEW t \in handled'[w]
                   PROVE  \E m \in inbox' :
                            m.id = t /\ (m.value # w => t \in handled'[m.value])
      BY DEF LostToSameMillisecond
    <3>2. CASE t \in handled[w]
      <4>1. PICK m \in inbox : m.id = t /\ (m.value # w => t \in handled[m.value])
        BY <1>1, <3>2 DEF LostToSameMillisecond
      <4>2. QED
        BY <1>1, <2>3, <2>4, <4>1
    <3>3. CASE t = clock
      <4>1. PICK m \in inbox' : m.id = clock
        BY <2>4
      <4>2. QED
        BY <2>5, <3>3, <4>1
    <3>4. QED
      BY <2>3, <3>2, <3>3
  <2>7. QED
    BY <2>2, <2>5, <2>6 DEF InboxInv
<1>4. ASSUME NEW v \in Values, HandlingFails(v)
      PROVE  InboxInv'
  <2>1. InboxTypes'
    BY <1>1, <1>4 DEF HandlingFails, InboxTypes
  <2>2. QED
    BY <1>1, <1>4, <2>1 DEF HandlingFails, InboxInv, LostToSameMillisecond
<1>5. ASSUME Tick
      PROVE  InboxInv'
  <2>1. InboxTypes'
    BY <1>1, <1>5 DEF Tick, InboxTypes
  <2>2. QED
    BY <1>1, <1>5, <2>1 DEF Tick, InboxInv, LostToSameMillisecond
<1>6. QED
  BY <1>2, <1>3, <1>4, <1>5 DEF Receiving

-----------------------------------------------------------------------------
\* The induction.

LEMMA InitInv == Init => LinkInv /\ InboxInv
<1> SUFFICES ASSUME Init PROVE LinkInv /\ InboxInv
  OBVIOUS
<1>1. /\ \A c \in Calls : call[c].phase = "idle"
      /\ \A d \in Devices : Live(d) = {} /\ ~gatt[d] /\ listeners[d] = 0
      /\ \A d \in Devices : entry[d] = "absent"
  BY DEF Init, Idle, Live
<1>2. LinkTypes
  <2>1. <<>> \in Seq(Row) /\ call \in [Calls -> Call]
    BY DEF Init, Call
  <2>2. QED
    BY <2>1 DEF Init, LinkTypes
<1>3. ScanFlagHonest /\ ListOK
  BY DEF Init, ScanFlagHonest, ListOK
<1>4. (\A c \in Calls : CallOK(c)) /\ \A d \in Devices : DeviceOK(d)
  BY <1>1 DEF CallOK, DeviceOK
<1>5. InboxInv
  BY DEF Init, InboxInv, InboxTypes, LostToSameMillisecond
<1>6. QED
  BY <1>2, <1>3, <1>4, <1>5 DEF LinkInv

\* What is received changes no link, and the other way round.
LEMMA LinkInvFrame ==
  ASSUME LinkInv, UNCHANGED <<serviceVars, radioVars, listVars, historyVars>>
  PROVE  LinkInv'
<1>1. UNCHANGED <<isInitialized, isScanning, entry, call, gatt, listeners, chooser, mounted,
                  rows, uiScanning, dropped, abandoned, again>>
  BY DEF serviceVars, radioVars, listVars, historyVars
<1>2. LinkTypes' /\ ScanFlagHonest'
  BY <1>1 DEF LinkInv, LinkTypes, ScanFlagHonest
<1>3. QED
  BY <1>1, <1>2, DevicesKept, RowsKept DEF LinkInv, historyVars

LEMMA InboxInvFrame == ASSUME InboxInv, UNCHANGED inboxVars PROVE InboxInv'
  BY DEF InboxInv, InboxTypes, LostToSameMillisecond, inboxVars

LEMMA StepInv == LinkInv /\ InboxInv /\ [Next]_vars => LinkInv' /\ InboxInv'
<1> SUFFICES ASSUME LinkInv, InboxInv, [Next]_vars PROVE LinkInv' /\ InboxInv'
  OBVIOUS
<1>1. CASE Linking /\ UNCHANGED inboxVars
  <2>1. LinkInv'
    BY <1>1, PageStep, FoundStep, ConnectStep, LinkedStep, DiscoveredStep, ListeningStep,
       FailStep, DisconnectStep, RadioStep DEF Linking
  <2>2. QED
    BY <1>1, <2>1, InboxInvFrame
<1>2. CASE Receiving /\ UNCHANGED <<serviceVars, radioVars, listVars, historyVars>>
  BY <1>2, ReceivingStep, LinkInvFrame
<1>3. CASE UNCHANGED vars
  BY <1>3, LinkInvFrame, InboxInvFrame DEF vars
<1>4. QED
  BY <1>1, <1>2, <1>3 DEF Next

LEMMA InvHolds == Spec => [](LinkInv /\ InboxInv)
  BY InitInv, StepInv, PTL DEF Spec

\* The service, the list and the radio stay within their types, and what is
\* shown, linked or connecting is a recorded device.
THEOREM BluetoothTypes == Spec => []TypeOK
  BY InvHolds, PartsSuffice, PTL

\* The newest row of a device shows what the service believes, however many
\* calls, scans and mounts there are.
THEOREM RowsAgree == Spec => []NewestRowAgrees
  BY InvHolds, PartsSuffice, PTL

\* Only a link the radio dropped is shown as connected while it is not.
THEOREM OnlyRadioMisleads == Spec => []ConnectedUnlessDropped
  BY InvHolds, PartsSuffice, PTL

\* A link that is not shown has a call, a failure or a scan to explain it.
THEOREM LinksAreAccounted == Spec => []LinkedIsAccounted
  BY InvHolds, PartsSuffice, PTL

\* A device has two handlers only where the user asked twice, or a failed call
\* left its link up.
THEOREM OneHandler == Spec => []HeardOnce
  BY InvHolds, PartsSuffice, PTL

\* A message from a device is lost only to another of the same millisecond.
THEOREM LossNeedsSameTime == Spec => []LostToSameMillisecond
  BY InvHolds, PartsSuffice, PTL

\* The scanning flags say whether the dialog is open.
THEOREM FlagsFollowDialog == Spec => []ScanFlagHonest
  BY InvHolds, PartsSuffice, PTL

=============================================================================
