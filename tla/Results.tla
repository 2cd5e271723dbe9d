------------------------------- MODULE Results -------------------------------
(***************************************************************************)
(* The file of results (fileHandler.c): each call of writeToFile adds one   *)
(* device to an XML document on the disk, over the end tag that the call    *)
(* before has left.  A document is the sequence of its tokens: the tags     *)
(* around others, and the fields: a value between its tags, or nothing.     *)
(* A device, a slot and a subslot are functions from the tags to the values *)
(* under them; how a value is worded is left out.                           *)
(***************************************************************************)
EXTENDS Integers, Sequences, SequencesExt

CONSTANTS
  Nil,    \* a pointer that is NULL
  Fresh   \* an address all of whose bytes are 0xcd

Open(tag)  == <<"open", tag>>
Close(tag) == <<"close", tag>>

Element(tag, content) == <<Open(tag)>> \o content \o <<Close(tag)>>

Empty(tag) == << <<"empty", tag>> >>

\* The values for which the field is left empty.
Nothing ==
  {<<"subnetmask", Fresh>>, <<"defaultGateway", Fresh>>, <<"nameOfStation", Nil>>,
   <<"UDP_Port", 0>>, <<"ownPortID", Nil>>, <<"MAUType", 65535>>, <<"portstate", 0>>}

Field(tag, value) ==
  IF <<tag, value>> \in Nothing THEN Empty(tag) ELSE << <<"field", tag, value>> >>

FieldsOf(values, tags) ==
  FlattenSeq([i \in DOMAIN tags |-> Field(tags[i], values[tags[i]])])

ListOf(tag, elements) ==
  IF elements = <<>> THEN <<>> ELSE Element(tag, FlattenSeq(elements))

PeerTags == <<"peerChassisId", "peerPortID", "peerMACAddress">>

SubslotText(subslot) ==
  Element("Submodule",
    FieldsOf(subslot, <<"subslotNumber", "ownPortID", "submoduleIndetificationNumber">>)
      \o (IF subslot["peerChassisId"] # Nil /\ subslot["peerMACAddress"] # Nil
          THEN FieldsOf(subslot, PeerTags) ELSE <<>>)
      \o FieldsOf(subslot, <<"MAUType", "portstate">>))

ModuleTags ==
  <<"vendorId", "orderId", "IMserialNumber", "HardwareRevision", "softwareVersion",
    "IMprofilID", "IMprofilSpecificType", "IMversion", "IMsupported">>

\* All fields are empty for a slot that has not told its I&M0 data.
ModuleText(data) ==
  IF data["softwareVersion"] = Nil /\ data["IMversion"] = Nil
  THEN FlattenSeq([i \in DOMAIN ModuleTags |-> Empty(ModuleTags[i])])
  ELSE FieldsOf(data, ModuleTags)

SlotText(slot) ==
  Element("Module",
    FieldsOf(slot, <<"slotNumber", "moduleIdentificationNumber">>)
      \o ModuleText(slot.moduledata) \o Field("numberOfSubslots", slot.numberOfSubmodules)
      \o ListOf("Submodules", [i \in DOMAIN slot.subslotList |->
                                 SubslotText(slot.subslotList[i])]))

SlotsText(device) ==
  LET slots == device.slotList IN
  IF slots = <<>> THEN <<>>
  ELSE Element("Modules", Field("numberOfSlots", device.numberOfSlots)
                 \o FlattenSeq([i \in DOMAIN slots |-> SlotText(slots[i])]))

\* A device behind the gateway has its MAC, which is not shown.
AddressText(device, gatewayMac) ==
  FieldsOf(device, <<"ip-address">>)
    \o (IF device["mac-address"] = gatewayMac THEN Empty("mac-address")
        ELSE FieldsOf(device, <<"mac-address">>))
    \o FieldsOf(device, <<"subnetmask", "defaultGateway">>)

DeviceText(device, gatewayMac) ==
  Element("Device",
    AddressText(device, gatewayMac) \o FieldsOf(device, <<"vendorId", "deviceId">>)
      \o (IF device["deviceRole"] = 0 THEN <<>> ELSE FieldsOf(device, <<"deviceRole">>))
      \o FieldsOf(device, <<"nameOfStation", "softwareVersion", "HardwareRevision",
                          "deviceType", "orderId", "UDP_Port">>)
      \o SlotsText(device))

TopOfFile == << <<"xml">>, Open("DeviceCollection") >>

\* Writing behind the first tokens of a file replaces as many as are written.
Overwrite(file, behind, text) ==
  SubSeq(file, 1, behind) \o text
    \o SubSeq(file, behind + Len(text) + 1, Len(file))

\* Mutant of WritePosition: a device goes behind the end tag.
WritePositionAtEnd(disk) == Len(disk.file)

\* endpos, which is zero when the program has started.
WritePosition(disk) == disk.endpos

\* The file, and endpos, which is behind the device and before the end tag.
WriteToFile(disk, device, gatewayMac) ==
  LET from == IF disk.exists THEN disk
              ELSE [disk EXCEPT !.exists = TRUE, !.file = TopOfFile,
                                !.endpos = Len(TopOfFile)]
      text == DeviceText(device, gatewayMac)
  IN  IF ~disk.writable THEN disk
      ELSE [from EXCEPT
              !.file = Overwrite(from.file, WritePosition(from),
                                 text \o <<Close("DeviceCollection")>>),
              !.endpos = WritePosition(from) + Len(text)]

\* The program is started anew: the file stays, endpos does not.
Restart(disk) == [disk EXCEPT !.endpos = 0]

=============================================================================
