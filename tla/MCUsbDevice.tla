----------------------------- MODULE MCUsbDevice -----------------------------
(***************************************************************************)
(* Instances of UsbDevice for TLC: the requests the host draws from and    *)
(* the sets of events that wait for the driver.                            *)
(***************************************************************************)
EXTENDS UsbDevice

Request(recipiant, type, direction, command, value, index, length) ==
  [recipiant |-> recipiant, type |-> type, direction |-> direction, command |-> command,
   value |-> value, index |-> index, length |-> length]

Dev(direction, command, value, length) ==
  Request("DEVICE", "STANDARD", direction, command, value, 0, length)
Intf(type, direction, command, value, length) ==
  Request("INTERFACE", type, direction, command, value, 0, length)
Endp(direction, command, value, address, length) ==
  Request("ENDPOINT", "STANDARD", direction, command, value, address, length)

\* The requests of an enumeration and what a host needs to leave it again.
Enumeration ==
  {Dev("IN", "GET_DESCRIPTOR", 256, 64),          \* device descriptor
   Dev("OUT", "SET_ADDRESS", 5, 0),
   Dev("OUT", "SET_CONFIGURATION", 1, 0),
   Dev("OUT", "SET_CONFIGURATION", 0, 0)}

\* The other requests of USB 2.0 chapter 9 and HID 1.11 that the code looks at.
Standard ==
  {Dev("OUT", "SET_ADDRESS", 0, 0),
   Dev("OUT", "SET_CONFIGURATION", 2, 0),
   Dev("IN", "GET_DESCRIPTOR", 770, 255),         \* product string
   Dev("IN", "GET_DESCRIPTOR", 1536, 10),         \* device qualifier: none
   Dev("IN", "GET_DESCRIPTOR", 256, 0),
   Dev("IN", "GET_STATUS", 0, 2),
   Dev("IN", "GET_CONFIGURATION", 0, 1),
   Dev("OUT", "SET_FEATURE", USB_FEATURE_REMOTE_WAKEUP, 0),
   Dev("OUT", "CLEAR_FEATURE", USB_FEATURE_REMOTE_WAKEUP, 0)}
Class ==
  {Intf("STANDARD", "IN", "GET_DESCRIPTOR", 8704, 63),  \* report descriptor
   Intf("STANDARD", "IN", "GET_STATUS", 0, 2),
   Intf("STANDARD", "IN", "GET_INTERFACE", 0, 1),
   Intf("STANDARD", "OUT", "SET_INTERFACE", 0, 0),
   Intf("CLASS", "IN", "HID_GET_PROTOCOL", 0, 1),
   Intf("CLASS", "OUT", "HID_SET_REPORT", 512, 1)}

\* Requests a host has little or no reason to send, which take the other branches;
\* those that halt an endpoint are in MCUsbKeyboard.
Unusual ==
  {Dev("OUT", "CLEAR_FEATURE", USB_FEATURE_TEST_MODE, 0),
   Intf("VENDOR", "OUT", "HID_SET_REPORT", 0, 0),
   Intf("CLASS", "OUT", "HID_SET_IDLE", 0, 1),
   Endp("OUT", "CLEAR_FEATURE", USB_FEATURE_EP_HALT, 128, 0),
   Endp("OUT", "CLEAR_FEATURE", USB_FEATURE_TEST_MODE, 128, 0),
   Request("ENDPOINT", "CLASS", "OUT", "HID_SET_IDLE", 0, 129, 0),
   Request("OTHER", "STANDARD", "OUT", "SET_FEATURE", 0, 0, 0)}

AnyRequest == Enumeration \cup Standard \cup Class \cup Unusual

\* The host is patient, except that it may reset the bus and give up on a
\* transfer at any time.
Timely == Events \ {"reset", "abort"}

\* The requests are those of the standards, the unusual ones too: the theorems about
\* control transfers ask for no more.
ASSUME RegularAssumption == \A h \in AnyRequest : Regular(h)

=============================================================================
