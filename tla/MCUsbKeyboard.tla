---------------------------- MODULE MCUsbKeyboard ----------------------------
(***************************************************************************)
(* Instances of UsbKeyboard for TLC.                                       *)
(***************************************************************************)
EXTENDS UsbKeyboard

Request(recipiant, direction, command, value, index, length) ==
  [recipiant |-> recipiant, type |-> "STANDARD", direction |-> direction, command |-> command,
   value |-> value, index |-> index, length |-> length]

\* Configuring the device, leaving the configuration, and halting endpoints.
KeyboardRequests ==
  {Request("DEVICE", "OUT", "SET_ADDRESS", 5, 0, 0),
   Request("DEVICE", "OUT", "SET_CONFIGURATION", 1, 0, 0),
   Request("DEVICE", "OUT", "SET_CONFIGURATION", 0, 0, 0),
   Request("ENDPOINT", "OUT", "SET_FEATURE", USB_FEATURE_EP_HALT, 129, 0),
   Request("ENDPOINT", "OUT", "SET_FEATURE", USB_FEATURE_EP_HALT, 128, 0),
   Request("ENDPOINT", "OUT", "CLEAR_FEATURE", USB_FEATURE_EP_HALT, 129, 0),
   Request("ENDPOINT", "IN", "GET_STATUS", 0, 128, 2),
   Request("ENDPOINT", "IN", "GET_STATUS", 0, 129, 2)}

\* Configuring the device, leaving the configuration, and a control read.
RacingRequests ==
  {Request("DEVICE", "IN", "GET_DESCRIPTOR", 256, 0, 64),
   Request("DEVICE", "OUT", "SET_ADDRESS", 5, 0, 0),
   Request("DEVICE", "OUT", "SET_CONFIGURATION", 1, 0, 0),
   Request("DEVICE", "OUT", "SET_CONFIGURATION", 0, 0, 0)}

\* The theorems about control transfers apply.
ASSUME RegularAssumption == \A h \in KeyboardRequests \cup RacingRequests : Regular(h)

=============================================================================
