----------------------------- MODULE UsbRequest ------------------------------
(***************************************************************************)
(* The SETUP header (setup_header_t in src/include/usb/usb.h), the tables  *)
(* of descriptors it selects from, and what the HID class says to a        *)
(* request addressed to it (HID_setup in src/src/usb/hid.c).               *)
(***************************************************************************)
EXTENDS Naturals, UsbEndpoint

\* wValue of SET_FEATURE and CLEAR_FEATURE.
USB_FEATURE_EP_HALT       == 0
USB_FEATURE_REMOTE_WAKEUP == 1
USB_FEATURE_TEST_MODE     == 2

MAX_CONFIGURATION_COUNT == 1
MAX_INTERFACE_COUNT     == 1

Commands == {"GET_STATUS", "CLEAR_FEATURE", "SET_FEATURE", "SET_ADDRESS",
             "GET_DESCRIPTOR", "SET_DESCRIPTOR", "GET_CONFIGURATION",
             "SET_CONFIGURATION", "GET_INTERFACE", "SET_INTERFACE",
             "HID_GET_IDLE", "HID_GET_PROTOCOL", "HID_SET_IDLE",
             "HID_SET_PROTOCOL", "HID_SET_REPORT"}

Words == 0..65535

\* The fifth bit pattern of the recipient field and the fourth of the type
\* field stand for every value the enumerations leave undefined.
Header ==
  [recipiant : {"DEVICE", "INTERFACE", "ENDPOINT", "OTHER"},
   type : {"STANDARD", "CLASS", "VENDOR", "RESERVED"},
   direction : {"IN", "OUT"}, command : Commands,
   value : Words, index : Words, length : Words]

\* A header of zero bytes, what the handle holds before the first SETUP.
ZeroHeader ==
  [recipiant |-> "DEVICE", type |-> "STANDARD", direction |-> "OUT",
   command |-> "GET_STATUS", value |-> 0, index |-> 0, length |-> 0]

Low(w)  == w % 256
High(w) == w \div 256

\* An endpoint address: bit 7 is the direction, the low nibble the number.
IsInAddress(a) == a >= 128
EpOf(a) == a % 16
IsEP0(a) == a = 0 \/ a = 128

Minimum(a, b) == IF a < b THEN a ELSE b

-----------------------------------------------------------------------------
(* Descriptors *)

DescriptorSize ==
  [device |-> 18, config |-> 34, lang_ID |-> 4, manufacturer |-> 14,
   product |-> 22, serial |-> 26, config_string |-> 22, interface |-> 28,
   report_desc |-> 63, hid_desc |-> 9]

StringDescriptor(id) ==
  CASE id = 0 -> "lang_ID" [] id = 1 -> "manufacturer" [] id = 2 -> "product"
    [] id = 3 -> "serial" [] id = 4 -> "config_string" [] id = 5 -> "interface"
    [] OTHER -> "NULL"

\* The descriptor of the device a wValue names; "NULL" is one it does not have.
DeviceDescriptor(value) ==
  CASE High(value) = 1 -> "device"
    [] High(value) = 2 -> "config"
    [] High(value) = 3 -> StringDescriptor(Low(value))
    [] OTHER -> "NULL"

HIDDescriptor(value) ==
  CASE High(value) = 34 -> "report_desc" [] High(value) = 33 -> "hid_desc"
    [] OTHER -> "NULL"

-----------------------------------------------------------------------------
(* What a control request is answered with: a data stage, an empty status  *)
(* packet, a stall of one or both halves of EP0, or nothing at all.        *)

Data(buffer, size) == [kind |-> "data", buffer |-> buffer, size |-> size]
Status   == [kind |-> "status",    buffer |-> "NULL", size |-> 0]
Stall    == [kind |-> "stall",     buffer |-> "NULL", size |-> 0]
StallIN  == [kind |-> "stall_in",  buffer |-> "NULL", size |-> 0]
StallOUT == [kind |-> "stall_out", buffer |-> "NULL", size |-> 0]
NoReply  == [kind |-> "none",      buffer |-> "NULL", size |-> 0]

\* What a reply does to the two halves of EP0, the mask and ep0_state.
ReplyIN(in, r) ==
  CASE r.kind \in {"data", "status"} -> IN_transfer(in, 0, r.buffer, r.size)
    [] r.kind \in {"stall", "stall_in"} -> stall_IEP(in, 0)
    [] OTHER -> in
ReplyOUT(out, r) == IF r.kind \in {"stall", "stall_out"} THEN stall_OEP(out, 0) ELSE out
ReplyMask(mask, r) == IN_transfer_mask(mask, 0, r.size)
ReplyState(r) ==
  CASE r.kind = "data" -> "DATA_IN" [] r.kind = "status" -> "STATUS_IN" [] OTHER -> "SETUP"

\* HID_setup: the reply it puts on EP0.  The values SET_IDLE, SET_PROTOCOL and
\* SET_INTERFACE store are data no property looks at.
HID_setup(dev_state, h) ==
  CASE h.type = "CLASS" /\ h.command = "HID_GET_PROTOCOL" -> Data("protocol", 1)
    [] h.type = "CLASS" /\ h.command = "HID_GET_IDLE" -> Data("idle", 1)
    [] h.type = "CLASS" /\ h.command \in {"HID_SET_PROTOCOL", "HID_SET_IDLE"} -> NoReply
    [] h.type = "STANDARD" /\ h.command = "CLEAR_FEATURE" -> NoReply
    [] h.type = "STANDARD" /\ h.command = "GET_DESCRIPTOR"
         /\ HIDDescriptor(h.value) # "NULL" ->
           Data(HIDDescriptor(h.value),
                Minimum(DescriptorSize[HIDDescriptor(h.value)], h.length))
    [] h.type = "STANDARD" /\ h.command = "GET_STATUS" /\ dev_state = "CONFIGURED" ->
           Data(StackVariable, 2)
    [] h.type = "STANDARD" /\ h.command = "GET_INTERFACE" /\ dev_state = "CONFIGURED" ->
           Data("alt_setting", 1)
    [] h.type = "STANDARD" /\ h.command = "SET_INTERFACE" /\ dev_state = "CONFIGURED" ->
           NoReply
    [] OTHER -> Stall

=============================================================================
