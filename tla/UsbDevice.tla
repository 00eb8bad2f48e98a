------------------------------ MODULE UsbDevice ------------------------------
(***************************************************************************)
(* The USB device driver (src/src/usb/usb_int.c) with the HID class        *)
(* (src/src/usb/hid.c), the core it drives and the host at the other end   *)
(* of the cable.                                                           *)
(*                                                                         *)
(* The driver is one interrupt handler.  A pass of USB_common_handler      *)
(* takes a snapshot of the pending interrupts and calls a handler for each *)
(* in a fixed order; `calls' holds the calls of the current pass that are  *)
(* still to be made, and each handler is one action.  Between two of them  *)
(* the core and the host go on: they may raise an interrupt after the      *)
(* snapshot was taken.  Pending bits of GINTSTS are cleared by writing     *)
(* ones, and the code writes them with |=, so every acknowledgement clears *)
(* all the bits that are set at that moment (Acknowledge).                 *)
(*                                                                         *)
(* An operator X_Slip right before X is X with one slip of the pen: a      *)
(* mutant that the property named in PROJECT.json tells from the code.     *)
(***************************************************************************)
EXTENDS Integers, Sequences, FiniteSets, UsbEndpoint, UsbRequest

CONSTANTS
  Requests,   \* the SETUP headers the host may send
  Prompt,     \* the events that wait until the driver has nothing left to do
  RxBound,    \* at most this many entries in the receive FIFO
  FifoDepth   \* a transmit FIFO has room for this many transfers

Events == {"reset", "enumeration", "suspend", "resume", "setup", "abort", "poll"}

ASSUME RequestsAssumption ==
  /\ Requests \subseteq Header
  /\ \A h \in Requests : h.recipiant = "ENDPOINT" => EpOf(Low(h.index)) \in EpNum
ASSUME PromptAssumption == Prompt \subseteq Events
ASSUME BoundsAssumption == RxBound \in Nat /\ FifoDepth \in Nat \ {0}

VARIABLES
  dev_state, dev_old_state, dev_config, remote_wakeup,   \* USB_handle_t
  ep0_state, setup, header,
  IN_ep, OUT_ep,             \* EP_handle_t, DIEPCTL, DOEPCTL
  DAINTMSK, DIEPEMPMSK,      \* interrupt masks of the endpoints
  DAD,                       \* the device address in DCFG
  hid_state,                 \* HID_handle.state
  calls,                     \* calls the current pass has still to make
  GINTSTS, DIEPINT, DOEPINT, \* raised interrupts
  fifo, rx,                  \* transmit FIFOs, receive FIFO
  bus, stage, req            \* the host: bus state, control transfer, its SETUP

handleVars == <<dev_state, dev_old_state, dev_config, remote_wakeup>>
controlVars == <<ep0_state, setup, header>>
epVars == <<IN_ep, OUT_ep, DAINTMSK, DIEPEMPMSK>>
coreVars == <<GINTSTS, DIEPINT, DOEPINT, fifo, rx, DAD>>
hostVars == <<bus, stage, req>>
driverVars == <<handleVars, controlVars, epVars, hid_state, calls>>
vars == <<handleVars, controlVars, epVars, hid_state, calls, coreVars, hostVars>>

DevStates == {"DEFAULT", "ADDRESSED", "CONFIGURED", "SUSPENDED"}
EP0States == {"IDLE", "SETUP", "DATA_IN", "DATA_OUT", "STATUS_IN", "STATUS_OUT"}
Stages == {"idle", "data_in", "data_out", "status_in", "status_out"}
GlobalInts == {"USBSUSP", "USBRST", "ENUMDNE", "WKUINT"}
Packets == Requests \cup {ZeroHeader}
RxEntries == [status : {"SETUP", "SETUP_DONE", "OUT_DONE"}, packet : Packets]

\* The state the device is in, whether or not the bus sleeps.
BaseState == IF dev_state = "SUSPENDED" THEN dev_old_state ELSE dev_state

-----------------------------------------------------------------------------
(* Interrupts *)

\* A handler call: its name, and the endpoint for the handlers that take one.
IEPCalls == {"IEP", "XFRC", "EPDISD", "TXFE"}
GlobalCalls == {"RXFLVL", "USBSUSP", "USBSUSP_ACK", "USBRST", "ENUMDNE", "IEPINT",
                "OEPINT", "OEP", "OUT_XFRC", "STUP", "WKUINT"}
Calls == (GlobalCalls \X {0}) \cup (IEPCalls \X EpNum)

GlobalOrder ==
  [RXFLVL |-> 0, USBSUSP |-> 1, USBSUSP_ACK |-> 2, USBRST |-> 3, ENUMDNE |-> 4,
   IEPINT |-> 5, OEPINT |-> 14, OEP |-> 15, OUT_XFRC |-> 16, STUP |-> 17, WKUINT |-> 18]
IEPOrder == [IEP |-> 6, XFRC |-> 7, EPDISD |-> 8, TXFE |-> 9]

\* The position of a call in USB_common_handler and the endpoint handlers.
Order(c) == IF c[1] \in IEPCalls THEN IEPOrder[c[1]] + 4 * c[2] ELSE GlobalOrder[c[1]]

\* The driver makes the call c, the first one left of this pass.
Calling(c) == c \in calls /\ \A d \in calls : Order(c) <= Order(d)
Done(c) == calls' = calls \ {c}

\* The FIFO-empty bit of an endpoint is a level: there is room for a transfer.
FifoEmpty(n) == Len(fifo[n]) < FifoDepth
EndpointRaised(n) == DIEPINT[n] # {} \/ (n \in DIEPEMPMSK /\ FifoEmpty(n))

\* What GINTSTS & GINTMSK reads; the first three are levels.
Raised ==
  (IF rx # <<>> THEN {"RXFLVL"} ELSE {})
    \cup (IF \E n \in EpNum : n \in DAINTMSK /\ EndpointRaised(n) THEN {"IEPINT"} ELSE {})
    \cup (IF DOEPINT # {} /\ 16 \in DAINTMSK THEN {"OEPINT"} ELSE {})
    \cup GINTSTS

\* The driver has nothing left to do, the core nothing to stop.
Quiet == calls = {} /\ Raised = {} /\ \A n \in EpNum : ~IN_ep[n].EPDIS
May(event) == event \in Prompt => Quiet

\* GINTSTS |= bit, which writes back a one to every bit that reads as one.
Acknowledge == GINTSTS' = {}

-----------------------------------------------------------------------------
Init ==
  /\ dev_state = "DEFAULT" /\ dev_old_state = "DEFAULT"
  /\ dev_config = 0 /\ remote_wakeup = FALSE
  /\ ep0_state = "IDLE" /\ setup = ZeroHeader /\ header = ZeroHeader
  /\ IN_ep = InitialIN /\ OUT_ep = InitialOUT
  /\ DAINTMSK = {} /\ DIEPEMPMSK = {} /\ DAD = 0
  /\ hid_state = "IDLE"
  /\ calls = {}
  /\ GINTSTS = {} /\ DIEPINT = [n \in EpNum |-> {}] /\ DOEPINT = {}
  /\ fifo = [n \in EpNum |-> <<>>] /\ rx = <<>>
  /\ bus = "off" /\ stage = "idle" /\ req = ZeroHeader

-----------------------------------------------------------------------------
(* The host and the core: external to the code. *)

\* The host resets the bus, at any time; the transfer it was in is over.
BusReset ==
  /\ May("reset")
  /\ bus # "reset"
  /\ bus' = "reset"
  /\ stage' = "idle"
  /\ GINTSTS' = GINTSTS \cup {"USBRST"}
  /\ UNCHANGED <<driverVars, DIEPINT, DOEPINT, fifo, rx, DAD, req>>

\* The reset ends and the core has found the speed of the bus.
Enumerated ==
  /\ May("enumeration")
  /\ bus = "reset"
  /\ bus' = "active"
  /\ GINTSTS' = GINTSTS \cup {"ENUMDNE"}
  /\ UNCHANGED <<driverVars, DIEPINT, DOEPINT, fifo, rx, DAD, stage, req>>

\* The bus has been idle for 3 ms.
BusSuspend ==
  /\ May("suspend")
  /\ bus = "active" /\ stage = "idle"
  /\ bus' = "suspended"
  /\ GINTSTS' = GINTSTS \cup {"USBSUSP"}
  /\ UNCHANGED <<driverVars, DIEPINT, DOEPINT, fifo, rx, DAD, stage, req>>

BusResume ==
  /\ May("resume")
  /\ bus = "suspended"
  /\ bus' = "active"
  /\ GINTSTS' = GINTSTS \cup {"WKUINT"}
  /\ UNCHANGED <<driverVars, DIEPINT, DOEPINT, fifo, rx, DAD, stage, req>>

FirstStage(h) ==
  IF h.length = 0 THEN "status_in" ELSE IF h.direction = "IN" THEN "data_in" ELSE "data_out"

\* A SETUP packet is always accepted: the core clears STALL and sets NAK on both
\* halves of EP0, and pushes the packet and, with the token that follows it, the
\* end of the setup stage.
HostSetup ==
  /\ May("setup")
  /\ bus = "active" /\ stage = "idle"
  /\ Len(rx) + 2 <= RxBound
  /\ \E h \in Requests :
       /\ rx' = rx \o <<[status |-> "SETUP", packet |-> h], [status |-> "SETUP_DONE", packet |-> h]>>
       /\ req' = h
       /\ stage' = FirstStage(h)
  /\ IN_ep' = [IN_ep EXCEPT ![0] = [@ EXCEPT !.STALL = FALSE, !.EPENA = FALSE]]
  /\ OUT_ep' = [OUT_ep EXCEPT ![0] = [@ EXCEPT !.STALL = FALSE, !.EPENA = FALSE]]
  /\ UNCHANGED <<handleVars, controlVars, DAINTMSK, DIEPEMPMSK, hid_state, calls,
                 GINTSTS, DIEPINT, DOEPINT, fifo, DAD, bus>>

\* Endpoint n sends: a packet without data, or the transfer at the head of its FIFO.
CanSend(n) ==
  /\ IN_ep[n].USBAEP /\ IN_ep[n].EPENA /\ ~IN_ep[n].STALL
  /\ IN_ep[n].size = 0 \/ fifo[n] # <<>>
Send(n) ==
  /\ CanSend(n)
  /\ IN_ep' = [IN_ep EXCEPT ![n].EPENA = FALSE]
  /\ fifo' = IF IN_ep[n].size = 0 THEN fifo ELSE [fifo EXCEPT ![n] = Tail(@)]
  /\ DIEPINT' = [DIEPINT EXCEPT ![n] = @ \cup {"XFRC"}]
  /\ UNCHANGED <<handleVars, controlVars, OUT_ep, DAINTMSK, DIEPEMPMSK, hid_state, calls,
                 GINTSTS, DOEPINT, rx, DAD, bus, req>>

HostReadsData ==
  /\ bus = "active" /\ stage = "data_in"
  /\ Send(0)
  /\ stage' = "status_out"

HostReadsStatus ==
  /\ bus = "active" /\ stage = "status_in"
  /\ Send(0)
  /\ stage' = "idle"

\* After a resume the host waits 10 ms before it polls again: if that is enough,
\* until the driver has seen the resume.
HostReadsReport ==
  /\ "poll" \in Prompt => "WKUINT" \notin GINTSTS /\ <<"WKUINT", 0>> \notin calls
  /\ bus = "active"
  /\ Send(1)
  /\ UNCHANGED stage

\* The empty OUT packet that ends a control read.
HostSendsStatus ==
  /\ bus = "active" /\ stage = "status_out"
  /\ OUT_ep[0].EPENA /\ ~OUT_ep[0].STALL
  /\ Len(rx) < RxBound
  /\ OUT_ep' = [OUT_ep EXCEPT ![0].EPENA = FALSE]
  /\ rx' = Append(rx, [status |-> "OUT_DONE", packet |-> req])
  /\ stage' = "idle"
  /\ UNCHANGED <<handleVars, controlVars, IN_ep, DAINTMSK, DIEPEMPMSK, hid_state, calls,
                 GINTSTS, DIEPINT, DOEPINT, fifo, DAD, bus, req>>

\* The endpoint half the host addresses in this stage answers with STALL.
Stalled ==
  \/ stage \in {"data_in", "status_in"} /\ IN_ep[0].STALL
  \/ stage \in {"data_out", "status_out"} /\ OUT_ep[0].STALL
HostSeesStall ==
  /\ bus = "active" /\ Stalled
  /\ stage' = "idle"
  /\ UNCHANGED <<driverVars, coreVars, bus, req>>

\* The device moves data in this stage, it does not just send NAKs.
Answered ==
  \/ stage \in {"data_in", "status_in"} /\ CanSend(0)
  \/ stage = "status_out" /\ OUT_ep[0].EPENA

\* The host gives up on a transfer; if it is patient, on one that gets only NAKs.
HostAborts ==
  /\ May("abort")
  /\ bus = "active" /\ stage # "idle"
  /\ "abort" \in Prompt => ~Stalled /\ ~Answered
  /\ stage' = "idle"
  /\ UNCHANGED <<driverVars, coreVars, bus, req>>

\* The core has stopped a transfer that close_IEP disabled.
EndpointDisabled ==
  \E n \in EpNum :
    /\ IN_ep[n].EPDIS
    /\ IN_ep' = [IN_ep EXCEPT ![n].EPDIS = FALSE]
    /\ DIEPINT' = [DIEPINT EXCEPT ![n] = @ \cup {"EPDISD"}]
    /\ UNCHANGED <<handleVars, controlVars, OUT_ep, DAINTMSK, DIEPEMPMSK, hid_state, calls,
                   GINTSTS, DOEPINT, fifo, rx, DAD, hostVars>>

-----------------------------------------------------------------------------
(* A pass of the handler *)

\* USB_common_handler: the snapshot of the pending interrupts.
USB_common_handler ==
  /\ calls = {} /\ Raised # {}
  /\ calls' = Raised \X {0}
  /\ UNCHANGED <<handleVars, controlVars, epVars, hid_state, coreVars, hostVars>>

\* Popping the end of a setup stage or of a transfer raises its interrupt.
USB_receive_packet_IRQ ==
  /\ Calling(<<"RXFLVL", 0>>) /\ Done(<<"RXFLVL", 0>>)
  /\ rx' = Tail(rx)
  /\ setup' = IF Head(rx).status = "SETUP" THEN Head(rx).packet ELSE setup
  /\ DOEPINT' = DOEPINT \cup (CASE Head(rx).status = "SETUP_DONE" -> {"STUP"}
                                [] Head(rx).status = "OUT_DONE" -> {"XFRC"}
                                [] OTHER -> {})
  /\ UNCHANGED <<handleVars, ep0_state, header, epVars, hid_state,
                 GINTSTS, DIEPINT, fifo, DAD, hostVars>>

\* USB_suspend_IRQ up to its acknowledgement, which is the next call: a wake-up
\* that comes in between is lost.
USB_suspend_IRQ ==
  /\ Calling(<<"USBSUSP", 0>>)
  /\ calls' = (calls \ {<<"USBSUSP", 0>>}) \cup {<<"USBSUSP_ACK", 0>>}
  /\ IF bus = "suspended"
       THEN /\ dev_old_state' = IF dev_state # "SUSPENDED" THEN dev_state ELSE dev_old_state
            /\ dev_state' = "SUSPENDED"
       ELSE UNCHANGED <<dev_state, dev_old_state>>
  /\ UNCHANGED <<dev_config, remote_wakeup, controlVars, epVars, hid_state, coreVars, hostVars>>

USB_suspend_acknowledge ==
  /\ Calling(<<"USBSUSP_ACK", 0>>) /\ Done(<<"USBSUSP_ACK", 0>>)
  /\ Acknowledge
  /\ UNCHANGED <<handleVars, controlVars, epVars, hid_state, DIEPINT, DOEPINT, fifo, rx, DAD,
                 hostVars>>

flush_TX_FIFOS_Forgotten == fifo
flush_TX_FIFOS == [n \in EpNum |-> <<>>]

USB_reset_IRQ ==
  /\ Calling(<<"USBRST", 0>>) /\ Done(<<"USBRST", 0>>)
  /\ fifo' = flush_TX_FIFOS
  /\ DIEPINT' = [n \in EpNum |-> {}]
  /\ DOEPINT' = {}
  /\ IN_ep' = [n \in EpNum |-> [IN_ep[n] EXCEPT !.STALL = FALSE]]
  /\ OUT_ep' = [n \in EpNum |-> [OUT_ep[n] EXCEPT !.STALL = FALSE, !.EPENA = FALSE]]
  /\ DAINTMSK' = DAINTMSK \cup {0, 16}
  /\ DAD' = 0
  /\ Acknowledge
  /\ UNCHANGED <<handleVars, controlVars, DIEPEMPMSK, hid_state, rx, hostVars>>

\* HID_init and HID_deinit, as they act on the endpoints.
HID_init(in) == [open_IEP(in, HID_IEP, HID_MPS) EXCEPT ![HID_IEP].is_used = TRUE]
HID_deinit_StillUsed(in) == close_IEP(in, HID_IEP)
HID_deinit(in) == [close_IEP(in, HID_IEP) EXCEPT ![HID_IEP].is_used = FALSE]

USB_enumeration_done_IRQ ==
  /\ Calling(<<"ENUMDNE", 0>>) /\ Done(<<"ENUMDNE", 0>>)
  /\ dev_state' = "DEFAULT"
  /\ ep0_state' = "IDLE"
  /\ dev_config' = 0
  /\ remote_wakeup' = FALSE
  /\ OUT_ep' = [open_OEP(OUT_ep, 0) EXCEPT ![0].is_used = TRUE]
  /\ IN_ep' = [open_IEP(HID_deinit(IN_ep), 0, EP0_MPS) EXCEPT ![0].is_used = TRUE]
  /\ DAINTMSK' = open_IEP_mask(open_OEP_mask(close_IEP_mask(DAINTMSK, HID_IEP), 0), 0)
  /\ Acknowledge
  /\ UNCHANGED <<dev_old_state, setup, header, DIEPEMPMSK, hid_state,
                 DIEPINT, DOEPINT, fifo, rx, DAD, hostVars>>

USB_wake_up_IRQ ==
  /\ Calling(<<"WKUINT", 0>>) /\ Done(<<"WKUINT", 0>>)
  /\ dev_state' = BaseState
  /\ Acknowledge
  /\ UNCHANGED <<dev_old_state, dev_config, remote_wakeup, controlVars, epVars, hid_state,
                 DIEPINT, DOEPINT, fifo, rx, DAD, hostVars>>

-----------------------------------------------------------------------------
(* IN endpoints *)

IEP_interrupts ==
  /\ Calling(<<"IEPINT", 0>>)
  /\ calls' = (calls \ {<<"IEPINT", 0>>})
                \cup {<<"IEP", n>> : n \in {m \in EpNum : m \in DAINTMSK /\ EndpointRaised(m)}}
  /\ UNCHANGED <<handleVars, controlVars, epVars, hid_state, coreVars, hostVars>>

\* The snapshot ep_int.  Its FIFO-empty bit is the mask bit alone.
IEP_common_handler ==
  \E n \in EpNum :
    /\ Calling(<<"IEP", n>>)
    /\ calls' = (calls \ {<<"IEP", n>>})
                  \cup ({"XFRC", "EPDISD"} \cap DIEPINT[n]) \X {n}
                  \cup (IF n \in DIEPEMPMSK THEN {<<"TXFE", n>>} ELSE {})
    /\ UNCHANGED <<handleVars, controlVars, epVars, hid_state, coreVars, hostVars>>

\* The completion belongs to the data stage of a control read.
InDataStage_AnyEndpoint(n) == ep0_state = "DATA_IN"
InDataStage(n) == n = 0 /\ ep0_state = "DATA_IN"

\* The class hears of a report that has left: it is idle again.
HID_in_transfer_Never(n) == hid_state
HID_in_transfer(n) == IF n = HID_IEP /\ dev_state = "CONFIGURED" THEN "IDLE" ELSE hid_state

\* EP0: the data stage goes on, ends with an empty packet, or is over.
IEP_transfer_complete_IRQ ==
  \E n \in EpNum :
    /\ Calling(<<"XFRC", n>>) /\ Done(<<"XFRC", n>>)
    /\ DIEPINT' = [DIEPINT EXCEPT ![n] = {}]
    /\ LET ep == IN_ep[0]
           left == ep.size - ep.count
       IN  IF InDataStage(n)
             THEN /\ OUT_ep' = OUT_transfer(OUT_ep, 0)
                  /\ IF left > ep.mps
                       THEN /\ IN_ep' = IN_transfer(IN_ep, 0, ep.buffer, left)
                            /\ DIEPEMPMSK' = DIEPEMPMSK \cup {0}
                            /\ UNCHANGED ep0_state
                       ELSE IF left = ep.mps /\ ep.size >= ep.mps /\ ep.size < header.length
                         THEN /\ IN_ep' = IN_transfer(IN_ep, 0, "NULL", 0)
                              /\ DIEPEMPMSK' = DIEPEMPMSK \ {0}
                              /\ UNCHANGED ep0_state
                         ELSE /\ IN_ep' = stall_IEP(IN_ep, 0)
                              /\ DIEPEMPMSK' = DIEPEMPMSK \ {0}
                              /\ ep0_state' = "STATUS_OUT"
             ELSE /\ DIEPEMPMSK' = DIEPEMPMSK \ {n}
                  /\ UNCHANGED <<IN_ep, OUT_ep, ep0_state>>
    /\ hid_state' = HID_in_transfer(n)
    /\ UNCHANGED <<handleVars, setup, header, DAINTMSK, GINTSTS, DOEPINT, fifo, rx, DAD, hostVars>>

flush_TX_FIFO_Forgotten(n) == fifo
flush_TX_FIFO(n) == [fifo EXCEPT ![n] = <<>>]

IEP_disabled_IRQ ==
  \E n \in EpNum :
    /\ Calling(<<"EPDISD", n>>) /\ Done(<<"EPDISD", n>>)
    /\ fifo' = flush_TX_FIFO(n)
    /\ DIEPINT' = [DIEPINT EXCEPT ![n] = {}]
    /\ UNCHANGED <<handleVars, controlVars, epVars, hid_state, GINTSTS, DOEPINT, rx, DAD, hostVars>>

\* Copies what is left of the transfer if the FIFO has room for it.
IEP_FIFO_empty_IRQ ==
  \E n \in EpNum :
    /\ Calling(<<"TXFE", n>>) /\ Done(<<"TXFE", n>>)
    /\ LET ep == IN_ep[n]
           copies == ep.count < ep.size /\ FifoEmpty(n)
       IN  /\ fifo' = IF copies THEN [fifo EXCEPT ![n] = Append(@, ep.buffer)] ELSE fifo
           /\ IN_ep' = IF copies THEN [IN_ep EXCEPT ![n].count = ep.size] ELSE IN_ep
           /\ DIEPEMPMSK' = IF copies \/ ep.size <= ep.count THEN DIEPEMPMSK \ {n} ELSE DIEPEMPMSK
    /\ UNCHANGED <<handleVars, controlVars, OUT_ep, DAINTMSK, hid_state,
                   GINTSTS, DIEPINT, DOEPINT, rx, DAD, hostVars>>

-----------------------------------------------------------------------------
(* OUT endpoint 0 *)

OEP_interrupts ==
  /\ Calling(<<"OEPINT", 0>>)
  /\ calls' = (calls \ {<<"OEPINT", 0>>})
                \cup (IF DOEPINT # {} /\ 16 \in DAINTMSK THEN {<<"OEP", 0>>} ELSE {})
  /\ UNCHANGED <<handleVars, controlVars, epVars, hid_state, coreVars, hostVars>>

OEP_common_handler ==
  /\ Calling(<<"OEP", 0>>)
  /\ calls' = (calls \ {<<"OEP", 0>>})
                \cup (IF "XFRC" \in DOEPINT THEN {<<"OUT_XFRC", 0>>} ELSE {})
                \cup (IF "STUP" \in DOEPINT THEN {<<"STUP", 0>>} ELSE {})
  /\ UNCHANGED <<handleVars, controlVars, epVars, hid_state, coreVars, hostVars>>

\* No request has a data stage from the host, so ep0_state is never EP0_DATA_OUT
\* here; HID has no data_OUT callback.
OEP_transfer_complete ==
  /\ Calling(<<"OUT_XFRC", 0>>) /\ Done(<<"OUT_XFRC", 0>>)
  /\ DOEPINT' = {}
  /\ IF ep0_state = "DATA_OUT"
       THEN /\ ep0_state' = "STATUS_IN"
            /\ IN_ep' = IN_transfer(IN_ep, 0, "NULL", 0)
       ELSE UNCHANGED <<ep0_state, IN_ep>>
  /\ UNCHANGED <<handleVars, setup, header, OUT_ep, DAINTMSK, DIEPEMPMSK, hid_state,
                 GINTSTS, DIEPINT, fifo, rx, DAD, hostVars>>

-----------------------------------------------------------------------------
(* Requests to the device.  Each operator is the reply to the header h in  *)
(* the current state; what a request changes beside EP0 is in the action.  *)

get_device_status(h) ==
  IF dev_state = "SUSPENDED" \/ h.length # 2 THEN Stall ELSE Data("dev_config_status", 2)

\* Clearing any other feature is not answered.
clear_device_feature(h) ==
  IF dev_state = "SUSPENDED" THEN Stall
    ELSE IF h.value = USB_FEATURE_REMOTE_WAKEUP THEN Status ELSE NoReply

set_device_feature(h) ==
  IF h.value \in {USB_FEATURE_REMOTE_WAKEUP, USB_FEATURE_TEST_MODE} THEN Status ELSE Stall

AcceptsAddress_AnyState(h) == h.index = 0 /\ h.length = 0 /\ h.value < 128
AcceptsAddress(h) ==
  h.index = 0 /\ h.length = 0 /\ h.value < 128 /\ dev_state # "CONFIGURED"

AddressState_Always(h) == "ADDRESSED"
AddressState(h) == IF h.value % 128 = 0 THEN "DEFAULT" ELSE "ADDRESSED"

get_device_descriptor_Empty(h) ==
  LET d == DeviceDescriptor(h.value)
  IN  IF d = "NULL" THEN Stall ELSE Data(d, Minimum(DescriptorSize[d], h.length))
get_device_descriptor(h) ==
  LET d == DeviceDescriptor(h.value)
  IN  IF d = "NULL" THEN Stall
        ELSE IF h.length = 0 THEN Status ELSE Data(d, Minimum(DescriptorSize[d], h.length))

\* The only wLength the code takes for GET_CONFIGURATION, 0xFFFF.
ConfigurationLength == 65535
get_device_configuration(h) ==
  IF h.length # ConfigurationLength \/ dev_state = "SUSPENDED" THEN Stall
    ELSE Data(IF dev_state = "CONFIGURED" THEN "dev_config" ELSE "dev_default_config", 1)

\* The reply takes effect on the endpoints in and on out.
Answer(r, in, out) ==
  /\ ep0_state' = ReplyState(r)
  /\ IN_ep' = ReplyIN(in, r)
  /\ OUT_ep' = ReplyOUT(out, r)
  /\ DIEPEMPMSK' = ReplyMask(DIEPEMPMSK, r)

AnswerOnly(r) ==
  /\ Answer(r, IN_ep, OUT_ep)
  /\ UNCHANGED <<handleVars, DAINTMSK, DAD, hid_state>>

ChangeRemoteWakeup(r, value) ==
  /\ Answer(r, IN_ep, OUT_ep)
  /\ remote_wakeup' = value
  /\ UNCHANGED <<dev_state, dev_old_state, dev_config, DAINTMSK, DAD, hid_state>>

set_device_address(h) ==
  IF AcceptsAddress(h)
    THEN /\ Answer(Status, IN_ep, OUT_ep)
         /\ DAD' = h.value % 128
         /\ dev_state' = AddressState(h)
         /\ UNCHANGED <<dev_old_state, dev_config, remote_wakeup, DAINTMSK, hid_state>>
    ELSE AnswerOnly(Stall)

\* HID_init opens the HID endpoint and forgets a transfer that was in progress;
\* it does not fail, so the branches for a failing init are never taken.
Configure_KeepsClass(in, config) ==
  /\ Answer(Status, HID_init(in), OUT_ep)
  /\ DAINTMSK' = open_IEP_mask(DAINTMSK, HID_IEP)
  /\ dev_config' = config
  /\ dev_state' = "CONFIGURED"
  /\ UNCHANGED <<dev_old_state, remote_wakeup, DAD, hid_state>>
Configure(in, config) ==
  /\ Answer(Status, HID_init(in), OUT_ep)
  /\ DAINTMSK' = open_IEP_mask(DAINTMSK, HID_IEP)
  /\ hid_state' = "IDLE"
  /\ dev_config' = config
  /\ dev_state' = "CONFIGURED"
  /\ UNCHANGED <<dev_old_state, remote_wakeup, DAD>>

\* HID_deinit closes the HID endpoint.
Unconfigure(r, state, config) ==
  /\ Answer(r, HID_deinit(IN_ep), OUT_ep)
  /\ DAINTMSK' = close_IEP_mask(DAINTMSK, HID_IEP)
  /\ dev_config' = config
  /\ dev_state' = state
  /\ UNCHANGED <<dev_old_state, remote_wakeup, DAD, hid_state>>

RejectsConfiguration_OffByOne(config) == config > MAX_CONFIGURATION_COUNT + 1
RejectsConfiguration(config) == config > MAX_CONFIGURATION_COUNT

set_device_configuration(h) ==
  LET config == Low(h.value)
  IN  CASE RejectsConfiguration(config) -> AnswerOnly(Stall)
        [] ~RejectsConfiguration(config) /\ dev_state = "ADDRESSED" ->
             IF config = 0 THEN AnswerOnly(Status) ELSE Configure(IN_ep, config)
        [] ~RejectsConfiguration(config) /\ dev_state = "CONFIGURED" ->
             CASE config = 0 -> Unconfigure(Status, "ADDRESSED", config)
               [] config # 0 /\ config # dev_config -> Configure(HID_deinit(IN_ep), config)
               [] OTHER -> AnswerOnly(Status)
        [] OTHER -> Unconfigure(Stall, dev_state, dev_config)

DeviceRequest(h) ==
  /\ h.recipiant = "DEVICE"
  /\ CASE h.type = "STANDARD" /\ h.command = "GET_STATUS" -> AnswerOnly(get_device_status(h))
       [] h.type = "STANDARD" /\ h.command = "CLEAR_FEATURE" ->
            ChangeRemoteWakeup(clear_device_feature(h),
                               remote_wakeup /\ clear_device_feature(h) # Status)
       [] h.type = "STANDARD" /\ h.command = "SET_FEATURE" ->
            ChangeRemoteWakeup(set_device_feature(h),
                               remote_wakeup \/ h.value = USB_FEATURE_REMOTE_WAKEUP)
       [] h.type = "STANDARD" /\ h.command = "SET_ADDRESS" -> set_device_address(h)
       [] h.type = "STANDARD" /\ h.command = "GET_DESCRIPTOR" ->
            AnswerOnly(get_device_descriptor(h))
       [] h.type = "STANDARD" /\ h.command = "GET_CONFIGURATION" ->
            AnswerOnly(get_device_configuration(h))
       [] h.type = "STANDARD" /\ h.command = "SET_CONFIGURATION" -> set_device_configuration(h)
       [] OTHER -> AnswerOnly(Stall)

-----------------------------------------------------------------------------
(* Requests to an interface or an endpoint *)

RejectsInterface(h) ==
  dev_state \in {"SUSPENDED", "DEFAULT"} \/ h.type = "RESERVED"
    \/ Low(h.index) > MAX_INTERFACE_COUNT

\* A request without a data stage is acknowledged whatever HID_setup replied.
InterfaceRequest(h) ==
  /\ h.recipiant = "INTERFACE"
  /\ LET r == IF RejectsInterface(h) THEN Stall ELSE HID_setup(dev_state, h)
         acknowledged == ~RejectsInterface(h) /\ h.length = 0
     IN  /\ ep0_state' = IF acknowledged THEN "STATUS_IN" ELSE ReplyState(r)
         /\ IN_ep' = IF acknowledged THEN ReplyIN(ReplyIN(IN_ep, r), Status) ELSE ReplyIN(IN_ep, r)
         /\ OUT_ep' = ReplyOUT(OUT_ep, r)
         /\ DIEPEMPMSK' = ReplyMask(DIEPEMPMSK, r)
  /\ UNCHANGED <<handleVars, DAINTMSK, DAD, hid_state>>

Address(h) == Low(h.index)

\* OUT endpoint 1 is never marked as used, so CONFIGURED only answers for EP0.
get_dendpoint_status(h) ==
  LET a == Address(h)
      n == EpOf(a)
      unused == (IsInAddress(a) /\ ~IN_ep[n].is_used) \/ ~OUT_ep[n].is_used
      halted == ~IsEP0(a) /\ ((IsInAddress(a) /\ IN_ep[n].is_stall) \/ OUT_ep[n].is_stall)
  IN  CASE dev_state = "ADDRESSED" /\ IsEP0(a) -> Data("ep_status", 2)
        [] dev_state = "CONFIGURED" /\ ~unused ->
             Data(IF halted THEN "ep_status_halted" ELSE "ep_status", 2)
        [] OTHER -> Stall

\* The endpoint of the address, stalled.
HaltIN(a)  == IF IsInAddress(a) THEN stall_IEP(IN_ep, EpOf(a)) ELSE IN_ep
HaltOUT(a) == IF IsInAddress(a) THEN OUT_ep ELSE stall_OEP(OUT_ep, EpOf(a))

set_endpoin_feature(h) ==
  LET a == Address(h)
  IN  CASE dev_state = "ADDRESSED" ->
             IF IsEP0(a) THEN Answer(Stall, IN_ep, OUT_ep)
                         ELSE Answer(StallIN, HaltIN(a), HaltOUT(a))
        [] dev_state = "CONFIGURED" ->
             IF h.value = USB_FEATURE_EP_HALT /\ ~IsEP0(a) /\ h.length = 0
               THEN Answer(Status, HaltIN(a), HaltOUT(a))
               ELSE Answer(Status, IN_ep, OUT_ep)
        [] OTHER -> Answer(Stall, IN_ep, OUT_ep)

\* In CONFIGURED only EP0 is ever unstalled, and only a halt is answered; the
\* class has nothing to do for a standard CLEAR_FEATURE.
clear_endpoint_feature(h) ==
  LET a == Address(h)
  IN  CASE dev_state = "ADDRESSED" ->
             IF IsEP0(a) THEN Answer(Stall, IN_ep, OUT_ep) ELSE Answer(Stall, HaltIN(a), HaltOUT(a))
        [] dev_state = "CONFIGURED" ->
             IF h.value = USB_FEATURE_EP_HALT
               THEN Answer(Status,
                           IF a = 128 THEN unstall_IEP(IN_ep, 0) ELSE IN_ep,
                           IF a = 0 THEN unstall_OEP(OUT_ep, 0) ELSE OUT_ep)
               ELSE Answer(NoReply, IN_ep, OUT_ep)
        [] OTHER -> Answer(Stall, IN_ep, OUT_ep)

EndpointRequest(h) ==
  /\ h.recipiant = "ENDPOINT"
  /\ CASE h.type = "STANDARD" /\ h.command = "SET_FEATURE" -> set_endpoin_feature(h)
       [] h.type = "STANDARD" /\ h.command = "CLEAR_FEATURE" -> clear_endpoint_feature(h)
       [] h.type = "STANDARD" /\ h.command = "GET_STATUS" ->
            Answer(get_dendpoint_status(h), IN_ep, OUT_ep)
       [] h.type \in {"CLASS", "VENDOR"} -> Answer(HID_setup(dev_state, h), IN_ep, OUT_ep)
       [] OTHER -> Answer(Stall, IN_ep, OUT_ep)
  /\ UNCHANGED <<handleVars, DAINTMSK, DAD, hid_state>>

OtherRequest(h) ==
  /\ h.recipiant = "OTHER"
  /\ AnswerOnly(IF h.direction = "IN" THEN StallIN ELSE StallOUT)

\* The setup stage is over: the packet becomes the header and is acted upon.
OEP_setup_done ==
  /\ Calling(<<"STUP", 0>>) /\ Done(<<"STUP", 0>>)
  /\ DOEPINT' = {}
  /\ header' = setup
  /\ \/ DeviceRequest(setup)
     \/ InterfaceRequest(setup)
     \/ EndpointRequest(setup)
     \/ OtherRequest(setup)
  /\ UNCHANGED <<setup, GINTSTS, DIEPINT, fifo, rx, hostVars>>

-----------------------------------------------------------------------------
(* Thread mode *)

\* A report is submitted while no interrupt is pending; UsbKeyboard has the call
\* step by step.
send_HID_report ==
  /\ calls = {} /\ Raised = {}
  /\ dev_state = "CONFIGURED" /\ hid_state = "IDLE"
  /\ hid_state' = "BUSY"
  /\ IN_ep' = IN_transfer(IN_ep, HID_IEP, "report", 8)
  /\ DIEPEMPMSK' = IN_transfer_mask(DIEPEMPMSK, HID_IEP, 8)
  /\ UNCHANGED <<handleVars, controlVars, OUT_ep, DAINTMSK, calls, coreVars, hostVars>>

-----------------------------------------------------------------------------
BusEvent == BusReset \/ Enumerated \/ BusSuspend \/ BusResume \/ HostSetup

Core ==
  \/ HostReadsData \/ HostReadsStatus \/ HostSendsStatus \/ HostReadsReport
  \/ HostSeesStall \/ HostAborts \/ EndpointDisabled

Driver ==
  \/ USB_common_handler
  \/ USB_receive_packet_IRQ
  \/ USB_suspend_IRQ \/ USB_suspend_acknowledge
  \/ USB_reset_IRQ \/ USB_enumeration_done_IRQ
  \/ IEP_interrupts \/ IEP_common_handler
  \/ IEP_transfer_complete_IRQ \/ IEP_disabled_IRQ \/ IEP_FIFO_empty_IRQ
  \/ OEP_interrupts \/ OEP_common_handler
  \/ OEP_transfer_complete \/ OEP_setup_done
  \/ USB_wake_up_IRQ

Next == BusEvent \/ Core \/ Driver \/ send_HID_report

\* The handler runs while an interrupt is pending, the core completes what it was
\* told to disable, and the host takes an answer that is there.
Fairness ==
  /\ WF_vars(Driver)
  /\ WF_vars(HostReadsData) /\ WF_vars(HostReadsStatus)
  /\ WF_vars(HostSendsStatus) /\ WF_vars(HostSeesStall)

Spec == Init /\ [][Next]_vars
FairSpec == Spec /\ Fairness

-----------------------------------------------------------------------------
(* Properties *)

HandleOK ==
  /\ dev_state \in DevStates /\ dev_old_state \in DevStates \ {"SUSPENDED"}
  /\ dev_config \in 0..MAX_CONFIGURATION_COUNT /\ remote_wakeup \in BOOLEAN
  /\ hid_state \in {"IDLE", "BUSY"}
ControlOK ==
  /\ ep0_state \in EP0States
  /\ setup \in Packets /\ header \in Packets
EndpointsOK ==
  /\ IN_ep \in [EpNum -> INEndpoint] /\ OUT_ep \in [EpNum -> OUTEndpoint]
  /\ DAINTMSK \subseteq {0, 1, 4, 16} /\ DIEPEMPMSK \subseteq EpNum
CoreOK ==
  /\ DAD \in 0..127
  /\ GINTSTS \subseteq GlobalInts
  /\ DIEPINT \in [EpNum -> SUBSET {"XFRC", "EPDISD"}] /\ DOEPINT \subseteq {"XFRC", "STUP"}
  /\ fifo \in [EpNum -> Seq(Buffers)] /\ rx \in Seq(RxEntries)
HostOK ==
  /\ bus \in {"off", "reset", "active", "suspended"}
  /\ stage \in Stages
  /\ req \in Packets

\* Every variable holds a value of its type.
TypeOK == HandleOK /\ ControlOK /\ EndpointsOK /\ CoreOK /\ HostOK /\ calls \subseteq Calls

\* The HID endpoint is open, marked as used and has its interrupt enabled exactly
\* while a configuration is selected, also while the bus sleeps.
EndpointFollowsConfiguration ==
  /\ IN_ep[HID_IEP].USBAEP <=> BaseState = "CONFIGURED"
  /\ IN_ep[HID_IEP].is_used <=> BaseState = "CONFIGURED"
  /\ HID_IEP \in DAINTMSK <=> BaseState = "CONFIGURED"
  /\ dev_config = 1 <=> BaseState = "CONFIGURED"

\* The bus was reset and the driver has not yet seen the end of it.
Resetting == bus = "reset" \/ "ENUMDNE" \in GINTSTS \/ <<"ENUMDNE", 0>> \in calls

\* Outside a reset the device listens to address 0 exactly in the Default state.
AddressFollowsState == ~Resetting /\ bus # "off" => (DAD = 0 <=> BaseState = "DEFAULT")

\* What a control read asks for: the reference the answers are compared with.
Asked(h) ==
  CASE h.command = "GET_DESCRIPTOR" /\ h.recipiant = "DEVICE" -> {DeviceDescriptor(h.value)}
    [] h.command = "GET_DESCRIPTOR" /\ h.recipiant = "INTERFACE" -> {HIDDescriptor(h.value)}
    [] h.command = "GET_STATUS" /\ h.recipiant = "DEVICE" -> {"dev_config_status"}
    [] h.command = "GET_STATUS" /\ h.recipiant = "INTERFACE" -> {StackVariable}
    [] h.command = "GET_STATUS" /\ h.recipiant = "ENDPOINT" -> {"ep_status", "ep_status_halted"}
    [] h.command = "GET_CONFIGURATION" -> {"dev_config", "dev_default_config"}
    [] h.command = "GET_INTERFACE" -> {"alt_setting"}
    [] h.command = "HID_GET_PROTOCOL" -> {"protocol"}
    [] h.command = "HID_GET_IDLE" -> {"idle"}
    [] OTHER -> {}

\* The data a host is about to read is what it asked for, and fits.
FreshAnswer ==
  stage = "data_in" /\ CanSend(0) =>
    /\ Head(fifo[0]) \in Asked(req)
    /\ IN_ep[0].size <= req.length

\* The requests the driver takes without a reply.
Unanswered(h) ==
  \/ h.recipiant = "DEVICE" /\ h.type = "STANDARD" /\ h.command = "CLEAR_FEATURE"
       /\ h.value # USB_FEATURE_REMOTE_WAKEUP
  \/ h.recipiant = "ENDPOINT" /\ h.type = "STANDARD" /\ h.command = "CLEAR_FEATURE"
       /\ h.value # USB_FEATURE_EP_HALT
  \/ h.recipiant = "ENDPOINT" /\ h.type = "CLASS"
       /\ h.command \in {"HID_SET_IDLE", "HID_SET_PROTOCOL"}
  \/ h.recipiant = "INTERFACE" /\ h.length # 0
       /\ HID_setup("CONFIGURED", h) = NoReply
  \/ h.recipiant = "OTHER" /\ FirstStage(h) = "status_in"

\* The requests of USB 2.0 and HID 1.11: only the first of these have a data stage
\* to the host and only the others one from it, a status takes two bytes, and the
\* class has no descriptors of the device.
Reads == {"GET_STATUS", "GET_DESCRIPTOR", "GET_CONFIGURATION", "GET_INTERFACE",
          "HID_GET_IDLE", "HID_GET_PROTOCOL"}
Writes == {"SET_DESCRIPTOR", "HID_SET_REPORT", "HID_SET_IDLE", "HID_SET_PROTOCOL"}
Regular(h) ==
  /\ h.length # 0 => h.command \in (IF h.direction = "IN" THEN Reads ELSE Writes)
  /\ h.command \in Reads /\ h.recipiant = "ENDPOINT" => h.length # 0
  /\ h.command = "GET_STATUS" /\ h.length # 0 => h.length >= 2
  /\ h.command = "GET_DESCRIPTOR" /\ h.recipiant = "DEVICE" => h.type = "STANDARD"

\* When the driver is done with a request, the host gets its data, its status or
\* a stall; only those Unanswered names leave it with NAKs until it gives up.
NoHang ==
  Quiet /\ bus = "active" /\ stage # "idle" => Answered \/ Stalled \/ Unanswered(req)

\* The stage the host is in is the one the driver prepared.
StagesAgree ==
  Quiet /\ bus = "active" /\ Answered /\ ~Stalled =>
    CASE stage = "data_in" -> ep0_state = "DATA_IN" /\ IN_ep[0].size > 0
      [] stage = "status_in" -> ep0_state = "STATUS_IN" /\ IN_ep[0].size = 0
      [] OTHER -> ep0_state = "STATUS_OUT"

\* A control read of a descriptor the device has is never refused, whatever else
\* the endpoints do.
DescriptorsServed ==
  stage = "data_in" /\ req.command = "GET_DESCRIPTOR" /\ req.recipiant = "DEVICE"
      /\ DeviceDescriptor(req.value) # "NULL"
    => ~IN_ep[0].STALL

\* Seen through its state, whether it sleeps and its HID endpoint, the driver is
\* a device as chapter 9 of USB 2.0 describes it.
Device9 ==
  INSTANCE Chapter9 WITH state <- BaseState, asleep <- dev_state = "SUSPENDED",
                         endpoint <- IN_ep[HID_IEP].USBAEP
ImplementsChapter9 == Device9!Spec9

\* A halt of the HID endpoint ends with a bus reset and nothing else: the driver
\* acknowledges CLEAR_FEATURE(ENDPOINT_HALT) for it and leaves it halted.
HaltEndsWithReset ==
  [][IN_ep[HID_IEP].STALL /\ ~IN_ep'[HID_IEP].STALL => <<"USBRST", 0>> \in calls]_vars

\* A control transfer the driver answers ends.
TransferEnds == stage # "idle" /\ ~Unanswered(req) ~> stage = "idle"

=============================================================================
