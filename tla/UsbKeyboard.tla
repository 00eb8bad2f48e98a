----------------------------- MODULE UsbKeyboard -----------------------------
(***************************************************************************)
(* The main loop that types (src/src/main.c) on top of the USB driver:     *)
(* send_HID_report and the IN_transfer it calls on the HID endpoint run in *)
(* thread mode, and the interrupt handler of UsbDevice may run between any *)
(* two of their register accesses.  The main loop only makes progress      *)
(* while no interrupt is pending, as the handler preempts it.              *)
(***************************************************************************)
EXTENDS UsbDevice

CONSTANT Undisturbed   \* TRUE: nothing happens on the bus within send_HID_report

ASSUME UndisturbedAssumption == Undisturbed \in BOOLEAN

VARIABLES
  main,        \* the next step of the main loop
  HID_buffer,  \* the report it composes, which the driver sends from
  control,     \* what it last read from DIEPCTL
  mask,        \* what it last read from DIEPEMPMSK
  submitted,   \* the report of the last call that was not dropped
  wire         \* the reports in the transmit FIFO of the HID endpoint

mainVars == <<main, HID_buffer, control, mask, submitted>>
keyboardVars == <<vars, mainVars, wire>>

Reports == {"press", "release"}
Steps == {"send", "start", "read_control", "write_control", "read_mask", "write_mask"}

\* What control and mask hold while the copy is of no more use.
Unread == [USBAEP |-> FALSE, EPDIS |-> FALSE, STALL |-> FALSE]

KeyboardInit ==
  /\ Init
  /\ main = "send"
  /\ HID_buffer = "release" /\ submitted = "release"
  /\ control = Unread
  /\ mask = {}
  /\ wire = <<>>

-----------------------------------------------------------------------------
(* The main loop *)

\* No interrupt is pending or being handled.
Thread(step) == main = step /\ calls = {} /\ Raised = {}

\* Compose the next report and call send_HID_report; it drops the report unless
\* the device is configured and the last one has left.
Compose ==
  /\ Thread("send")
  /\ HID_buffer' = IF HID_buffer = "press" THEN "release" ELSE "press"
  /\ main' = IF dev_state = "CONFIGURED" /\ hid_state = "IDLE" THEN "start" ELSE "send"
  /\ UNCHANGED <<vars, control, mask, submitted, wire>>

\* HID_handle.state, the fields of the transfer and DIEPTSIZ.
Start ==
  /\ Thread("start")
  /\ hid_state' = "BUSY"
  /\ IN_ep' = [IN_ep EXCEPT ![HID_IEP].buffer = "report", ![HID_IEP].size = 8,
                            ![HID_IEP].count = 0]
  /\ submitted' = HID_buffer
  /\ main' = "read_control"
  /\ UNCHANGED <<handleVars, controlVars, OUT_ep, DAINTMSK, DIEPEMPMSK, calls, coreVars, hostVars,
                 HID_buffer, control, mask, wire>>

\* in->DIEPCTL |= CNAK | EPENA
ReadControl ==
  /\ Thread("read_control")
  /\ control' = [USBAEP |-> IN_ep[HID_IEP].USBAEP, EPDIS |-> IN_ep[HID_IEP].EPDIS,
                 STALL |-> IN_ep[HID_IEP].STALL]
  /\ main' = "write_control"
  /\ UNCHANGED <<vars, HID_buffer, mask, submitted, wire>>
WriteControl ==
  /\ Thread("write_control")
  /\ IN_ep' = [IN_ep EXCEPT ![HID_IEP].USBAEP = control.USBAEP, ![HID_IEP].EPDIS = control.EPDIS,
                            ![HID_IEP].STALL = control.STALL, ![HID_IEP].EPENA = TRUE]
  /\ control' = Unread
  /\ main' = "read_mask"
  /\ UNCHANGED <<handleVars, controlVars, OUT_ep, DAINTMSK, DIEPEMPMSK, hid_state, calls,
                 coreVars, hostVars, HID_buffer, mask, submitted, wire>>

\* device->DIEPEMPMSK |= 1 << ep_num
ReadMask ==
  /\ Thread("read_mask")
  /\ mask' = DIEPEMPMSK
  /\ main' = "write_mask"
  /\ UNCHANGED <<vars, HID_buffer, control, submitted, wire>>
\* The bit open_OEP would set.
WriteMask_WrongBit ==
  /\ Thread("write_mask")
  /\ DIEPEMPMSK' = mask \cup {4 + HID_IEP}
  /\ mask' = {}
  /\ main' = "send"
  /\ UNCHANGED <<handleVars, controlVars, IN_ep, OUT_ep, DAINTMSK, hid_state, calls,
                 coreVars, hostVars, HID_buffer, control, submitted, wire>>
WriteMask ==
  /\ Thread("write_mask")
  /\ DIEPEMPMSK' = mask \cup {HID_IEP}
  /\ mask' = {}
  /\ main' = "send"
  /\ UNCHANGED <<handleVars, controlVars, IN_ep, OUT_ep, DAINTMSK, hid_state, calls,
                 coreVars, hostVars, HID_buffer, control, submitted, wire>>

Main == Compose \/ Start \/ ReadControl \/ WriteControl \/ ReadMask \/ WriteMask

-----------------------------------------------------------------------------
\* The reports in the FIFO are the contents of HID_buffer at the time of the copy.
WireFollows ==
  LET was == Len(fifo[HID_IEP])
      is  == Len(fifo'[HID_IEP])
  IN  wire' = CASE is > was -> Append(wire, HID_buffer)
                [] is = was -> wire
                [] is = 0 -> <<>>
                [] OTHER -> Tail(wire)

OnTheBus ==
  /\ BusEvent
  /\ Undisturbed => main = "send"
  /\ WireFollows /\ UNCHANGED mainVars
InTheDriver ==
  /\ Core \/ Driver
  /\ WireFollows /\ UNCHANGED mainVars

KeyboardNext == OnTheBus \/ InTheDriver \/ Main

\* The host polls the HID endpoint, the main loop goes on when it is not preempted.
KeyboardFairness ==
  /\ WF_keyboardVars(Driver /\ InTheDriver)
  /\ WF_keyboardVars(HostReadsReport /\ InTheDriver)
  /\ WF_keyboardVars(Main)

KeyboardSpec == KeyboardInit /\ [][KeyboardNext]_keyboardVars
FairKeyboardSpec == KeyboardSpec /\ KeyboardFairness

-----------------------------------------------------------------------------
(* Properties *)

KeyboardTypeOK ==
  /\ TypeOK
  /\ main \in Steps /\ HID_buffer \in Reports /\ submitted \in Reports
  /\ control \in [USBAEP : BOOLEAN, EPDIS : BOOLEAN, STALL : BOOLEAN]
  /\ mask \subseteq EpNum
  /\ wire \in Seq(Reports) /\ Len(wire) = Len(fifo[HID_IEP])

\* The report the host is about to read is the one submitted last, and the only
\* one in the FIFO: none is left over from before a reset or another configuration.
FreshReport == CanSend(HID_IEP) => wire = <<submitted>>

\* Between two calls of send_HID_report the class state tells whether a report is
\* on its way: an idle class has nothing armed, a busy one has, or is halted.
\* (A bus reset flushes the FIFO some time before it ends the configuration.)
StateTellsTransfer ==
  main = "send" /\ Quiet /\ ~Resetting /\ dev_state = "CONFIGURED" =>
    IF hid_state = "IDLE"
      THEN ~IN_ep[HID_IEP].EPENA /\ fifo[HID_IEP] = <<>>
      ELSE CanSend(HID_IEP) \/ IN_ep[HID_IEP].STALL

\* The use, the interrupt mask and the number of the configuration follow the state
\* even when DIEPCTL does not.
UseFollows ==
  /\ IN_ep[HID_IEP].is_used <=> BaseState = "CONFIGURED"
  /\ HID_IEP \in DAINTMSK <=> BaseState = "CONFIGURED"
  /\ dev_config = 1 <=> BaseState = "CONFIGURED"

\* The main loop may write back a DIEPCTL it has read before a reset or a
\* SET_CONFIGURATION (usb_int.c 65).  That write is the one way in which the HID
\* endpoint comes apart from the configuration; it spoils DIEPCTL alone, and the
\* next change of the configuration puts it right again.
SpoiltByWriting ==
  [][/\ UseFollows'
     /\ EndpointFollowsConfiguration /\ ~EndpointFollowsConfiguration' => main = "write_control"
     /\ (BaseState = "CONFIGURED") # (BaseState' = "CONFIGURED")
          => EndpointFollowsConfiguration']_keyboardVars

\* The keyboard does not stay busy: as long as the host polls a configured device
\* whose endpoint is not halted, it becomes ready for the next report.
NeverStuck ==
  []<>(hid_state = "IDLE" \/ bus # "active" \/ dev_state # "CONFIGURED" \/ IN_ep[HID_IEP].STALL)

=============================================================================
