-------------------------- MODULE UsbKeyboard_proofs --------------------------
(***************************************************************************)
(* The keyboard: the invariants of the driver hold beside the main loop,   *)
(* and the reports of send_HID_report arrive as submitted.                 *)
(*                                                                         *)
(* send_HID_report reads DIEPCTL and DIEPEMPMSK and writes them back a few *)
(* statements later.  Endpoint 0 is out of reach of that, and the write of *)
(* DIEPCTL is all that can spoil the HID endpoint (SpoiltStep).  For the   *)
(* reports it is asked of the bus that nothing happens in between          *)
(* (Undisturbed), and of the host that it is patient.  ReportInv           *)
(* is about the HID endpoint: while a report is being submitted the        *)
(* endpoint is at rest (SentAlone), a transfer that is armed is the one    *)
(* submitted last and the FIFO holds its report or nothing (ArmedOnce,     *)
(* NothingLeft), each ends once (EndsOnce), and until the driver has heard *)
(* of the end the class stays busy (BusyMeans, ClassHears).                *)
(***************************************************************************)
EXTENDS UsbKeyboard, UsbControl_proofs

-----------------------------------------------------------------------------
(* Types. *)

\* A report in the FIFO comes, is sent or is flushed, one at a time.
FifoMoves ==
  LET was == fifo[HID_IEP]
      is  == fifo'[HID_IEP]
  IN  \/ is = was \/ is = <<>>
      \/ was # <<>> /\ is = Tail(was)
      \/ \E b \in Buffers : is = Append(was, b)

LEMMA FifoStep ==
  ASSUME TypeOK, BusEvent \/ Core \/ Driver
  PROVE  FifoMoves
<1> USE DEF driverVars, coreVars
<1>1. HID_IEP \in EpNum /\ fifo \in [EpNum -> Seq(Buffers)] /\ IN_ep \in [EpNum -> INEndpoint]
  BY DEF HID_IEP, EpNum, TypeOK, CoreOK, EndpointsOK
<1>2. CASE fifo' = fifo
  BY <1>2 DEF FifoMoves
<1>3. CASE USB_reset_IRQ
  BY <1>1, <1>3 DEF USB_reset_IRQ, flush_TX_FIFOS, FifoMoves
<1>4. ASSUME NEW n \in EpNum, fifo' = flush_TX_FIFO(n) PROVE FifoMoves
  BY <1>1, <1>4 DEF flush_TX_FIFO, FifoMoves
<1>5. ASSUME NEW n \in EpNum, Send(n) PROVE FifoMoves
  <2>1. CASE IN_ep[n].size = 0
    BY <1>2, <1>5, <2>1 DEF Send
  <2>2. CASE IN_ep[n].size # 0
    <3>1. fifo[n] # <<>> /\ fifo' = [fifo EXCEPT ![n] = Tail(@)]
      BY <1>5, <2>2 DEF Send, CanSend
    <3> QED
      BY <1>1, <3>1 DEF FifoMoves
  <2> QED
    BY <2>1, <2>2
<1>6. ASSUME NEW n \in EpNum, fifo' = [fifo EXCEPT ![n] = Append(@, IN_ep[n].buffer)] PROVE FifoMoves
  <2>1. IN_ep[n].buffer \in Buffers
    BY <1>1 DEF INEndpoint
  <2> QED
    BY <1>1, <1>6, <2>1 DEF FifoMoves
<1>7. CASE BusEvent
  BY <1>2, <1>7 DEF BusEvent, BusReset, Enumerated, BusSuspend, BusResume, HostSetup
<1>8. CASE Core
  BY <1>2, <1>5, <1>8 DEF Core, HostReadsData, HostReadsStatus, HostReadsReport, HostSendsStatus,
     HostSeesStall, HostAborts, EndpointDisabled, EpNum
<1>9. CASE Driver
  <2>1. CASE IEP_FIFO_empty_IRQ
    BY <1>2, <1>6, <2>1 DEF IEP_FIFO_empty_IRQ
  <2>2. CASE IEP_disabled_IRQ
    BY <1>4, <2>2 DEF IEP_disabled_IRQ
  <2> QED
    BY <1>2, <1>3, <1>9, <2>1, <2>2 DEF Driver, USB_common_handler, USB_receive_packet_IRQ,
       USB_suspend_IRQ, USB_suspend_acknowledge, USB_enumeration_done_IRQ, IEP_interrupts,
       IEP_common_handler, IEP_transfer_complete_IRQ, OEP_interrupts, OEP_common_handler,
       OEP_transfer_complete, OEP_setup_done, USB_wake_up_IRQ
<1> QED
  BY <1>7, <1>8, <1>9

\* The history of the FIFO stays as long as the FIFO.
LEMMA WireType ==
  ASSUME KeyboardTypeOK, FifoMoves, WireFollows
  PROVE  wire' \in Seq(Reports) /\ Len(wire') = Len(fifo'[HID_IEP])
<1> DEFINE was == fifo[HID_IEP]
           is == fifo'[HID_IEP]
<1>1. /\ was \in Seq(Buffers) /\ wire \in Seq(Reports) /\ HID_buffer \in Reports
      /\ Len(wire) = Len(was)
  BY DEF KeyboardTypeOK, TypeOK, CoreOK, HID_IEP, EpNum
<1>2. wire' = CASE Len(is) > Len(was) -> Append(wire, HID_buffer)
                [] Len(is) = Len(was) -> wire
                [] Len(is) = 0 -> <<>>
                [] OTHER -> Tail(wire)
  BY Zenon DEF WireFollows
<1>3. \/ is = was \/ is = <<>>
      \/ was # <<>> /\ is = Tail(was)
      \/ \E b \in Buffers : is = Append(was, b)
  BY Zenon DEF FifoMoves
<1> HIDE DEF was, is
<1>4. CASE is = was
  <2>1. wire' = wire
    BY <1>1, <1>2, <1>4
  <2> QED
    BY <1>1, <1>4, <2>1 DEF is
<1>5. CASE is = <<>> /\ was # <<>>
  <2>1. Len(is) = 0 /\ Len(was) > 0
    BY <1>1, <1>5
  <2>2. wire' = <<>>
    BY <1>1, <1>2, <2>1
  <2> QED
    BY <1>1, <1>5, <2>1, <2>2 DEF is
<1>6. CASE was # <<>> /\ is = Tail(was) /\ is # <<>>
  <2>1. Len(is) = Len(was) - 1 /\ Len(was) \in Nat /\ Len(is) # 0
    BY <1>1, <1>6
  <2>2. wire' = Tail(wire) /\ wire # <<>>
    BY <1>1, <1>2, <2>1
  <2> QED
    BY <1>1, <2>1, <2>2 DEF is
<1>7. CASE \E b \in Buffers : is = Append(was, b)
  <2>1. Len(is) = Len(was) + 1 /\ Len(was) \in Nat
    BY <1>1, <1>7
  <2>2. wire' = Append(wire, HID_buffer)
    BY <1>1, <1>2, <2>1
  <2> QED
    BY <1>1, <2>1, <2>2 DEF is
<1> QED
  BY <1>3, <1>4, <1>5, <1>6, <1>7

\* What the main loop leaves alone.
MainLeaves ==
  UNCHANGED <<handleVars, controlVars, OUT_ep, DAINTMSK, calls, coreVars, hostVars, wire>>

\* The main loop changes the HID endpoint, and the masks it has read.
LEMMA MainSteps ==
  ASSUME KeyboardTypeOK, Main
  PROVE  /\ MainLeaves /\ calls = {} /\ Raised = {}
         /\ IN_ep' \in INTable /\ IN_ep'[0] = IN_ep[0]
         /\ DIEPEMPMSK' \in {DIEPEMPMSK, mask \cup {HID_IEP}} /\ mask' \in {{}, mask, DIEPEMPMSK}
         /\ hid_state' \in {hid_state, "BUSY"}
<1> USE DEF driverVars, handleVars, controlVars, epVars, coreVars, hostVars, vars
<1>1. /\ HID_IEP \in EpNum /\ HID_IEP # 0 /\ 0 \in EpNum /\ IN_ep \in INTable
      /\ IN_ep[HID_IEP] \in INEndpoint /\ "report" \in Buffers /\ 8 \in Sizes /\ 0 \in Sizes
  BY DEF HID_IEP, EpNum, KeyboardTypeOK, TypeOK, EndpointsOK, INTable, Buffers, Sizes
<1>2. calls = {} /\ Raised = {}
  BY DEF Main, Compose, Start, ReadControl, WriteControl, ReadMask, WriteMask, Thread
<1>3. CASE IN_ep' = IN_ep
  BY <1>1, <1>2, <1>3 DEF Main, Compose, Start, ReadControl, WriteControl, ReadMask, WriteMask, MainLeaves
<1>4. CASE Start
  <2>1. IN_ep' \in INTable /\ IN_ep'[0] = IN_ep[0]
    BY <1>1, <1>4 DEF Start, INTable, INEndpoint
  <2> QED
    BY <1>2, <1>4, <2>1 DEF Start, MainLeaves
<1>5. CASE WriteControl
  <2>1. control \in [USBAEP : BOOLEAN, EPDIS : BOOLEAN, STALL : BOOLEAN]
    BY DEF KeyboardTypeOK
  <2>2. IN_ep' \in INTable /\ IN_ep'[0] = IN_ep[0]
    BY <1>1, <1>5, <2>1 DEF WriteControl, INTable, INEndpoint
  <2> QED
    BY <1>2, <1>5, <2>2 DEF WriteControl, MainLeaves
<1> QED
  BY <1>3, <1>4, <1>5 DEF Main, Compose, ReadControl, ReadMask, WriteMask

LEMMA KeyboardTypeInit == KeyboardInit => KeyboardTypeOK /\ PacketWaits
<1> SUFFICES ASSUME KeyboardInit PROVE KeyboardTypeOK /\ PacketWaits
  OBVIOUS
<1>1. TypeOK /\ PacketWaits /\ fifo[HID_IEP] = <<>>
  BY TypeInit DEF KeyboardInit, Init, PacketWaits, HID_IEP, EpNum
<1> QED
  BY <1>1 DEF KeyboardInit, KeyboardTypeOK, Steps, Reports, Unread

LEMMA TypeMain ==
  ASSUME KeyboardTypeOK, PacketWaits, Main
  PROVE  KeyboardTypeOK' /\ PacketWaits'
<1> USE DEF driverVars, handleVars, controlVars, epVars, coreVars, hostVars, vars
<1>1. MainLeaves /\ IN_ep' \in INTable /\ hid_state' \in {hid_state, "BUSY"}
  BY MainSteps
<1>2. DIEPEMPMSK' \subseteq EpNum /\ mask' \subseteq EpNum
  <2>1. DIEPEMPMSK \subseteq EpNum /\ mask \subseteq EpNum /\ HID_IEP \in EpNum
    BY DEF KeyboardTypeOK, TypeOK, EndpointsOK, HID_IEP, EpNum
  <2>2. /\ DIEPEMPMSK' \in {DIEPEMPMSK, mask \cup {HID_IEP}}
        /\ mask' \in {{}, mask, DIEPEMPMSK}
    BY MainSteps
  <2> QED
    BY <2>1, <2>2
<1>3. TypeOK'
  BY <1>1, <1>2 DEF KeyboardTypeOK, TypeOK, HandleOK, ControlOK, EndpointsOK, CoreOK, HostOK,
     INTable, MainLeaves
<1>4. PacketWaits'
  BY <1>1 DEF PacketWaits, MainLeaves
<1>5. wire' \in Seq(Reports) /\ Len(wire') = Len(fifo'[HID_IEP])
  BY <1>1 DEF MainLeaves, KeyboardTypeOK
<1>6. main' \in Steps /\ HID_buffer' \in Reports /\ submitted' \in Reports
  BY DEF Main, Compose, Start, ReadControl, WriteControl, ReadMask, WriteMask, KeyboardTypeOK, Steps,
     Reports
<1>7. control' \in [USBAEP : BOOLEAN, EPDIS : BOOLEAN, STALL : BOOLEAN]
  <2>1. \A b, c, d \in BOOLEAN :
          [USBAEP |-> b, EPDIS |-> c, STALL |-> d] \in [USBAEP : BOOLEAN, EPDIS : BOOLEAN, STALL : BOOLEAN]
    OBVIOUS
  <2>2. IN_ep[HID_IEP] \in INEndpoint
    BY DEF HID_IEP, EpNum, KeyboardTypeOK, TypeOK, EndpointsOK
  <2>3. /\ IN_ep[HID_IEP].USBAEP \in BOOLEAN /\ IN_ep[HID_IEP].EPDIS \in BOOLEAN
        /\ IN_ep[HID_IEP].STALL \in BOOLEAN
    BY <2>2 DEF INEndpoint
  <2>4. control' \in {control, Unread, [USBAEP |-> IN_ep[HID_IEP].USBAEP,
                        EPDIS |-> IN_ep[HID_IEP].EPDIS, STALL |-> IN_ep[HID_IEP].STALL]}
    BY DEF Main, Compose, Start, ReadControl, WriteControl, ReadMask, WriteMask
  <2>5. Unread \in [USBAEP : BOOLEAN, EPDIS : BOOLEAN, STALL : BOOLEAN]
    BY <2>1 DEF Unread
  <2> QED
    BY <2>1, <2>3, <2>4, <2>5 DEF KeyboardTypeOK
<1> QED
  BY <1>2, <1>3, <1>4, <1>5, <1>6, <1>7 DEF KeyboardTypeOK

\* A step of the keyboard is one of the bus, of the core and the driver, or of the main loop.
LEMMA TypeKeyboard ==
  ASSUME KeyboardTypeOK, PacketWaits, [KeyboardNext]_keyboardVars
  PROVE  KeyboardTypeOK' /\ PacketWaits'
<1>1. CASE OnTheBus \/ InTheDriver
  <2>1. BusEvent \/ Core \/ Driver
    BY <1>1 DEF OnTheBus, InTheDriver
  <2>2. WireFollows /\ UNCHANGED mainVars
    BY <1>1 DEF OnTheBus, InTheDriver
  <2>3. TypeOK' /\ PacketWaits'
    BY <2>1, TypeBusEvent, TypeCore, TypeDriver, PacketWaitsStep DEF KeyboardTypeOK, Next
  <2>4. wire' \in Seq(Reports) /\ Len(wire') = Len(fifo'[HID_IEP])
    BY <2>1, <2>2, FifoStep, WireType DEF KeyboardTypeOK
  <2> QED
    BY <2>2, <2>3, <2>4 DEF KeyboardTypeOK, mainVars
<1>2. CASE UNCHANGED keyboardVars
  BY <1>2 DEF keyboardVars, mainVars, vars, handleVars, controlVars, epVars, coreVars, hostVars,
     KeyboardTypeOK, TypeOK, HandleOK, ControlOK, EndpointsOK, CoreOK, HostOK, PacketWaits
<1> QED
  BY <1>1, <1>2, TypeMain DEF KeyboardNext

\* With the main loop, too, every variable keeps its type, and the reports in the FIFO
\* are as many as the transfers the driver has copied there.
THEOREM KeyboardTypeCorrect == KeyboardSpec => []KeyboardTypeOK /\ []PacketWaits
<1> DEFINE Inv == KeyboardTypeOK /\ PacketWaits
<1>1. KeyboardInit => Inv
  BY KeyboardTypeInit
<1>2. Inv /\ [KeyboardNext]_keyboardVars => Inv'
  BY TypeKeyboard
<1> QED
  BY <1>1, <1>2, PTL DEF KeyboardSpec

-----------------------------------------------------------------------------
(* The control endpoint beside the main loop. *)

\* The main loop does not write back an interrupt of EP0 that has been disabled.
MaskInv == 0 \notin mask

LEMMA ControlMain ==
  ASSUME KeyboardTypeOK, ControlInv, MaskInv, Main
  PROVE  ControlInv' /\ MaskInv' /\ (Replied => Replied')
<1> USE DEF handleVars, controlVars, coreVars, hostVars
<1>1. /\ MainLeaves /\ calls = {} /\ Raised = {} /\ IN_ep'[0] = IN_ep[0]
      /\ DIEPEMPMSK' \in {DIEPEMPMSK, mask \cup {HID_IEP}} /\ mask' \in {{}, mask, DIEPEMPMSK}
  BY MainSteps
<1>2. 0 \notin DIEPEMPMSK
  BY <1>1, DoneControl DEF KeyboardTypeOK
<1>3. HID_IEP # 0
  BY DEF HID_IEP
<1>4. 0 \notin DIEPEMPMSK' /\ MaskInv'
  BY <1>1, <1>2, <1>3 DEF MaskInv
<1>5. /\ calls' = calls /\ GINTSTS' = GINTSTS /\ bus' = bus /\ DIEPINT' = DIEPINT
      /\ UNCHANGED <<ep0_state, stage, req, rx, setup, DOEPINT, DAINTMSK>>
      /\ View0' = View0
  BY <1>1 DEF MainLeaves, View0
<1>6. CallsFollow
  BY <1>5, CallsSame
<1>7. (Ended => Ended') /\ (Arriving => Arriving')
  BY <1>5, <1>6, ArrivalKept
<1>8. ControlInv'
  BY <1>2, <1>4, <1>5, <1>6, <1>7, ControlKept
<1>9. Ended' => Ended
  BY <1>5, EndedKept
<1>10. Replied => Replied'
  BY <1>2, <1>5, <1>9, RepliedKept
<1> QED
  BY <1>4, <1>8, <1>10

LEMMA ControlKeyboard ==
  ASSUME Patient, RegularRequests, KeyboardTypeOK, PacketWaits, ControlInv, MaskInv,
         [KeyboardNext]_keyboardVars
  PROVE  ControlInv' /\ MaskInv' /\ (Replied => Replied')
<1>1. TypeOK
  BY DEF KeyboardTypeOK
<1>2. CASE OnTheBus \/ InTheDriver
  <2>1. BusEvent \/ Core \/ Driver
    BY <1>2 DEF OnTheBus, InTheDriver
  <2>2. MaskInv'
    BY <1>2 DEF OnTheBus, InTheDriver, mainVars, MaskInv
  <2> QED
    BY <1>1, <2>1, <2>2, ControlBusEvent, ControlCore, ControlDriver, RepliedBus, RepliedCore,
       RepliedDriver
<1>3. CASE UNCHANGED keyboardVars
  <2>1. UNCHANGED vars /\ mask' = mask
    BY <1>3 DEF keyboardVars, mainVars
  <2>2. ControlInv'
    BY <1>1, <2>1, ControlStep
  <2>3. Replied => Replied'
    <3> USE DEF vars, controlVars, epVars, coreVars, hostVars
    <3>1. View0' = View0
      BY <2>1 DEF View0
    <3>2. Ended' => Ended
      BY <2>1, EndedKept
    <3> QED
      BY <2>1, <3>1, <3>2, RepliedKept
  <2> QED
    BY <2>1, <2>2, <2>3 DEF MaskInv
<1> QED
  BY <1>2, <1>3, ControlMain DEF KeyboardNext

LEMMA KeyboardControl ==
  ASSUME Patient, RegularRequests
  PROVE  KeyboardSpec => []ControlInv /\ []MaskInv /\ []Replied
<1> DEFINE Inv == ControlInv /\ MaskInv /\ Replied
<1>1. KeyboardInit => Inv
  BY ControlInit DEF KeyboardInit, MaskInv, Init, Replied
<1>2. KeyboardTypeOK /\ PacketWaits /\ Inv /\ [KeyboardNext]_keyboardVars => Inv'
  BY ControlKeyboard
<1> QED
  BY <1>1, <1>2, KeyboardTypeCorrect, PTL DEF KeyboardSpec

-----------------------------------------------------------------------------
(* Address and configuration beside the main loop, whatever happens on the  *)
(* bus within send_HID_report.                                              *)

\* SleepInv and AddressInv speak of nothing the main loop changes.
LEMMA MainElsewhere ==
  ASSUME MainLeaves \/ UNCHANGED vars
  PROVE  (SleepInv => SleepInv') /\ (AddressInv => AddressInv') /\ BaseState' = BaseState
<1>1. UNCHANGED <<dev_state, dev_old_state, calls, GINTSTS, DOEPINT, rx, DAD, DAINTMSK, bus, stage, req>>
  BY DEF MainLeaves, vars, handleVars, controlVars, epVars, coreVars, hostVars
<1>2. SleepInv => SleepInv'
  BY <1>1 DEF SleepInv, Booting, Unconnected, IdleBus, Asleep, Rising, WakingUp, Due, NothingToEnd,
     NoRequest
<1>3. AddressInv => AddressInv'
  BY <1>1 DEF AddressInv, BaseState, Due, Pends, AddressFollowsState, Resetting
<1>4. BaseState' = BaseState
  BY <1>1 DEF BaseState
<1> QED
  BY <1>2, <1>3, <1>4

LEMMA SleepKeyboard ==
  ASSUME Unhurried, KeyboardTypeOK, PacketWaits, SleepInv, [KeyboardNext]_keyboardVars
  PROVE  SleepInv'
<1>1. CASE OnTheBus \/ InTheDriver
  BY <1>1, SleepBusEvent, SleepCore, SleepDriver DEF OnTheBus, InTheDriver, KeyboardTypeOK
<1>2. CASE Main
  BY <1>2, MainSteps, MainElsewhere
<1>3. CASE UNCHANGED keyboardVars
  BY <1>3, MainElsewhere DEF keyboardVars
<1> QED
  BY <1>1, <1>2, <1>3 DEF KeyboardNext

LEMMA KeyboardSleep == ASSUME Unhurried PROVE KeyboardSpec => []SleepInv
<1>1. KeyboardInit => SleepInv
  BY SleepInit DEF KeyboardInit
<1>2. KeyboardTypeOK /\ PacketWaits /\ SleepInv /\ [KeyboardNext]_keyboardVars => SleepInv'
  BY SleepKeyboard
<1> QED
  BY <1>1, <1>2, KeyboardTypeCorrect, PTL DEF KeyboardSpec

\* The main loop opens and closes the HID endpoint in one place.
LEMMA MainWrites ==
  ASSUME KeyboardTypeOK, Main
  PROVE  /\ IN_ep'[HID_IEP].is_used = IN_ep[HID_IEP].is_used
         /\ main # "write_control" => IN_ep'[HID_IEP].USBAEP = IN_ep[HID_IEP].USBAEP
<1>1. HID_IEP \in EpNum /\ IN_ep \in INTable /\ IN_ep[HID_IEP] \in INEndpoint
  BY DEF HID_IEP, EpNum, KeyboardTypeOK, TypeOK, EndpointsOK, INTable
<1>2. CASE Start
  BY <1>1, <1>2 DEF Start, INTable, INEndpoint
<1>3. CASE WriteControl
  <2>1. main = "write_control"
    BY <1>3, Zenon DEF WriteControl, Thread
  <2>2. IN_ep'[HID_IEP].is_used = IN_ep[HID_IEP].is_used
    BY <1>1, <1>3 DEF WriteControl, INTable, INEndpoint
  <2> QED
    BY <2>1, <2>2
<1>4. CASE UNCHANGED IN_ep
  BY <1>4
<1> QED
  BY <1>2, <1>3, <1>4 DEF Main, Compose, ReadControl, ReadMask, WriteMask, vars, epVars

LEMMA SpoiltStep ==
  ASSUME KeyboardTypeOK, SleepInv, UseFollows, [KeyboardNext]_keyboardVars
  PROVE  /\ UseFollows'
         /\ EndpointFollowsConfiguration /\ ~EndpointFollowsConfiguration' => main = "write_control"
         /\ (BaseState = "CONFIGURED") # (BaseState' = "CONFIGURED") => EndpointFollowsConfiguration'
<1>1. EndpointFollowsConfiguration' => UseFollows'
  BY DEF EndpointFollowsConfiguration, UseFollows
<1>2. CASE OnTheBus \/ InTheDriver \/ UNCHANGED keyboardVars
  <2>1. [Next]_vars
    BY <1>2 DEF OnTheBus, InTheDriver, Next, keyboardVars
  <2>2. Standing \/ EndpointFollowsConfiguration'
    BY <2>1, ConfigurationOutcome DEF KeyboardTypeOK, UseFollows
  <2>3. CASE Standing
    <3>1. UseFollows'
      BY <2>3 DEF UseFollows, Standing, SameHID
    <3>2. EndpointFollowsConfiguration => EndpointFollowsConfiguration'
      BY <2>3, StandingConfiguration
    <3> QED
      BY <2>3, <3>1, <3>2 DEF Standing
  <2> QED
    BY <1>1, <2>2, <2>3
<1>3. CASE Main
  <2>1. /\ BaseState' = BaseState /\ UNCHANGED <<dev_config, DAINTMSK>>
        /\ IN_ep'[HID_IEP].is_used = IN_ep[HID_IEP].is_used
        /\ main # "write_control" => IN_ep'[HID_IEP].USBAEP = IN_ep[HID_IEP].USBAEP
    BY <1>3, MainSteps, MainWrites, MainElsewhere DEF MainLeaves, handleVars
  <2>2. UseFollows'
    BY <2>1 DEF UseFollows
  <2>3. main # "write_control" /\ EndpointFollowsConfiguration => EndpointFollowsConfiguration'
    BY <2>1 DEF EndpointFollowsConfiguration
  <2> QED
    BY <2>1, <2>2, <2>3
<1> QED
  BY <1>2, <1>3 DEF KeyboardNext

\* A bus event between the read and the write of DIEPCTL is undone by the write, and
\* that is the only way the HID endpoint comes apart from the configuration: in DIEPCTL
\* only, and until the configuration changes next.
THEOREM ConfigurationBesideMain ==
  ASSUME Unhurried
  PROVE  KeyboardSpec => SpoiltByWriting
<1>1. KeyboardInit => UseFollows
  BY DEF KeyboardInit, Init, UseFollows, BaseState, InitialIN, HID_IEP, EpNum
<1>2. KeyboardTypeOK /\ SleepInv /\ UseFollows /\ [KeyboardNext]_keyboardVars => UseFollows'
  BY SpoiltStep
<1>3. KeyboardTypeOK /\ SleepInv /\ UseFollows /\ [KeyboardNext]_keyboardVars
      => [/\ UseFollows'
          /\ EndpointFollowsConfiguration /\ ~EndpointFollowsConfiguration' => main = "write_control"
          /\ (BaseState = "CONFIGURED") # (BaseState' = "CONFIGURED")
               => EndpointFollowsConfiguration']_keyboardVars
  BY SpoiltStep
<1> QED
  BY <1>1, <1>2, <1>3, KeyboardTypeCorrect, KeyboardSleep, PTL DEF KeyboardSpec, SpoiltByWriting

\* The address is out of the main loop's reach.
THEOREM AddressBesideMain ==
  ASSUME Patient, Unhurried, RegularRequests
  PROVE  KeyboardSpec => []AddressFollowsState
<1>1. KeyboardTypeOK /\ ControlInv /\ SleepInv /\ AddressInv /\ [KeyboardNext]_keyboardVars
      => AddressInv'
  <2> SUFFICES ASSUME KeyboardTypeOK, ControlInv, SleepInv, AddressInv, [KeyboardNext]_keyboardVars
               PROVE  AddressInv'
    OBVIOUS
  <2>1. CASE OnTheBus \/ InTheDriver
    BY <2>1, AddressStep DEF OnTheBus, InTheDriver, Next, KeyboardTypeOK
  <2>2. CASE Main
    BY <2>2, MainSteps, MainElsewhere
  <2>3. CASE UNCHANGED keyboardVars
    BY <2>3, MainElsewhere DEF keyboardVars
  <2> QED
    BY <2>1, <2>2, <2>3 DEF KeyboardNext
<1>2. KeyboardInit => AddressInv
  BY AddressInit DEF KeyboardInit
<1>3. AddressInv => AddressFollowsState
  BY DEF AddressInv
<1> QED
  BY <1>1, <1>2, <1>3, KeyboardTypeCorrect, KeyboardControl, KeyboardSleep, PTL DEF KeyboardSpec

-----------------------------------------------------------------------------
(* A report on its way. *)

KeyEp == IN_ep[HID_IEP]
KeyFifo == fifo[HID_IEP]
Waits(i) == i \in DIEPINT[HID_IEP] \/ <<i, HID_IEP>> \in calls
Completing == Waits("XFRC")
Closing == KeyEp.EPDIS \/ Waits("EPDISD")

\* The driver is about to do nothing that concerns the state of the device.
Undisturbing ==
  /\ Ended /\ GINTSTS = {} /\ dev_state = "CONFIGURED"
  /\ \A c \in GlobalInts : <<c, 0>> \notin calls

\* send_HID_report runs, and the driver copies, while nothing else goes on.
SentAlone == main # "send" \/ HID_IEP \in DIEPEMPMSK => Undisturbing

\* An armed endpoint is to be given the report submitted last, or has it in its
\* FIFO, where a bus reset flushes it.
ToBeCopied ==
  /\ KeyEp.count = 0 /\ KeyFifo = <<>> /\ HID_buffer = submitted
  /\ HID_IEP \in DIEPEMPMSK <=> main = "send"
WasCopied ==
  /\ KeyEp.count = 8 /\ main = "send" /\ HID_IEP \notin DIEPEMPMSK
  /\ wire = <<submitted>> \/ (wire = <<>> /\ Resetting)
ArmedOnce ==
  KeyEp.EPENA =>
    /\ BaseState = "CONFIGURED" /\ KeyEp.size = 8 /\ hid_state = "BUSY"
    /\ ~Completing /\ ~Closing /\ main \in {"send", "read_mask", "write_mask"}
    /\ ToBeCopied \/ WasCopied

\* Nothing is copied or left in the FIFO of an endpoint that is not armed, unless
\* it is being closed.
NothingLeft ==
  /\ ~KeyEp.EPENA => HID_IEP \notin DIEPEMPMSK /\ main \notin {"read_mask", "write_mask"}
  /\ <<"TXFE", HID_IEP>> \in calls => HID_IEP \in DIEPEMPMSK
  /\ KeyFifo # <<>> => KeyEp.EPENA \/ Closing

\* A transfer ends in one way, and a configured endpoint is not being closed.
EndsOnce ==
  /\ Closing => ~Completing
  /\ KeyEp.EPDIS => BaseState # "CONFIGURED" /\ Ended

\* What the main loop relies on within send_HID_report.
MainFollows ==
  /\ main \in {"start", "read_control", "write_control"} =>
       ~Completing /\ ~Closing /\ KeyFifo = <<>>
  /\ main = "start" => hid_state = "IDLE"
  /\ main \in {"read_control", "write_control"} =>
       hid_state = "BUSY" /\ KeyEp.size = 8 /\ KeyEp.count = 0 /\ submitted = HID_buffer
  /\ main = "write_control" =>
       control.USBAEP = KeyEp.USBAEP /\ control.EPDIS = KeyEp.EPDIS /\ control.STALL = KeyEp.STALL

\* A busy class has a transfer, one it is about to start or one that has just ended.
BusyMeans ==
  hid_state = "BUSY" /\ BaseState = "CONFIGURED" =>
    KeyEp.EPENA \/ main \in {"read_control", "write_control"} \/ Completing

\* The class hears of the end of its transfer.
ClassHears ==
  Completing /\ BaseState = "CONFIGURED" => dev_state = "CONFIGURED" /\ bus = "active"

\* A device that is reset in its sleep has nothing to send until it is enumerated.
FlushedAsleep ==
  /\ Pends("ENUMDNE") => bus = "active"
  /\ dev_state = "SUSPENDED" /\ ((bus = "reset" /\ ~Due("USBRST")) \/ Pends("ENUMDNE"))
       => KeyFifo = <<>>

ReportInv ==
  /\ SentAlone /\ ArmedOnce /\ NothingLeft /\ EndsOnce /\ MainFollows
  /\ BusyMeans /\ ClassHears /\ FlushedAsleep

LEMMA KeyTypes ==
  ASSUME KeyboardTypeOK
  PROVE  /\ HID_IEP \in EpNum /\ 0 \in EpNum /\ HID_IEP # 0 /\ TypeOK
         /\ IN_ep \in INTable /\ KeyEp \in INEndpoint
         /\ fifo \in [EpNum -> Seq(Buffers)] /\ KeyFifo \in Seq(Buffers)
         /\ DIEPINT \in [EpNum -> SUBSET {"XFRC", "EPDISD"}]
         /\ wire \in Seq(Reports) /\ (KeyFifo = <<>> <=> wire = <<>>)
<1>1. HID_IEP \in EpNum /\ 0 \in EpNum /\ HID_IEP # 0
  BY DEF HID_IEP, EpNum
<1>2. TypeOK /\ IN_ep \in INTable /\ fifo \in [EpNum -> Seq(Buffers)]
      /\ DIEPINT \in [EpNum -> SUBSET {"XFRC", "EPDISD"}]
  BY DEF KeyboardTypeOK, TypeOK, EndpointsOK, CoreOK, INTable
<1>3. KeyEp \in INEndpoint /\ KeyFifo \in Seq(Buffers)
  BY <1>1, <1>2 DEF INTable, KeyEp, KeyFifo
<1>4. wire \in Seq(Reports) /\ Len(wire) = Len(KeyFifo)
  BY DEF KeyboardTypeOK, KeyFifo
<1> QED
  BY <1>1, <1>2, <1>3, <1>4

\* A step that leaves the HID endpoint as it is.
SameReport ==
  /\ KeyEp'.EPENA = KeyEp.EPENA /\ KeyEp'.EPDIS = KeyEp.EPDIS
  /\ KeyEp'.size = KeyEp.size /\ KeyEp'.count = KeyEp.count
  /\ main # "send" => KeyEp'.USBAEP = KeyEp.USBAEP /\ KeyEp'.STALL = KeyEp.STALL
  /\ KeyFifo' = KeyFifo /\ wire' = wire /\ hid_state' = hid_state /\ UNCHANGED mainVars
  /\ HID_IEP \in DIEPEMPMSK' <=> HID_IEP \in DIEPEMPMSK
  /\ <<"TXFE", HID_IEP>> \in calls' => <<"TXFE", HID_IEP>> \in calls \/ HID_IEP \in DIEPEMPMSK
  /\ Completing' <=> Completing
  /\ Waits("EPDISD")' <=> Waits("EPDISD")
  /\ BaseState' = "CONFIGURED" <=> BaseState = "CONFIGURED"

LEMMA ReportKept ==
  ASSUME ReportInv, SameReport,
         (main # "send" \/ HID_IEP \in DIEPEMPMSK) /\ Undisturbing => Undisturbing',
         Resetting => Resetting', KeyEp.EPDIS /\ Ended => Ended', ClassHears', FlushedAsleep'
  PROVE  ReportInv'
<1> USE DEF mainVars
<1>1. Closing' <=> Closing
  BY DEF SameReport, Closing
<1>2. SentAlone'
  BY DEF ReportInv, SameReport, SentAlone
<1>3. (ToBeCopied => ToBeCopied') /\ (WasCopied => WasCopied')
  BY DEF SameReport, ToBeCopied, WasCopied
<1>4. ArmedOnce'
  BY <1>1, <1>3 DEF ReportInv, SameReport, ArmedOnce
<1>5. NothingLeft' /\ EndsOnce' /\ MainFollows' /\ BusyMeans'
  BY <1>1 DEF ReportInv, SameReport, NothingLeft, EndsOnce, MainFollows, BusyMeans
<1> QED
  BY <1>2, <1>4, <1>5 DEF ReportInv

LEMMA ReportInit == KeyboardInit => ReportInv
<1> SUFFICES ASSUME KeyboardInit PROVE ReportInv
  OBVIOUS
<1>1. /\ ~KeyEp.EPENA /\ ~KeyEp.EPDIS /\ KeyFifo = <<>> /\ DIEPINT[HID_IEP] = {}
  BY DEF KeyboardInit, Init, KeyEp, KeyFifo, InitialIN, EpNum, HID_IEP
<1>2. /\ calls = {} /\ main = "send" /\ DIEPEMPMSK = {} /\ hid_state = "IDLE"
      /\ dev_state = "DEFAULT" /\ GINTSTS = {}
  BY DEF KeyboardInit, Init
<1> QED
  BY <1>1, <1>2 DEF ReportInv, SentAlone, ArmedOnce, NothingLeft, EndsOnce, MainFollows, BusyMeans,
     ClassHears, FlushedAsleep, Closing, Completing, Waits, Pends

\* The reports in the FIFO change with the FIFO only.
LEMMA WireSame ==
  ASSUME KeyboardTypeOK, KeyboardTypeOK', WireFollows
  PROVE  /\ KeyFifo' = KeyFifo => wire' = wire
         /\ KeyFifo' = <<>> => wire' = <<>>
         /\ \A b \in Buffers : KeyFifo = <<>> /\ KeyFifo' = Append(KeyFifo, b) => wire' = <<HID_buffer>>
<1>1. /\ KeyFifo \in Seq(Buffers) /\ wire \in Seq(Reports) /\ (KeyFifo = <<>> <=> wire = <<>>)
      /\ (KeyFifo' = <<>> <=> wire' = <<>>)
  <2>1. KeyFifo' \in Seq(Buffers) /\ wire' \in Seq(Reports) /\ Len(wire') = Len(KeyFifo')
    BY DEF KeyboardTypeOK, TypeOK, CoreOK, KeyFifo, HID_IEP, EpNum
  <2> QED
    BY <2>1, KeyTypes
<1> DEFINE was == fifo[HID_IEP]
           is == fifo'[HID_IEP]
<1>2. wire' = CASE Len(is) > Len(was) -> Append(wire, HID_buffer)
                [] Len(is) = Len(was) -> wire
                [] Len(is) = 0 -> <<>>
                [] OTHER -> Tail(wire)
  BY Zenon DEF WireFollows
<1>5. KeyFifo = was /\ KeyFifo' = is
  BY DEF KeyFifo
<1> HIDE DEF was, is
<1>3. KeyFifo' = KeyFifo => wire' = wire
  <2> SUFFICES ASSUME KeyFifo' = KeyFifo PROVE wire' = wire
    OBVIOUS
  <2>1. is = was /\ was \in Seq(Buffers) /\ (Len(was) = 0 => wire = <<>>)
    BY <1>1, <1>5
  <2> QED
    BY <1>2, <2>1
<1>4. ASSUME NEW b \in Buffers, KeyFifo = <<>>, KeyFifo' = Append(KeyFifo, b) PROVE wire' = <<HID_buffer>>
  <2>1. Len(Append(KeyFifo, b)) = Len(KeyFifo) + 1 /\ Len(KeyFifo) = 0
    BY <1>1, <1>4
  <2>2. wire' = Append(wire, HID_buffer)
    BY <1>2, <1>4, <1>5, <2>1
  <2> QED
    BY <1>1, <1>4, <2>2
<1> QED
  BY <1>1, <1>3, <1>4

\* A step that starts or ends no call for the HID endpoint, and adds no other call
\* than for what is raised.
CallsElsewhere ==
  /\ \A i \in {"XFRC", "EPDISD"} :
       /\ <<i, HID_IEP>> \in calls' => Waits(i)
       /\ <<i, HID_IEP>> \in calls => <<i, HID_IEP>> \in calls'
  /\ <<"TXFE", HID_IEP>> \in calls' => <<"TXFE", HID_IEP>> \in calls \/ HID_IEP \in DIEPEMPMSK
  /\ \A c \in GlobalInts : <<c, 0>> \in calls' => <<c, 0>> \in calls \/ c \in GINTSTS

LEMMA ElsewhereDone ==
  ASSUME NEW c \in calls, Done(c), c \notin {<<"XFRC", HID_IEP>>, <<"EPDISD", HID_IEP>>}
  PROVE  CallsElsewhere
BY DEF Done, CallsElsewhere, Waits

LEMMA ElsewhereSame == calls' = calls => CallsElsewhere
BY DEF CallsElsewhere, Waits

LEMMA ElsewhereAdded ==
  ASSUME KeyboardTypeOK,
         USB_common_handler \/ IEP_interrupts \/ IEP_common_handler \/ OEP_interrupts \/ OEP_common_handler
           \/ USB_suspend_IRQ
  PROVE  CallsElsewhere
<1>1. HID_IEP # 0 /\ GINTSTS \subseteq GlobalInts
  BY KeyTypes DEF TypeOK, CoreOK
<1>2. CASE USB_common_handler
  <2>1. calls = {} /\ calls' = Raised \X {0}
    BY <1>2 DEF USB_common_handler
  <2>2. Raised \subseteq {"RXFLVL", "IEPINT", "OEPINT"} \cup GINTSTS
    BY DEF Raised
  <2>3. \A i : <<i, HID_IEP>> \notin calls'
    BY <1>1, <2>1
  <2>4. \A c \in GlobalInts : <<c, 0>> \in calls' => c \in GINTSTS
    BY <2>1, <2>2 DEF GlobalInts
  <2> QED
    BY <2>1, <2>3, <2>4 DEF CallsElsewhere
<1>3. CASE IEP_common_handler
  <2> PICK n \in EpNum : IEP_common_handler!(n)
    BY <1>3 DEF IEP_common_handler
  <2>1. \A d \in calls' : \/ d \in calls
                          \/ \E i \in {"XFRC", "EPDISD"} : i \in DIEPINT[n] /\ d = <<i, n>>
                          \/ n \in DIEPEMPMSK /\ d = <<"TXFE", n>>
    OBVIOUS
  <2>2. \A d \in calls : d # <<"IEP", n>> => d \in calls'
    OBVIOUS
  <2>3. \A i \in {"XFRC", "EPDISD"} : <<i, HID_IEP>> \in calls' => Waits(i)
    BY <2>1 DEF Waits
  <2>4. <<"TXFE", HID_IEP>> \in calls' => <<"TXFE", HID_IEP>> \in calls \/ HID_IEP \in DIEPEMPMSK
    BY <2>1
  <2>5. \A c \in GlobalInts : <<c, 0>> \in calls' => <<c, 0>> \in calls
    BY <2>1 DEF GlobalInts
  <2> QED
    BY <2>2, <2>3, <2>4, <2>5 DEF CallsElsewhere
<1> DEFINE Other(d) == /\ \A i \in {"XFRC", "EPDISD", "TXFE"} : d # <<i, HID_IEP>>
                       /\ \A g \in GlobalInts : d # <<g, 0>>
<1> DEFINE Adds(c, more) ==
      (\A d \in calls' : d \in calls \/ d \in more) /\ (\A d \in calls : d = c \/ d \in calls')
<1>4. ASSUME NEW c, NEW more, Adds(c, more), \A d \in more : Other(d),
             \A i \in {"XFRC", "EPDISD"} : c # <<i, HID_IEP>>
      PROVE  CallsElsewhere
  <2>1. \A d \in calls' : Other(d) \/ d \in calls
    BY <1>4
  <2> QED
    BY <1>4, <2>1 DEF CallsElsewhere, Waits
<1>5. CASE IEP_interrupts
  <2>1. Adds(<<"IEPINT", 0>>, {<<"IEP", n>> : n \in EpNum})
    BY <1>5 DEF IEP_interrupts
  <2>2. \A d \in {<<"IEP", n>> : n \in EpNum} : Other(d)
    BY DEF GlobalInts
  <2> HIDE DEF Adds, Other
  <2> QED
    BY <1>4, <2>1, <2>2
<1>6. CASE OEP_interrupts
  <2>1. Adds(<<"OEPINT", 0>>, {<<"OEP", 0>>})
    BY <1>6 DEF OEP_interrupts
  <2>2. \A d \in {<<"OEP", 0>>} : Other(d)
    BY DEF GlobalInts
  <2> HIDE DEF Adds, Other
  <2> QED
    BY <1>4, <2>1, <2>2
<1>7. CASE OEP_common_handler
  <2>1. Adds(<<"OEP", 0>>, {<<"OUT_XFRC", 0>>, <<"STUP", 0>>})
    BY <1>7 DEF OEP_common_handler
  <2>2. \A d \in {<<"OUT_XFRC", 0>>, <<"STUP", 0>>} : Other(d)
    BY DEF GlobalInts
  <2> HIDE DEF Adds, Other
  <2> QED
    BY <1>4, <2>1, <2>2
<1>8. CASE USB_suspend_IRQ
  <2>1. Adds(<<"USBSUSP", 0>>, {<<"USBSUSP_ACK", 0>>})
    BY <1>8 DEF USB_suspend_IRQ
  <2>2. \A d \in {<<"USBSUSP_ACK", 0>>} : Other(d)
    BY DEF GlobalInts
  <2> HIDE DEF Adds, Other
  <2> QED
    BY <1>4, <2>1, <2>2
<1> QED
  BY <1>2, <1>3, <1>5, <1>6, <1>7, <1>8

\* A step of the driver or of the core that leaves the HID endpoint as it is.
LEMMA ReportElsewhere ==
  ASSUME KeyboardTypeOK, AddressInv, ReportInv,
         KeyEp' = KeyEp, DIEPINT'[HID_IEP] = DIEPINT[HID_IEP],
         KeyFifo' = KeyFifo, wire' = wire, hid_state' = hid_state, UNCHANGED mainVars,
         HID_IEP \in DIEPEMPMSK' <=> HID_IEP \in DIEPEMPMSK,
         CallsElsewhere, CallsFollow, GINTSTS' \subseteq GINTSTS, UNCHANGED <<bus, BaseState>>,
         Ended => Ended',
         \/ dev_state' = dev_state
         \/ bus = "suspended" /\ <<"USBSUSP", 0>> \in calls
         \/ dev_state' = BaseState /\ <<"WKUINT", 0>> \in calls
  PROVE  ReportInv'
<1>1. \A i \in {"XFRC", "EPDISD"} : Waits(i)' <=> Waits(i)
  BY DEF CallsElsewhere, Waits
<1>2. SameReport
  BY <1>1 DEF SameReport, CallsElsewhere, Completing
<1>3. \A c \in {"USBRST", "ENUMDNE"} : (Pends(c)' => Pends(c)) /\ (Due(c) => Due(c)')
  BY DEF Pends, CallsFollow
<1>4. Resetting => Resetting'
  BY <1>3 DEF AddressInv, Resetting, Pends, Due
<1>5. Undisturbing => Undisturbing'
  BY DEF Undisturbing, CallsElsewhere, GlobalInts
<1>6. BaseState # "SUSPENDED"
  BY DEF KeyboardTypeOK, TypeOK, HandleOK, BaseState
<1>7. ClassHears' /\ FlushedAsleep'
  BY <1>2, <1>3, <1>6 DEF ReportInv, SameReport, ClassHears, FlushedAsleep
<1> QED
  BY <1>2, <1>4, <1>5, <1>7, ReportKept

\* The calls that do not end a transfer on the HID endpoint, copy to it or change
\* the configuration.
LEMMA ReportCalls ==
  ASSUME KeyboardTypeOK, KeyboardTypeOK', PacketWaits, ControlInv, AddressInv, ReportInv,
         Driver, WireFollows, UNCHANGED mainVars,
         ~USB_reset_IRQ, ~USB_enumeration_done_IRQ, ~OEP_setup_done,
         ~IEP_transfer_complete_IRQ, ~IEP_disabled_IRQ, ~IEP_FIFO_empty_IRQ
  PROVE  ReportInv'
<1> USE DEF handleVars, controlVars, epVars, coreVars, hostVars
<1>1. TypeOK
  BY KeyTypes
<1>2. CallsFollow /\ UNCHANGED <<DAD, bus, BaseState>> /\ GINTSTS' \subseteq GINTSTS
  BY <1>1, CallsStep
<1>3. /\ UNCHANGED <<IN_ep, DIEPINT, fifo, hid_state, DIEPEMPMSK>>
  BY DEF Driver, USB_common_handler, USB_receive_packet_IRQ, USB_suspend_IRQ,
     USB_suspend_acknowledge, IEP_interrupts, IEP_common_handler, OEP_interrupts,
     OEP_common_handler, OEP_transfer_complete, USB_wake_up_IRQ, ControlInv, Never
<1>4. KeyEp' = KeyEp /\ KeyFifo' = KeyFifo /\ wire' = wire
  BY <1>3, WireSame DEF KeyEp, KeyFifo
<1>5. CallsElsewhere
  <2>1. CASE \E c \in GlobalCalls \X {0} : c \in calls /\ Done(c)
    <3>1. \A c \in GlobalCalls \X {0} : c \notin {<<"XFRC", HID_IEP>>, <<"EPDISD", HID_IEP>>}
      BY KeyTypes
    <3> QED
      BY <2>1, <3>1, ElsewhereDone
  <2>2. CASE USB_receive_packet_IRQ \/ USB_suspend_acknowledge \/ OEP_transfer_complete \/ USB_wake_up_IRQ
    BY <2>1, <2>2 DEF USB_receive_packet_IRQ, USB_suspend_acknowledge, OEP_transfer_complete,
       USB_wake_up_IRQ, Calling, GlobalCalls
  <2> QED
    BY <2>2, ElsewhereAdded DEF Driver
<1>6. Ended => Ended'
  <2>1. CASE USB_receive_packet_IRQ
    BY <1>1, <2>1, Received0
  <2>2. CASE OEP_transfer_complete
    BY <2>2 DEF OEP_transfer_complete, Done, Ended, Entry
  <2>3. CASE ~USB_receive_packet_IRQ /\ ~OEP_transfer_complete
    <3>1. UNCHANGED <<rx, setup, stage, req, DOEPINT>>
      BY <2>3 DEF Driver, USB_common_handler, USB_suspend_IRQ, USB_suspend_acknowledge,
         IEP_interrupts, IEP_common_handler, OEP_interrupts, OEP_common_handler, USB_wake_up_IRQ
    <3> QED
      BY <1>2, <3>1, ArrivalKept
  <2> QED
    BY <2>1, <2>2, <2>3
<1>7. \/ dev_state' = dev_state
      \/ bus = "suspended" /\ <<"USBSUSP", 0>> \in calls
      \/ dev_state' = BaseState /\ <<"WKUINT", 0>> \in calls
  BY DEF Driver, USB_common_handler, USB_receive_packet_IRQ, USB_suspend_IRQ,
     USB_suspend_acknowledge, IEP_interrupts, IEP_common_handler, OEP_interrupts,
     OEP_common_handler, OEP_transfer_complete, USB_wake_up_IRQ, Calling
<1> QED
  BY <1>2, <1>3, <1>4, <1>5, <1>6, <1>7, ReportElsewhere

\* What is known of the HID endpoint while the driver sees to the end of its
\* transfer: send_HID_report is not running and nothing is left to copy.
LEMMA EndedTransfer ==
  ASSUME ReportInv, Completing \/ Closing
  PROVE  ~KeyEp.EPENA /\ main \notin Steps \ {"send"} /\ HID_IEP \notin DIEPEMPMSK
         /\ (Completing => ~Closing /\ KeyFifo = <<>>)
<1>1. ~KeyEp.EPENA
  BY DEF ReportInv, ArmedOnce
<1> QED
  BY <1>1 DEF ReportInv, NothingLeft, EndsOnce, MainFollows, Steps

\* A completion or an end on the other endpoint is no matter of the report.
LEMMA ReportOther ==
  ASSUME KeyboardTypeOK, KeyboardTypeOK', ControlInv, AddressInv, ReportInv,
         Driver, WireFollows, UNCHANGED mainVars,
         ~USB_reset_IRQ, ~USB_enumeration_done_IRQ, ~OEP_setup_done,
         KeyEp' = KeyEp, DIEPINT'[HID_IEP] = DIEPINT[HID_IEP], KeyFifo' = KeyFifo,
         hid_state' = hid_state, HID_IEP \in DIEPEMPMSK' <=> HID_IEP \in DIEPEMPMSK,
         UNCHANGED <<rx, setup, stage, req, DOEPINT, dev_state>>,
         NEW c \in calls, Done(c), c \notin {<<"XFRC", HID_IEP>>, <<"EPDISD", HID_IEP>>}
  PROVE  ReportInv'
<1>1. CallsFollow /\ UNCHANGED <<DAD, bus, BaseState>> /\ GINTSTS' \subseteq GINTSTS
  BY KeyTypes, CallsStep
<1>2. Ended => Ended'
  BY <1>1, ArrivalKept
<1>3. wire' = wire /\ CallsElsewhere
  BY WireSame, ElsewhereDone
<1> QED
  BY <1>1, <1>2, <1>3, ReportElsewhere

LEMMA ReportComplete ==
  ASSUME KeyboardTypeOK, KeyboardTypeOK', ControlInv, AddressInv, ReportInv,
         Driver, WireFollows, UNCHANGED mainVars,
         ~USB_reset_IRQ, ~USB_enumeration_done_IRQ, ~OEP_setup_done,
         IEP_transfer_complete_IRQ
  PROVE  ReportInv'
<1> USE DEF mainVars, handleVars, hostVars
<1> PICK n \in EpNum : IEP_transfer_complete_IRQ!(n)
  BY DEF IEP_transfer_complete_IRQ
<1>1. /\ HID_IEP \in EpNum /\ 0 \in EpNum /\ HID_IEP # 0 /\ TypeOK /\ IN_ep \in INTable
      /\ DIEPINT \in [EpNum -> SUBSET {"XFRC", "EPDISD"}]
  BY KeyTypes
<1>2. /\ <<"XFRC", n>> \in calls /\ Done(<<"XFRC", n>>)
      /\ DIEPINT' = [DIEPINT EXCEPT ![n] = {}] /\ hid_state' = HID_in_transfer(n)
      /\ UNCHANGED <<dev_state, rx, setup, stage, req, DOEPINT, fifo>>
  BY DEF Calling
<1>3. KeyFifo' = KeyFifo
  BY <1>2 DEF KeyFifo
<1>4. CASE n # HID_IEP
  <2>1. n = 0
    BY <1>4 DEF HID_IEP, EpNum
  <2>2. \/ IN_ep' = IN_ep \/ IN_ep' = stall_IEP(IN_ep, 0)
        \/ \E buffer, size : IN_ep' = IN_transfer(IN_ep, 0, buffer, size)
    BY Zenon
  <2>3. \A buffer, size : IN_transfer(IN_ep, 0, buffer, size)[HID_IEP] = IN_ep[HID_IEP]
    BY <1>1 DEF IN_transfer, INTable
  <2>4. stall_IEP(IN_ep, 0)[HID_IEP] = IN_ep[HID_IEP]
    BY <1>1, stall_IEPType
  <2>5. KeyEp' = KeyEp
    BY <2>2, <2>3, <2>4 DEF KeyEp
  <2>6. HID_IEP \in DIEPEMPMSK' <=> HID_IEP \in DIEPEMPMSK
    BY <1>1, <2>1
  <2>7. DIEPINT'[HID_IEP] = DIEPINT[HID_IEP] /\ hid_state' = hid_state
    BY <1>1, <1>2, <1>4 DEF HID_in_transfer
  <2> QED
    BY <1>2, <1>3, <1>4, <2>5, <2>6, <2>7, ReportOther
<1>5. CASE n = HID_IEP
  <2>1. Completing
    BY <1>2, <1>5 DEF Completing, Waits
  <2>2. /\ ~KeyEp.EPENA /\ main = "send" /\ HID_IEP \notin DIEPEMPMSK /\ ~Closing /\ KeyFifo = <<>>
    BY <2>1, EndedTransfer DEF KeyboardTypeOK
  <2>3. ~InDataStage(n)
    BY <1>1, <1>5 DEF InDataStage
  <2>4. IN_ep' = IN_ep /\ DIEPEMPMSK' = DIEPEMPMSK \ {n}
    BY <2>3
  <2>5. /\ KeyEp' = KeyEp /\ HID_IEP \notin DIEPEMPMSK'
        /\ ~Completing' /\ (Waits("EPDISD")' => Waits("EPDISD"))
    BY <1>1, <1>2, <1>5, <2>2, <2>4 DEF KeyEp, Completing, Waits, Done
  <2>6. ~Closing'
    BY <2>2, <2>5 DEF Closing
  <2>7. SentAlone' /\ ArmedOnce'
    BY <2>2, <2>5 DEF SentAlone, ArmedOnce
  <2>8. NothingLeft'
    BY <1>2, <1>3, <2>2, <2>5 DEF NothingLeft, Done, ReportInv
  <2>9. EndsOnce' /\ MainFollows' /\ ClassHears'
    BY <2>2, <2>5, <2>6 DEF EndsOnce, MainFollows, ClassHears, Closing
  <2>10. CallsFollow /\ UNCHANGED <<DAD, bus, BaseState>> /\ GINTSTS' \subseteq GINTSTS
    BY <1>1, CallsStep
  <2>11. BusyMeans'
    <3>1. BaseState = "CONFIGURED" => hid_state' = "IDLE"
      BY <1>2, <1>5, <2>1 DEF HID_in_transfer, ReportInv, ClassHears
    <3> QED
      BY <2>10, <3>1 DEF BusyMeans
  <2>12. FlushedAsleep'
    BY <1>3, <2>2, <2>10 DEF FlushedAsleep, ReportInv, Pends, CallsFollow
  <2> QED
    BY <2>7, <2>8, <2>9, <2>11, <2>12 DEF ReportInv
<1> QED
  BY <1>4, <1>5

LEMMA ReportDisabled ==
  ASSUME KeyboardTypeOK, KeyboardTypeOK', ControlInv, AddressInv, ReportInv,
         Driver, WireFollows, UNCHANGED mainVars,
         ~USB_reset_IRQ, ~USB_enumeration_done_IRQ, ~OEP_setup_done,
         IEP_disabled_IRQ
  PROVE  ReportInv'
<1> USE DEF mainVars, handleVars, controlVars, epVars, hostVars
<1> PICK n \in EpNum : IEP_disabled_IRQ!(n)
  BY DEF IEP_disabled_IRQ
<1>1. /\ HID_IEP \in EpNum /\ 0 \in EpNum /\ HID_IEP # 0 /\ TypeOK
      /\ DIEPINT \in [EpNum -> SUBSET {"XFRC", "EPDISD"}] /\ fifo \in [EpNum -> Seq(Buffers)]
  BY KeyTypes
<1>2. /\ <<"EPDISD", n>> \in calls /\ Done(<<"EPDISD", n>>)
      /\ DIEPINT' = [DIEPINT EXCEPT ![n] = {}] /\ fifo' = [fifo EXCEPT ![n] = <<>>]
      /\ UNCHANGED <<dev_state, rx, setup, stage, req, DOEPINT, IN_ep, DIEPEMPMSK, hid_state>>
  BY DEF Calling, flush_TX_FIFO
<1>3. KeyEp' = KeyEp
  BY <1>2 DEF KeyEp
<1>4. CASE n # HID_IEP
  <2>1. DIEPINT'[HID_IEP] = DIEPINT[HID_IEP] /\ KeyFifo' = KeyFifo
    BY <1>1, <1>2, <1>4 DEF KeyFifo
  <2> QED
    BY <1>2, <1>3, <1>4, <2>1, ReportOther
<1>5. CASE n = HID_IEP
  <2>1. Closing
    BY <1>2, <1>5 DEF Closing, Waits
  <2>2. ~KeyEp.EPENA /\ main = "send" /\ HID_IEP \notin DIEPEMPMSK /\ ~Completing
    BY <2>1, EndedTransfer DEF KeyboardTypeOK
  <2>3. /\ KeyFifo' = <<>> /\ ~Waits("EPDISD")' /\ ~Completing'
    BY <1>1, <1>2, <1>5, <2>2 DEF KeyFifo, Waits, Completing, Done
  <2>4. CallsFollow /\ UNCHANGED <<DAD, bus, BaseState>> /\ GINTSTS' \subseteq GINTSTS
    BY <1>1, CallsStep
  <2>5. Ended => Ended'
    BY <1>2, <2>4, ArrivalKept
  <2>6. SentAlone' /\ ArmedOnce' /\ MainFollows' /\ ClassHears' /\ FlushedAsleep'
    BY <1>2, <1>3, <2>2, <2>3, <2>4
       DEF SentAlone, ArmedOnce, MainFollows, ClassHears, FlushedAsleep, ReportInv, Pends, CallsFollow
  <2>7. NothingLeft' /\ EndsOnce' /\ BusyMeans'
    BY <1>2, <1>3, <2>2, <2>3, <2>4, <2>5 DEF NothingLeft, EndsOnce, BusyMeans, ReportInv, Done
  <2> QED
    BY <2>6, <2>7 DEF ReportInv
<1> QED
  BY <1>4, <1>5

\* The copy puts the report submitted last in an empty FIFO.
LEMMA ReportCopied ==
  ASSUME KeyboardTypeOK, KeyboardTypeOK', ControlInv, AddressInv, ReportInv,
         Driver, WireFollows, UNCHANGED mainVars,
         ~USB_reset_IRQ, ~USB_enumeration_done_IRQ, ~OEP_setup_done,
         IEP_FIFO_empty_IRQ
  PROVE  ReportInv'
<1> USE DEF mainVars, handleVars, controlVars, epVars, hostVars
<1> PICK n \in EpNum : IEP_FIFO_empty_IRQ!(n)
  BY DEF IEP_FIFO_empty_IRQ
<1>1. /\ HID_IEP \in EpNum /\ 0 \in EpNum /\ HID_IEP # 0 /\ TypeOK /\ IN_ep \in INTable
      /\ fifo \in [EpNum -> Seq(Buffers)] /\ KeyEp \in INEndpoint
  BY KeyTypes
<1>2. /\ <<"TXFE", n>> \in calls /\ Done(<<"TXFE", n>>)
      /\ UNCHANGED <<dev_state, rx, setup, stage, req, DOEPINT, hid_state, DIEPINT>>
  BY DEF Calling
<1>3. CASE n # HID_IEP
  <2>1. /\ fifo' = fifo \/ fifo' = [fifo EXCEPT ![n] = Append(@, IN_ep[n].buffer)]
        /\ IN_ep' = IN_ep \/ IN_ep' = [IN_ep EXCEPT ![n].count = IN_ep[n].size]
        /\ DIEPEMPMSK' \in {DIEPEMPMSK, DIEPEMPMSK \ {n}}
    OBVIOUS
  <2>2. KeyEp' = KeyEp /\ KeyFifo' = KeyFifo /\ (HID_IEP \in DIEPEMPMSK' <=> HID_IEP \in DIEPEMPMSK)
    BY <1>1, <1>3, <2>1 DEF KeyEp, KeyFifo, INTable
  <2> QED
    BY <1>2, <1>3, <2>2, ReportOther
<1>4. CASE n = HID_IEP
  <2>1. HID_IEP \in DIEPEMPMSK /\ KeyEp.EPENA
    BY <1>2, <1>4 DEF ReportInv, NothingLeft
  <2>2. /\ Undisturbing /\ ToBeCopied /\ main = "send"
        /\ BaseState = "CONFIGURED" /\ KeyEp.size = 8 /\ hid_state = "BUSY"
        /\ ~Completing /\ ~Closing
    BY <2>1 DEF ReportInv, SentAlone, ArmedOnce, WasCopied, ToBeCopied
  <2>3. KeyEp.count = 0 /\ KeyFifo = <<>> /\ HID_buffer = submitted
    BY <2>2 DEF ToBeCopied
  <2>4. FifoEmpty(n)
    BY <1>4, <2>3, BoundsAssumption DEF FifoEmpty, KeyFifo
  <2>5. /\ fifo' = [fifo EXCEPT ![n] = Append(@, IN_ep[n].buffer)]
        /\ IN_ep' = [IN_ep EXCEPT ![n].count = IN_ep[n].size] /\ DIEPEMPMSK' = DIEPEMPMSK \ {n}
    BY <1>4, <2>2, <2>3, <2>4 DEF KeyEp
  <2>6. KeyEp.buffer \in Buffers /\ KeyFifo' = Append(KeyFifo, KeyEp.buffer)
    BY <1>1, <1>4, <2>5 DEF KeyEp, KeyFifo, INEndpoint
  <2>7. wire' = <<submitted>>
    BY <2>3, <2>6, WireSame
  <2>8. /\ KeyEp'.EPENA /\ KeyEp'.count = 8 /\ KeyEp'.size = 8 /\ KeyEp'.EPDIS = KeyEp.EPDIS
    BY <1>1, <1>4, <2>1, <2>2, <2>5 DEF KeyEp, INTable, INEndpoint
  <2>9. ~Completing' /\ ~Closing'
    BY <1>2, <2>2, <2>8 DEF Completing, Closing, Waits, Done
  <2>10. CallsFollow /\ UNCHANGED <<DAD, bus, BaseState>> /\ GINTSTS' \subseteq GINTSTS
    BY <1>1, CallsStep
  <2>11. main' = "send" /\ HID_IEP \notin DIEPEMPMSK' /\ <<"TXFE", HID_IEP>> \notin calls'
    BY <1>2, <1>4, <2>2, <2>5 DEF Done
  <2>12. SentAlone' /\ NothingLeft' /\ EndsOnce' /\ MainFollows' /\ BusyMeans' /\ ClassHears'
    BY <2>8, <2>9, <2>11 DEF SentAlone, NothingLeft, EndsOnce, MainFollows, BusyMeans, ClassHears, Closing
  <2>13. WasCopied'
    BY <2>7, <2>8, <2>11 DEF WasCopied
  <2>14. ArmedOnce'
    BY <1>2, <2>2, <2>8, <2>9, <2>10, <2>11, <2>13 DEF ArmedOnce
  <2>15. dev_state' # "SUSPENDED" /\ (Pends("ENUMDNE")' => Pends("ENUMDNE"))
    BY <1>2, <2>2, <2>10 DEF Undisturbing, Pends, CallsFollow
  <2>16. FlushedAsleep'
    BY <2>10, <2>15 DEF FlushedAsleep, ReportInv
  <2> QED
    BY <2>12, <2>14, <2>16 DEF ReportInv
<1> QED
  BY <1>3, <1>4

\* While an interrupt waits that concerns the state of the device, send_HID_report
\* is not running.
LEMMA NotSending ==
  ASSUME ReportInv, ~Undisturbing
  PROVE  main = "send" /\ HID_IEP \notin DIEPEMPMSK
BY DEF ReportInv, SentAlone

LEMMA ReportReset ==
  ASSUME KeyboardTypeOK, KeyboardTypeOK', ControlInv, AddressInv, ReportInv,
         WireFollows, UNCHANGED mainVars, USB_reset_IRQ
  PROVE  ReportInv'
<1> USE DEF mainVars, handleVars, controlVars, hostVars
<1>1. /\ HID_IEP \in EpNum /\ IN_ep \in INTable /\ KeyEp \in INEndpoint
  BY KeyTypes
<1>2. /\ <<"USBRST", 0>> \in calls /\ Done(<<"USBRST", 0>>) /\ GINTSTS' = {} /\ DOEPINT' = {}
      /\ DIEPINT'[HID_IEP] = {} /\ KeyFifo' = <<>>
      /\ UNCHANGED <<dev_state, BaseState, hid_state, DIEPEMPMSK, rx, bus, stage, req>>
  BY <1>1 DEF USB_reset_IRQ, Calling, Acknowledge, flush_TX_FIFOS, KeyFifo, BaseState
<1>3. /\ KeyEp'.EPENA = KeyEp.EPENA /\ KeyEp'.EPDIS = KeyEp.EPDIS /\ KeyEp'.size = KeyEp.size
      /\ KeyEp'.count = KeyEp.count
  BY <1>1 DEF USB_reset_IRQ, KeyEp, INTable, INEndpoint
<1>4. bus = "reset" /\ Resetting' /\ ~Pends("ENUMDNE")'
  <2>1. bus = "reset"
    BY <1>2 DEF AddressInv, Pends
  <2>2. ~Pends("ENUMDNE")
    BY <2>1 DEF ReportInv, FlushedAsleep
  <2> QED
    BY <1>2, <2>1, <2>2 DEF Resetting, Pends, Done
<1>5. main = "send" /\ HID_IEP \notin DIEPEMPMSK
  BY <1>2, NotSending DEF Undisturbing, GlobalInts
<1>6. wire' = <<>>
  BY <1>2, WireSame
<1>7. (Completing' => Completing) /\ (Closing' => Closing) /\ (Ended => Ended')
  BY <1>2, <1>3 DEF Completing, Closing, Waits, Done, Ended, Entry
<1>8. Completing => BaseState # "CONFIGURED"
  BY <1>4 DEF ReportInv, ClassHears
<1>9. SentAlone' /\ NothingLeft' /\ EndsOnce' /\ MainFollows'
  BY <1>2, <1>3, <1>5, <1>7 DEF SentAlone, NothingLeft, EndsOnce, MainFollows, ReportInv, Done
<1>10. ArmedOnce'
  <2>1. SUFFICES ASSUME KeyEp.EPENA PROVE ArmedOnce'
    BY <1>3 DEF ArmedOnce
  <2>2. WasCopied
    BY <1>5, <2>1 DEF ReportInv, ArmedOnce, ToBeCopied
  <2>3. WasCopied'
    BY <1>2, <1>3, <1>4, <1>5, <1>6, <2>2 DEF WasCopied
  <2> QED
    BY <1>2, <1>3, <1>5, <1>7, <2>1, <2>3 DEF ReportInv, ArmedOnce
<1>11. BusyMeans' /\ ClassHears' /\ FlushedAsleep'
  BY <1>2, <1>3, <1>4, <1>5, <1>7, <1>8 DEF ReportInv, BusyMeans, ClassHears, FlushedAsleep
<1> QED
  BY <1>9, <1>10, <1>11 DEF ReportInv

\* HID_deinit: what is still in the FIFO is flushed when the endpoint has stopped.
LEMMA ReportClosed ==
  ASSUME ReportInv, ~Undisturbing, UNCHANGED mainVars,
         Closed1(KeyEp', KeyEp), KeyFifo' = KeyFifo,
         HID_IEP \in DIEPEMPMSK' <=> HID_IEP \in DIEPEMPMSK,
         Completing' <=> Completing, Waits("EPDISD")' <=> Waits("EPDISD"),
         <<"TXFE", HID_IEP>> \in calls' => <<"TXFE", HID_IEP>> \in calls,
         BaseState' # "CONFIGURED", dev_state' # "SUSPENDED", Ended',
         Pends("ENUMDNE")' => bus' = "active"
  PROVE  ReportInv'
<1> USE DEF mainVars
<1>1. main' = "send" /\ HID_IEP \notin DIEPEMPMSK'
  BY NotSending
<1>2. ~KeyEp'.EPENA /\ (KeyEp'.EPDIS <=> KeyEp.EPDIS \/ KeyEp.EPENA)
  BY DEF Closed1
<1>3. Closing' <=> Closing \/ KeyEp.EPENA
  BY <1>2 DEF Closing
<1>4. Closing' => ~Completing'
  BY <1>3 DEF ReportInv, EndsOnce, ArmedOnce
<1>5. EndsOnce'
  BY <1>4 DEF EndsOnce
<1>6. SentAlone' /\ ArmedOnce' /\ MainFollows' /\ BusyMeans' /\ ClassHears' /\ FlushedAsleep'
  BY <1>1, <1>2 DEF SentAlone, ArmedOnce, MainFollows, BusyMeans, ClassHears, FlushedAsleep
<1>7. NothingLeft'
  BY <1>1, <1>2, <1>3 DEF ReportInv, NothingLeft
<1> QED
  BY <1>5, <1>6, <1>7 DEF ReportInv

LEMMA ReportEnumeration ==
  ASSUME KeyboardTypeOK, ControlInv, AddressInv, ReportInv, UNCHANGED mainVars,
         USB_enumeration_done_IRQ
  PROVE  ReportInv'
<1> USE DEF handleVars, controlVars, hostVars
<1>1. /\ HID_IEP \in EpNum /\ HID_IEP # 0 /\ IN_ep \in INTable
  BY KeyTypes
<1>2. /\ <<"ENUMDNE", 0>> \in calls /\ Done(<<"ENUMDNE", 0>>) /\ GINTSTS' = {}
      /\ dev_state' = "DEFAULT" /\ BaseState' = "DEFAULT"
      /\ UNCHANGED <<DIEPINT, fifo, DIEPEMPMSK, DOEPINT, rx, bus, stage, req>>
  BY DEF USB_enumeration_done_IRQ, Calling, Acknowledge, BaseState
<1> DEFINE closed == HID_deinit(IN_ep)
<1>3. IN_ep' = [open_IEP(closed, 0, EP0_MPS) EXCEPT ![0].is_used = TRUE]
  BY DEF USB_enumeration_done_IRQ
<1>4. closed \in INTable /\ Closed1(closed[HID_IEP], IN_ep[HID_IEP])
  BY <1>1, HID1, HIDTypes
<1> HIDE DEF closed
<1>5. Closed1(KeyEp', KeyEp)
  BY <1>1, <1>3, <1>4 DEF open_IEP, INTable, KeyEp
<1>6. stage = "idle" /\ Ended
  BY <1>2 DEF ControlInv, Busy, Arrival
<1>7. Ended' /\ ~Pends("ENUMDNE")' /\ ~Undisturbing
  BY <1>2, <1>6 DEF Ended, Entry, Done, Pends, Undisturbing, GlobalInts
<1>8. /\ Completing' <=> Completing
      /\ Waits("EPDISD")' <=> Waits("EPDISD")
      /\ <<"TXFE", HID_IEP>> \in calls' => <<"TXFE", HID_IEP>> \in calls
      /\ KeyFifo' = KeyFifo
  BY <1>2 DEF Completing, Waits, Done, KeyFifo
<1> QED
  BY <1>2, <1>5, <1>7, <1>8, ReportClosed

\* HID_init finds no transfer in progress, as the device is not configured yet.
LEMMA ReportOpened ==
  ASSUME ReportInv, ~Undisturbing, UNCHANGED mainVars, ~KeyEp.EPENA, ~KeyEp.EPDIS,
         ~KeyEp'.EPENA, ~KeyEp'.EPDIS, KeyFifo' = KeyFifo, hid_state' = "IDLE",
         HID_IEP \in DIEPEMPMSK' <=> HID_IEP \in DIEPEMPMSK,
         Completing' <=> Completing, Waits("EPDISD")' <=> Waits("EPDISD"),
         <<"TXFE", HID_IEP>> \in calls' => <<"TXFE", HID_IEP>> \in calls,
         dev_state' = "CONFIGURED", bus' = "active"
  PROVE  ReportInv'
<1> USE DEF mainVars
<1>1. main' = "send" /\ HID_IEP \notin DIEPEMPMSK'
  BY NotSending
<1>2. Closing' <=> Closing
  BY DEF Closing
<1>3. SentAlone' /\ ArmedOnce' /\ MainFollows' /\ BusyMeans' /\ ClassHears' /\ FlushedAsleep'
  BY <1>1 DEF SentAlone, ArmedOnce, MainFollows, BusyMeans, ClassHears, FlushedAsleep
<1>4. NothingLeft' /\ EndsOnce'
  BY <1>1, <1>2 DEF ReportInv, NothingLeft, EndsOnce
<1> QED
  BY <1>3, <1>4 DEF ReportInv

LEMMA ReportSetup ==
  ASSUME KeyboardTypeOK, KeyboardTypeOK', ControlInv, SleepInv, AddressInv, ReportInv,
         RegularRequests, EndpointFollowsConfiguration, EndpointFollowsConfiguration',
         WireFollows, UNCHANGED mainVars, OEP_setup_done
  PROVE  ReportInv'
<1> USE DEF mainVars
<1>1. /\ HID_IEP \in EpNum /\ HID_IEP # 0 /\ IN_ep \in INTable /\ TypeOK
  BY KeyTypes
<1>2. /\ ~Ended /\ bus = "active" /\ rx = <<>>
      /\ <<"STUP", 0>> \in calls /\ calls' = calls \ {<<"STUP", 0>>} /\ DOEPINT' = {}
      /\ UNCHANGED <<setup, GINTSTS, DIEPINT, fifo, rx, bus, stage, req>>
  BY <1>1, SetupOutcome
<1>3. ~Undisturbing /\ ~KeyEp.EPDIS /\ Ended'
  BY <1>2 DEF Undisturbing, ReportInv, EndsOnce, Ended
<1>4. main = "send" /\ HID_IEP \notin DIEPEMPMSK
  BY <1>3, NotSending
<1>5. dev_state # "SUSPENDED"
  BY <1>2, AwakeForRequests
<1>6. \E h : DeviceRequest(h) \/ InterfaceRequest(h) \/ EndpointRequest(h) \/ OtherRequest(h)
  BY Zenon DEF OEP_setup_done
<1>7. dev_state' # "SUSPENDED"
  BY <1>5, <1>6, RequestState
<1>8. BaseState = dev_state /\ BaseState' = dev_state'
  BY <1>5, <1>7 DEF BaseState
<1>9. /\ Completing' <=> Completing
      /\ Waits("EPDISD")' <=> Waits("EPDISD")
      /\ <<"TXFE", HID_IEP>> \in calls' => <<"TXFE", HID_IEP>> \in calls
      /\ KeyFifo' = KeyFifo /\ wire' = wire
      /\ Pends("ENUMDNE")' => bus' = "active"
  BY <1>2, WireSame DEF Completing, Waits, KeyFifo, Pends
<1>10. HIDOutcome
  BY <1>1, RequestHID DEF OEP_setup_done, TypeOK, ControlOK
<1>11. CASE HIDKept
  <2>1. KeyEp' = KeyEp \/ Halted1(KeyEp', KeyEp)
    BY <1>1, <1>11, HID1 DEF HIDKept, KeyEp
  <2>2. KeyEp.EPDIS \in BOOLEAN /\ KeyEp.EPENA \in BOOLEAN
    BY KeyTypes DEF INEndpoint
  <2>3. /\ KeyEp'.EPENA = KeyEp.EPENA /\ KeyEp'.EPDIS = KeyEp.EPDIS
        /\ KeyEp'.size = KeyEp.size /\ KeyEp'.count = KeyEp.count
    BY <1>3, <2>1, <2>2 DEF Halted1
  <2>4. SameReport
    BY <1>3, <1>4, <1>8, <1>9, <1>10, <1>11, <2>3 DEF SameReport, HIDKept, HIDOutcome
  <2>5. Resetting => Resetting'
    BY <1>2 DEF Resetting
  <2>6. ClassHears' /\ FlushedAsleep'
    BY <1>2, <1>7, <1>8, <1>9 DEF ClassHears, FlushedAsleep
  <2> QED
    BY <1>3, <1>4, <2>4, <2>5, <2>6, ReportKept
<1>12. CASE HIDOpened
  <2>1. dev_state # "CONFIGURED" \/ dev_config' = dev_config
    BY <1>8, <1>12 DEF HIDOpened, EndpointFollowsConfiguration
  <2>2. dev_state # "CONFIGURED"
    BY <1>12, <2>1 DEF HIDOpened
  <2>3. ~KeyEp.EPENA
    BY <1>8, <2>2 DEF ReportInv, ArmedOnce
  <2>4. HID_deinit(IN_ep) \in INTable /\ Closed1(HID_deinit(IN_ep)[HID_IEP], KeyEp)
    BY <1>1, HID1, HIDTypes DEF KeyEp
  <2>5. \/ Opened1(KeyEp', KeyEp)
        \/ Opened1(KeyEp', HID_deinit(IN_ep)[HID_IEP])
    BY <1>1, <1>12, <2>4, HID1 DEF HIDOpened, KeyEp
  <2>6. ~KeyEp'.EPENA /\ ~KeyEp'.EPDIS
    BY <1>3, <2>3, <2>4, <2>5 DEF Opened1, Closed1
  <2> QED
    BY <1>2, <1>3, <1>9, <1>10, <1>12, <2>3, <2>6, ReportOpened DEF HIDOpened, HIDOutcome
<1>13. CASE HIDClosed
  <2>1. Closed1(KeyEp', KeyEp)
    BY <1>1, <1>13, HID1 DEF HIDClosed, KeyEp
  <2> QED
    BY <1>3, <1>7, <1>8, <1>9, <1>10, <1>13, <2>1, ReportClosed DEF HIDClosed, HIDOutcome
<1> QED
  BY <1>10, <1>11, <1>12, <1>13 DEF HIDOutcome

LEMMA ReportDriver ==
  ASSUME KeyboardTypeOK, KeyboardTypeOK', PacketWaits, ControlInv, SleepInv, AddressInv, ReportInv,
         RegularRequests, EndpointFollowsConfiguration, EndpointFollowsConfiguration',
         Driver, WireFollows, UNCHANGED mainVars
  PROVE  ReportInv'
<1>1. CASE USB_reset_IRQ \/ USB_enumeration_done_IRQ \/ OEP_setup_done
  BY <1>1, ReportReset, ReportEnumeration, ReportSetup
<1>2. CASE ~USB_reset_IRQ /\ ~USB_enumeration_done_IRQ /\ ~OEP_setup_done
  BY <1>2, ReportComplete, ReportDisabled, ReportCopied, ReportCalls
<1> QED
  BY <1>1, <1>2

\* What the core and the host do on EP0.
LEMMA ReportControl ==
  ASSUME KeyboardTypeOK, KeyboardTypeOK', ControlInv, AddressInv, ReportInv,
         WireFollows, UNCHANGED mainVars,
         HostReadsData \/ HostReadsStatus \/ HostSendsStatus \/ HostSeesStall \/ HostAborts
  PROVE  ReportInv'
<1> USE DEF driverVars, handleVars, controlVars, epVars, coreVars, hostVars
<1>1. /\ HID_IEP \in EpNum /\ 0 \in EpNum /\ HID_IEP # 0 /\ IN_ep \in INTable
      /\ DIEPINT \in [EpNum -> SUBSET {"XFRC", "EPDISD"}] /\ fifo \in [EpNum -> Seq(Buffers)]
  BY KeyTypes
<1>2. /\ UNCHANGED <<dev_state, BaseState, calls, GINTSTS, bus, hid_state, DIEPEMPMSK>>
      /\ KeyEp' = KeyEp /\ KeyFifo' = KeyFifo /\ DIEPINT'[HID_IEP] = DIEPINT[HID_IEP]
  <2>1. CASE Send(0)
    BY <1>1, <2>1 DEF Send, KeyEp, KeyFifo, HostReadsData, HostReadsStatus, HostSendsStatus,
       HostSeesStall, HostAborts, BaseState
  <2>2. CASE ~Send(0)
    BY <2>2 DEF KeyEp, KeyFifo, HostReadsData, HostReadsStatus, HostSendsStatus, HostSeesStall,
       HostAborts, BaseState
  <2> QED
    BY <2>1, <2>2
<1>3. Ended => Ended'
  <2>1. ASSUME Ended PROVE Ended'
    <3>1. CASE HostSendsStatus
      <4>1. rx = <<>> /\ rx' = Append(rx, Entry("OUT_DONE")) /\ stage' = "idle" /\ req' = req
        BY <2>1, <3>1 DEF HostSendsStatus, Ended, Entry
      <4>2. rx' = <<Entry("OUT_DONE")>>'
        BY <4>1 DEF Entry
      <4> QED
        BY <2>1, <3>1, <4>1, <4>2 DEF HostSendsStatus, Ended
    <3>2. CASE ~HostSendsStatus
      <4>1. UNCHANGED <<rx, DOEPINT, calls, req>> /\ (stage = "idle" => stage' = "idle")
        BY <3>2 DEF Send, HostReadsData, HostReadsStatus, HostSeesStall, HostAborts
      <4> QED
        BY <2>1, <4>1 DEF Ended, Entry
    <3> QED
      BY <3>1, <3>2
  <2> QED
    BY <2>1
<1>4. CallsElsewhere /\ CallsFollow /\ wire' = wire
  BY <1>2, ElsewhereSame, CallsSame, WireSame
<1> QED
  BY <1>2, <1>3, <1>4, ReportElsewhere

\* A device that sleeps while the bus is awake is not polled.
LEMMA PolledAwake ==
  ASSUME SleepInv, ReportInv, bus = "active", KeyFifo # <<>>, ~Pends("WKUINT")
  PROVE  dev_state # "SUSPENDED"
BY DEF SleepInv, Rising, WakingUp, Due, Pends, ReportInv, FlushedAsleep

LEMMA ReportRead ==
  ASSUME KeyboardTypeOK, KeyboardTypeOK', SleepInv, ReportInv, "poll" \in Prompt,
         WireFollows, UNCHANGED mainVars, HostReadsReport
  PROVE  ReportInv'
<1> USE DEF mainVars, handleVars, controlVars, coreVars, hostVars
<1>1. /\ HID_IEP \in EpNum /\ IN_ep \in INTable /\ KeyEp \in INEndpoint
      /\ DIEPINT \in [EpNum -> SUBSET {"XFRC", "EPDISD"}] /\ fifo \in [EpNum -> Seq(Buffers)]
      /\ wire \in Seq(Reports) /\ (KeyFifo = <<>> <=> wire = <<>>)
  BY KeyTypes
<1>2. Send(HID_IEP) /\ bus = "active" /\ ~Pends("WKUINT")
      /\ UNCHANGED <<dev_state, BaseState, calls, GINTSTS, bus, hid_state, DIEPEMPMSK, DOEPINT, rx>>
  BY DEF HostReadsReport, Send, HID_IEP, Pends, BaseState
<1>3. KeyEp.EPENA /\ (KeyEp.size = 0 \/ KeyFifo # <<>>)
  BY <1>2 DEF Send, CanSend, KeyEp, KeyFifo
<1>4. /\ KeyEp.size = 8 /\ KeyFifo # <<>> /\ WasCopied /\ ~Closing /\ BaseState = "CONFIGURED"
      /\ main = "send" /\ HID_IEP \notin DIEPEMPMSK
  <2>1. /\ KeyEp.size = 8 /\ ~Closing /\ BaseState = "CONFIGURED"
        /\ ToBeCopied \/ WasCopied
    BY <1>3 DEF ReportInv, ArmedOnce
  <2>2. KeyFifo # <<>>
    BY <1>3, <2>1
  <2>3. WasCopied
    BY <2>1, <2>2 DEF ToBeCopied
  <2> QED
    BY <2>1, <2>2, <2>3 DEF WasCopied
<1>5. KeyFifo' = <<>>
  <2>1. wire = <<submitted>>
    BY <1>1, <1>4 DEF WasCopied
  <2>2. Len(KeyFifo) = 1 /\ KeyFifo \in Seq(Buffers)
    BY <1>1, <2>1 DEF KeyboardTypeOK, KeyFifo
  <2>3. KeyFifo' = Tail(KeyFifo)
    BY <1>1, <1>2, <1>4 DEF Send, KeyEp, KeyFifo
  <2> QED
    BY <2>2, <2>3
<1>6. ~KeyEp'.EPENA /\ KeyEp'.EPDIS = KeyEp.EPDIS
  BY <1>1, <1>2 DEF Send, KeyEp, INTable, INEndpoint
<1>7. Completing' /\ (Waits("EPDISD")' => Waits("EPDISD"))
  BY <1>1, <1>2 DEF Send, Completing, Waits
<1>8. ~Closing'
  BY <1>4, <1>6, <1>7 DEF Closing
<1>9. dev_state = "CONFIGURED"
  BY <1>2, <1>4, PolledAwake DEF BaseState
<1>10. SentAlone' /\ ArmedOnce' /\ EndsOnce' /\ MainFollows' /\ BusyMeans' /\ ClassHears'
  BY <1>2, <1>4, <1>6, <1>7, <1>8, <1>9
     DEF SentAlone, ArmedOnce, EndsOnce, MainFollows, BusyMeans, ClassHears, Closing
<1>11. NothingLeft'
  BY <1>2, <1>4, <1>5 DEF ReportInv, NothingLeft
<1>12. FlushedAsleep'
  BY <1>2, <1>5 DEF ReportInv, FlushedAsleep, Pends
<1> QED
  BY <1>10, <1>11, <1>12 DEF ReportInv

LEMMA ReportStopped ==
  ASSUME KeyboardTypeOK, KeyboardTypeOK', ControlInv, ReportInv,
         WireFollows, UNCHANGED mainVars, EndpointDisabled
  PROVE  ReportInv'
<1> USE DEF mainVars, handleVars, controlVars, epVars, coreVars, hostVars
<1> PICK n \in EpNum : EndpointDisabled!(n)
  BY DEF EndpointDisabled
<1>1. /\ HID_IEP \in EpNum /\ IN_ep \in INTable
      /\ DIEPINT \in [EpNum -> SUBSET {"XFRC", "EPDISD"}]
  BY KeyTypes
<1>2. n = HID_IEP
  BY DEF ControlInv, Never, EpNum, HID_IEP
<1>3. /\ KeyEp.EPDIS /\ ~KeyEp'.EPDIS /\ KeyEp'.EPENA = KeyEp.EPENA /\ KeyFifo' = KeyFifo
      /\ UNCHANGED <<dev_state, BaseState, calls, GINTSTS, bus, hid_state, DIEPEMPMSK, DOEPINT, rx>>
  BY <1>1, <1>2 DEF KeyEp, KeyFifo, INTable, INEndpoint, BaseState
<1>4. Waits("EPDISD")' /\ (Completing' => Completing)
  BY <1>1, <1>2 DEF Completing, Waits
<1>5. Closing /\ Closing'
  BY <1>3, <1>4 DEF Closing
<1>6. ~KeyEp.EPENA /\ main = "send" /\ HID_IEP \notin DIEPEMPMSK /\ ~Completing
  BY <1>5, EndedTransfer DEF KeyboardTypeOK, ReportInv, EndsOnce
<1>7. SentAlone' /\ ArmedOnce' /\ MainFollows' /\ ClassHears' /\ EndsOnce'
  BY <1>3, <1>4, <1>5, <1>6 DEF SentAlone, ArmedOnce, MainFollows, ClassHears, EndsOnce
<1>8. NothingLeft' /\ BusyMeans' /\ FlushedAsleep'
  BY <1>3, <1>4, <1>5, <1>6 DEF ReportInv, NothingLeft, BusyMeans, FlushedAsleep, Pends, Due
<1> QED
  BY <1>7, <1>8 DEF ReportInv

LEMMA ReportCore ==
  ASSUME KeyboardTypeOK, KeyboardTypeOK', ControlInv, SleepInv, AddressInv, ReportInv,
         "poll" \in Prompt, Core, WireFollows, UNCHANGED mainVars
  PROVE  ReportInv'
BY ReportControl, ReportRead, ReportStopped DEF Core

\* When the driver has nothing left to do, the report is on its way and nothing
\* else is.
LEMMA DoneReport ==
  ASSUME KeyboardTypeOK, ControlInv, ReportInv, EndpointFollowsConfiguration, calls = {}, Raised = {}
  PROVE  /\ main = "send" => HID_IEP \notin DIEPEMPMSK
         /\ BaseState = "CONFIGURED" =>
              ~Completing /\ ~Closing /\ (KeyFifo # <<>> => KeyEp.EPENA)
<1>1. /\ HID_IEP \in EpNum /\ DIEPINT \in [EpNum -> SUBSET {"XFRC", "EPDISD"}]
  BY KeyTypes
<1>2. ASSUME BaseState = "CONFIGURED"
      PROVE  DIEPINT[HID_IEP] = {} /\ ~(HID_IEP \in DIEPEMPMSK /\ FifoEmpty(HID_IEP))
  <2>1. HID_IEP \in DAINTMSK
    BY <1>2 DEF EndpointFollowsConfiguration
  <2> QED
    BY <1>1, <2>1 DEF Raised, EndpointRaised
<1>3. BaseState = "CONFIGURED" => ~Completing /\ ~Closing
  BY <1>2 DEF Completing, Closing, Waits, ReportInv, EndsOnce
<1>4. ASSUME main = "send", HID_IEP \in DIEPEMPMSK PROVE FALSE
  <2>1. Undisturbing /\ KeyEp.EPENA
    BY <1>4 DEF ReportInv, SentAlone, NothingLeft
  <2>2. BaseState = "CONFIGURED" /\ KeyFifo = <<>>
    BY <1>4, <2>1 DEF ReportInv, ArmedOnce, ToBeCopied, WasCopied
  <2>3. FifoEmpty(HID_IEP)
    BY <2>2, BoundsAssumption DEF FifoEmpty, KeyFifo
  <2> QED
    BY <1>2, <1>4, <2>2, <2>3
<1> QED
  BY <1>3, <1>4 DEF ReportInv, NothingLeft

\* What happens on the bus waits for the driver, and for send_HID_report.
LEMMA ReportBus ==
  ASSUME KeyboardTypeOK, KeyboardTypeOK', ControlInv, AddressInv, ReportInv,
         EndpointFollowsConfiguration, Patient, Unhurried, Undisturbed, OnTheBus
  PROVE  ReportInv'
<1> USE DEF mainVars, driverVars, handleVars, controlVars, epVars
<1>1. /\ HID_IEP \in EpNum /\ HID_IEP # 0 /\ IN_ep \in INTable /\ TypeOK
  BY KeyTypes
<1>2. BusEvent /\ main = "send" /\ WireFollows /\ UNCHANGED mainVars
  BY DEF OnTheBus
<1>3. Quiet
  BY <1>2 DEF BusEvent, BusReset, Enumerated, BusSuspend, BusResume, HostSetup, May, Patient, Unhurried
<1>4. calls = {} /\ GINTSTS = {} /\ Raised = {} /\ ~KeyEp.EPDIS
  BY <1>1, <1>3, QuietControl DEF Quiet, KeyEp
<1>5. HID_IEP \notin DIEPEMPMSK /\ (BaseState = "CONFIGURED" => ~Completing)
  BY <1>2, <1>4, DoneReport
<1>6. /\ UNCHANGED <<dev_state, BaseState, calls, hid_state, DIEPEMPMSK, DIEPINT, fifo>>
      /\ \/ IN_ep' = IN_ep
         \/ IN_ep' = [IN_ep EXCEPT ![0] = [@ EXCEPT !.STALL = FALSE, !.EPENA = FALSE]]
  BY <1>2 DEF BusEvent, BusReset, Enumerated, BusSuspend, BusResume, HostSetup, BaseState
<1>7. KeyEp' = KeyEp /\ KeyFifo' = KeyFifo
  BY <1>1, <1>6 DEF KeyEp, KeyFifo, INTable
<1>8. wire' = wire
  BY <1>2, <1>7, WireSame
<1>9. SameReport
  BY <1>2, <1>6, <1>7, <1>8 DEF SameReport, Completing, Waits
<1>10. ClassHears'
  BY <1>5, <1>6 DEF ClassHears, Completing, Waits
<1>11. \/ bus' = "reset" /\ GINTSTS' = {"USBRST"}
       \/ bus = "reset" /\ bus' = "active" /\ GINTSTS' = {"ENUMDNE"}
       \/ bus' \in {"active", "suspended"} /\ bus # "reset" /\ "ENUMDNE" \notin GINTSTS'
  BY <1>2, <1>4 DEF BusEvent, BusReset, Enumerated, BusSuspend, BusResume, HostSetup
<1>12. Resetting => Resetting'
  BY <1>4, <1>11 DEF Resetting
<1>13. FlushedAsleep'
  BY <1>4, <1>6, <1>7, <1>11 DEF ReportInv, FlushedAsleep, Pends, Due
<1> QED
  BY <1>2, <1>4, <1>5, <1>9, <1>10, <1>12, <1>13, ReportKept

-----------------------------------------------------------------------------
(* The main loop. *)

\* The main loop leaves the events that concern the report alone.
LEMMA MainKeeps ==
  ASSUME ReportInv, MainLeaves, KeyEp'.EPDIS = KeyEp.EPDIS
  PROVE  /\ (Undisturbing => Undisturbing') /\ ClassHears' /\ FlushedAsleep'
         /\ (Completing' <=> Completing) /\ (Closing' <=> Closing) /\ KeyFifo' = KeyFifo
         /\ BaseState' = BaseState /\ (Resetting' <=> Resetting) /\ wire' = wire
         /\ calls' = calls /\ EndsOnce'
<1> USE DEF handleVars, controlVars, coreVars, hostVars
<1>1. UNCHANGED <<calls, DIEPINT, fifo, GINTSTS, DOEPINT, rx, stage, req, bus, wire,
                  dev_state, dev_old_state>>
  BY DEF MainLeaves
<1>2. /\ (Completing' <=> Completing) /\ (Closing' <=> Closing) /\ KeyFifo' = KeyFifo
      /\ BaseState' = BaseState /\ (Resetting' <=> Resetting) /\ (Ended => Ended')
  BY <1>1 DEF Completing, Closing, Waits, KeyFifo, BaseState, Resetting, Ended, Entry
<1>3. Undisturbing => Undisturbing'
  BY <1>1, <1>2 DEF Undisturbing
<1>4. ClassHears' /\ FlushedAsleep' /\ EndsOnce'
  BY <1>1, <1>2 DEF ReportInv, ClassHears, FlushedAsleep, EndsOnce, Pends, Due
<1> QED
  BY <1>1, <1>2, <1>3, <1>4

LEMMA ReportMain ==
  ASSUME KeyboardTypeOK, ControlInv, ReportInv, EndpointFollowsConfiguration, Main
  PROVE  ReportInv' /\ EndpointFollowsConfiguration'
<1> USE DEF handleVars, controlVars, epVars, coreVars, hostVars, vars
<1>1. /\ HID_IEP \in EpNum /\ IN_ep \in INTable /\ KeyEp \in INEndpoint /\ TypeOK
  BY KeyTypes
<1>2. /\ MainLeaves /\ calls = {} /\ Raised = {}
  BY MainSteps
<1>3. Ended /\ GINTSTS = {}
  BY <1>1, <1>2, DoneControl
<1>4. /\ main = "send" => HID_IEP \notin DIEPEMPMSK
      /\ BaseState = "CONFIGURED" =>
           ~Completing /\ ~Closing /\ (KeyFifo # <<>> => KeyEp.EPENA)
  BY <1>2, DoneReport
<1>5. main # "send" => Undisturbing /\ dev_state = "CONFIGURED" /\ BaseState = "CONFIGURED"
  BY DEF ReportInv, SentAlone, Undisturbing, BaseState
<1>6. main \in {"start", "read_control", "write_control"} => ~KeyEp.EPENA
  BY DEF ReportInv, ArmedOnce
<1>7. main \in {"read_mask", "write_mask"} => KeyEp.EPENA /\ ToBeCopied
  BY DEF ReportInv, NothingLeft, ArmedOnce, WasCopied
<1> DEFINE Kept1 ==
      /\ Undisturbing => Undisturbing'
      /\ ClassHears' /\ FlushedAsleep' /\ EndsOnce'
      /\ (Completing' <=> Completing) /\ (Closing' <=> Closing) /\ KeyFifo' = KeyFifo
      /\ BaseState' = BaseState /\ wire' = wire /\ calls' = calls
<1>8. ASSUME KeyEp'.EPDIS = KeyEp.EPDIS PROVE Kept1
  BY <1>2, <1>8, MainKeeps
<1>9. ASSUME KeyEp'.USBAEP = KeyEp.USBAEP, KeyEp'.is_used = KeyEp.is_used
      PROVE  EndpointFollowsConfiguration'
  BY <1>2, <1>9 DEF EndpointFollowsConfiguration, MainLeaves, BaseState, KeyEp
<1>10. CASE Compose
  <2>1. /\ main = "send" /\ UNCHANGED <<IN_ep, DIEPEMPMSK, hid_state, control, submitted>>
        /\ main' = IF dev_state = "CONFIGURED" /\ hid_state = "IDLE" THEN "start" ELSE "send"
    BY <1>10 DEF Compose, Thread
  <2>2. KeyEp' = KeyEp
    BY <2>1 DEF KeyEp
  <2>3. Kept1
    BY <1>8, <2>2
  <2>4. (ToBeCopied => FALSE) /\ (KeyEp.EPENA => hid_state = "BUSY")
    BY <1>4, <2>1 DEF ToBeCopied, ReportInv, ArmedOnce
  <2>5. WasCopied /\ main' = "send" => WasCopied'
    BY <1>2, <2>1, <2>2, <2>3 DEF WasCopied, Resetting, MainLeaves
  <2>6. main' = "start" => Undisturbing
    BY <1>2, <1>3, <2>1 DEF Undisturbing
  <2>7. main' = "start" => /\ ~KeyEp.EPENA /\ hid_state = "IDLE" /\ ~Completing /\ ~Closing
                           /\ KeyFifo = <<>> /\ BaseState = "CONFIGURED"
    BY <1>4, <2>1, <2>4 DEF BaseState
  <2> HIDE DEF Kept1
  <2>8. SentAlone'
    BY <1>4, <2>1, <2>3, <2>6 DEF SentAlone, Kept1
  <2>9. ArmedOnce'
    BY <2>1, <2>2, <2>3, <2>4, <2>5, <2>7 DEF ArmedOnce, ReportInv, Kept1
  <2>10. NothingLeft' /\ MainFollows' /\ BusyMeans'
    BY <2>1, <2>2, <2>3, <2>7 DEF NothingLeft, MainFollows, BusyMeans, ReportInv, Kept1
  <2>11. ClassHears' /\ FlushedAsleep' /\ EndsOnce'
    BY <2>3 DEF Kept1
  <2> QED
    BY <1>9, <2>2, <2>8, <2>9, <2>10, <2>11 DEF ReportInv
<1>11. CASE Start
  <2>1. /\ main = "start" /\ main' = "read_control" /\ hid_state' = "BUSY" /\ submitted' = HID_buffer
        /\ UNCHANGED <<DIEPEMPMSK, HID_buffer>>
    BY <1>11 DEF Start, Thread
  <2>2. /\ KeyEp'.size = 8 /\ KeyEp'.count = 0 /\ KeyEp'.EPENA = KeyEp.EPENA
        /\ KeyEp'.EPDIS = KeyEp.EPDIS /\ KeyEp'.USBAEP = KeyEp.USBAEP
        /\ KeyEp'.is_used = KeyEp.is_used
    BY <1>1, <1>11 DEF Start, KeyEp, INTable, INEndpoint
  <2>3. Kept1
    BY <1>8, <2>2
  <2> HIDE DEF Kept1
  <2>4. ~KeyEp'.EPENA /\ ~Completing' /\ ~Closing' /\ KeyFifo' = <<>>
    BY <1>6, <2>1, <2>2, <2>3 DEF ReportInv, MainFollows, Kept1
  <2>5. SentAlone' /\ ArmedOnce' /\ MainFollows' /\ BusyMeans'
    BY <1>5, <2>1, <2>2, <2>3, <2>4 DEF SentAlone, ArmedOnce, MainFollows, BusyMeans, Kept1
  <2>6. NothingLeft'
    BY <2>1, <2>2, <2>3, <2>4 DEF ReportInv, NothingLeft, Kept1
  <2>7. ClassHears' /\ FlushedAsleep' /\ EndsOnce'
    BY <2>3 DEF Kept1
  <2> QED
    BY <1>9, <2>2, <2>5, <2>6, <2>7 DEF ReportInv
<1>12. CASE ReadControl
  <2>1. /\ main = "read_control" /\ main' = "write_control"
        /\ UNCHANGED <<IN_ep, DIEPEMPMSK, hid_state, HID_buffer, submitted>>
        /\ control'.USBAEP = KeyEp.USBAEP /\ control'.EPDIS = KeyEp.EPDIS /\ control'.STALL = KeyEp.STALL
    BY <1>12 DEF ReadControl, Thread, KeyEp
  <2>2. KeyEp' = KeyEp
    BY <2>1 DEF KeyEp
  <2>3. Kept1
    BY <1>8, <2>2
  <2> HIDE DEF Kept1
  <2>4. SentAlone' /\ ArmedOnce'
    BY <1>5, <1>6, <2>1, <2>2, <2>3 DEF SentAlone, ArmedOnce, Kept1
  <2>5. NothingLeft' /\ MainFollows' /\ BusyMeans'
    BY <2>1, <2>2, <2>3 DEF ReportInv, NothingLeft, MainFollows, BusyMeans, Kept1
  <2>6. ClassHears' /\ FlushedAsleep' /\ EndsOnce'
    BY <2>3 DEF Kept1
  <2> QED
    BY <1>9, <2>2, <2>4, <2>5, <2>6 DEF ReportInv
<1>13. CASE WriteControl
  <2>1. /\ main = "write_control" /\ main' = "read_mask"
        /\ UNCHANGED <<DIEPEMPMSK, hid_state, HID_buffer, submitted>>
    BY <1>13 DEF WriteControl, Thread
  <2>2. /\ control.USBAEP = KeyEp.USBAEP /\ control.EPDIS = KeyEp.EPDIS
        /\ hid_state = "BUSY" /\ KeyEp.size = 8 /\ KeyEp.count = 0 /\ submitted = HID_buffer
        /\ ~Completing /\ ~Closing /\ KeyFifo = <<>> /\ ~KeyEp.EPENA
    BY <1>6, <2>1 DEF ReportInv, MainFollows
  <2>3. /\ KeyEp'.EPENA /\ KeyEp'.size = KeyEp.size /\ KeyEp'.count = KeyEp.count
        /\ KeyEp'.EPDIS = KeyEp.EPDIS /\ KeyEp'.USBAEP = KeyEp.USBAEP
        /\ KeyEp'.is_used = KeyEp.is_used
    BY <1>1, <1>13, <2>2 DEF WriteControl, KeyEp, INTable, INEndpoint
  <2>4. Kept1
    BY <1>8, <2>3
  <2> HIDE DEF Kept1
  <2>5. HID_IEP \notin DIEPEMPMSK
    BY <2>2 DEF ReportInv, NothingLeft
  <2>6. ToBeCopied'
    BY <2>1, <2>2, <2>3, <2>4, <2>5 DEF ToBeCopied, Kept1
  <2>7. ArmedOnce'
    BY <1>5, <2>1, <2>2, <2>3, <2>4, <2>6 DEF ArmedOnce, Kept1
  <2>8. SentAlone' /\ MainFollows' /\ BusyMeans'
    BY <1>5, <2>1, <2>3, <2>4 DEF SentAlone, MainFollows, BusyMeans, Kept1
  <2>9. NothingLeft'
    BY <2>1, <2>3, <2>4, <2>5 DEF ReportInv, NothingLeft, Kept1
  <2>10. ClassHears' /\ FlushedAsleep' /\ EndsOnce'
    BY <2>4 DEF Kept1
  <2> QED
    BY <1>9, <2>3, <2>7, <2>8, <2>9, <2>10 DEF ReportInv
<1>14. CASE ReadMask \/ WriteMask
  <2>1. /\ main \in {"read_mask", "write_mask"} /\ main' \in {"write_mask", "send"}
        /\ UNCHANGED <<IN_ep, hid_state, HID_buffer, submitted>>
        /\ main' = "write_mask" => DIEPEMPMSK' = DIEPEMPMSK
        /\ main' = "send" => HID_IEP \in DIEPEMPMSK'
    BY <1>14 DEF ReadMask, WriteMask, Thread
  <2>2. KeyEp' = KeyEp
    BY <2>1 DEF KeyEp
  <2>3. Kept1
    BY <1>8, <2>2
  <2> HIDE DEF Kept1
  <2>4. /\ Undisturbing' /\ KeyEp'.EPENA /\ BaseState' = "CONFIGURED"
        /\ (HID_IEP \in DIEPEMPMSK' <=> main' = "send")
    BY <1>5, <1>7, <2>1, <2>2, <2>3 DEF ToBeCopied, Kept1
  <2>5. ToBeCopied'
    BY <1>7, <2>1, <2>2, <2>3, <2>4 DEF ToBeCopied, Kept1
  <2>6. ArmedOnce'
    BY <1>7, <2>1, <2>2, <2>3, <2>4, <2>5 DEF ReportInv, ArmedOnce, Kept1
  <2>7. SentAlone' /\ MainFollows' /\ BusyMeans'
    BY <2>1, <2>4 DEF SentAlone, MainFollows, BusyMeans
  <2>8. NothingLeft'
    BY <1>2, <2>4, <2>3 DEF NothingLeft, Kept1
  <2>9. ClassHears' /\ FlushedAsleep' /\ EndsOnce'
    BY <2>3 DEF Kept1
  <2> QED
    BY <1>9, <2>2, <2>6, <2>7, <2>8, <2>9 DEF ReportInv
<1> QED
  BY <1>10, <1>11, <1>12, <1>13, <1>14 DEF Main

LEMMA ReportStutter ==
  ASSUME ReportInv, UNCHANGED keyboardVars
  PROVE  ReportInv'
<1> USE DEF keyboardVars, mainVars, vars, handleVars, controlVars, epVars, coreVars, hostVars
<1>1. /\ KeyEp' = KeyEp /\ KeyFifo' = KeyFifo /\ (Completing' <=> Completing)
      /\ (Waits("EPDISD")' <=> Waits("EPDISD")) /\ BaseState' = BaseState
  BY DEF KeyEp, KeyFifo, Completing, Waits, BaseState
<1>2. SameReport
  BY <1>1 DEF SameReport
<1>3. Ended => Ended'
  BY DEF Ended, Entry
<1>4. (Undisturbing => Undisturbing') /\ (Resetting => Resetting')
  BY <1>3 DEF Undisturbing, Resetting
<1>5. ClassHears' /\ FlushedAsleep'
  BY <1>1 DEF ReportInv, ClassHears, FlushedAsleep, Pends, Due
<1> QED
  BY <1>2, <1>3, <1>4, <1>5, ReportKept

\* What the driver, the class and the host agree on with the main loop beside them.
DeviceInv == SleepInv /\ EndpointFollowsConfiguration /\ AddressInv

LEMMA ReportStep ==
  ASSUME Prompt = Events, Undisturbed, RegularRequests,
         KeyboardTypeOK, KeyboardTypeOK', PacketWaits, ControlInv, DeviceInv, ReportInv,
         [KeyboardNext]_keyboardVars
  PROVE  DeviceInv' /\ ReportInv'
<1>1. Patient /\ Unhurried /\ "poll" \in Prompt
  BY DEF Patient, Unhurried, Events
<1>2. TypeOK /\ SleepInv /\ EndpointFollowsConfiguration /\ AddressInv
  BY DEF KeyboardTypeOK, DeviceInv
<1>3. CASE OnTheBus \/ InTheDriver
  <2>1. (BusEvent \/ Core \/ Driver) /\ [Next]_vars
    BY <1>3 DEF OnTheBus, InTheDriver, Next
  <2>2. EndpointFollowsConfiguration' /\ AddressInv'
    BY <1>1, <1>2, <2>1, ConfigurationStep, AddressStep
  <2>3. SleepInv'
    BY <1>1, <1>2, <2>1, SleepBusEvent, SleepCore, SleepDriver
  <2>4. ReportInv'
    BY <1>1, <1>2, <1>3, <2>2, ReportBus, ReportCore, ReportDriver DEF InTheDriver
  <2> QED
    BY <2>2, <2>3, <2>4 DEF DeviceInv
<1>4. CASE Main
  <2>1. MainLeaves
    BY <1>4, MainSteps
  <2> QED
    BY <1>2, <1>4, <2>1, MainElsewhere, ReportMain DEF DeviceInv
<1>5. CASE UNCHANGED keyboardVars
  <2>1. UNCHANGED vars
    BY <1>5 DEF keyboardVars
  <2>2. EndpointFollowsConfiguration'
    BY <1>2, <2>1, ConfigurationStep
  <2> QED
    BY <1>2, <1>5, <2>1, <2>2, MainElsewhere, ReportStutter DEF DeviceInv
<1> QED
  BY <1>3, <1>4, <1>5 DEF KeyboardNext

LEMMA ReportHolds ==
  ASSUME Prompt = Events, Undisturbed, RegularRequests
  PROVE  KeyboardSpec => []DeviceInv /\ []ReportInv
<1> DEFINE Inv == DeviceInv /\ ReportInv
<1>1. KeyboardInit => Inv
  <2>1. Init => EndpointFollowsConfiguration
    BY DEF Init, EndpointFollowsConfiguration, BaseState, InitialIN, HID_IEP, EpNum
  <2> QED
    BY <2>1, SleepInit, AddressInit, ReportInit DEF KeyboardInit, DeviceInv
<1>2. /\ KeyboardTypeOK /\ KeyboardTypeOK' /\ PacketWaits /\ ControlInv /\ Inv
      /\ [KeyboardNext]_keyboardVars
      => Inv'
  BY ReportStep
<1>3. Patient
  BY DEF Patient, Events
<1>4. KeyboardSpec => []KeyboardTypeOK /\ []PacketWaits /\ []ControlInv
  BY <1>3, KeyboardTypeCorrect, KeyboardControl, PTL
<1> QED
  BY <1>1, <1>2, <1>4, PTL DEF KeyboardSpec

-----------------------------------------------------------------------------
(* The properties of the reports. *)

\* The report the host is about to read is the one submitted last, and the only
\* one in the FIFO: none is left over from before a reset or another configuration.
THEOREM ReportsAreFresh ==
  ASSUME Prompt = Events, Undisturbed, RegularRequests
  PROVE  KeyboardSpec => []FreshReport
<1>1. KeyboardTypeOK /\ ReportInv => FreshReport
  <2> SUFFICES ASSUME KeyboardTypeOK, ReportInv, CanSend(HID_IEP) PROVE wire = <<submitted>>
    BY DEF FreshReport
  <2>1. KeyEp.EPENA /\ (KeyEp.size = 0 \/ KeyFifo # <<>>)
    BY DEF CanSend, KeyEp, KeyFifo
  <2>2. KeyEp.size = 8 /\ (ToBeCopied \/ WasCopied)
    BY <2>1 DEF ReportInv, ArmedOnce
  <2>3. KeyFifo # <<>>
    BY <2>1, <2>2
  <2> QED
    BY <2>2, <2>3, KeyTypes DEF ToBeCopied, WasCopied
<1> QED
  BY <1>1, KeyboardTypeCorrect, ReportHolds, PTL

\* Between two calls of send_HID_report the class state tells whether a report is
\* on its way: an idle class has nothing armed, a busy one has, or is halted.
THEOREM StateTellsCorrectly ==
  ASSUME Prompt = Events, Undisturbed, RegularRequests
  PROVE  KeyboardSpec => []StateTellsTransfer
<1>1. KeyboardTypeOK /\ ControlInv /\ DeviceInv /\ ReportInv => StateTellsTransfer
  <2> SUFFICES ASSUME KeyboardTypeOK, ControlInv, DeviceInv, ReportInv, main = "send", Quiet,
                      ~Resetting, dev_state = "CONFIGURED"
               PROVE  IF hid_state = "IDLE"
                        THEN ~KeyEp.EPENA /\ KeyFifo = <<>>
                        ELSE CanSend(HID_IEP) \/ IN_ep[HID_IEP].STALL
    BY DEF StateTellsTransfer, KeyEp, KeyFifo
  <2>1. BaseState = "CONFIGURED" /\ calls = {} /\ Raised = {}
    BY DEF BaseState, Quiet
  <2>2. /\ HID_IEP \notin DIEPEMPMSK /\ ~Completing
        /\ KeyFifo # <<>> => KeyEp.EPENA
    BY <2>1, DoneReport DEF DeviceInv
  <2>3. ASSUME KeyEp.EPENA PROVE hid_state = "BUSY" /\ KeyFifo # <<>>
    <3>1. hid_state = "BUSY" /\ WasCopied
      BY <2>2, <2>3 DEF ReportInv, ArmedOnce, ToBeCopied
    <3>2. wire = <<submitted>>
      BY <3>1 DEF WasCopied
    <3> QED
      BY <3>1, <3>2, KeyTypes
  <2>4. CASE hid_state = "IDLE"
    BY <2>2, <2>3, <2>4
  <2>5. CASE hid_state = "BUSY"
    <3>1. KeyEp.EPENA
      BY <2>1, <2>2, <2>5 DEF ReportInv, BusyMeans
    <3>2. IN_ep[HID_IEP].USBAEP
      BY <2>1 DEF DeviceInv, EndpointFollowsConfiguration
    <3> QED
      BY <2>3, <2>5, <3>1, <3>2 DEF CanSend, KeyEp, KeyFifo
  <2>6. hid_state \in {"IDLE", "BUSY"}
    BY DEF KeyboardTypeOK, TypeOK, HandleOK
  <2> QED
    BY <2>4, <2>5, <2>6
<1>2. Patient
  BY DEF Patient, Events
<1> QED
  BY <1>1, <1>2, KeyboardTypeCorrect, KeyboardControl, ReportHolds, PTL

\* What was proved of control transfers with a report submitted in one step holds
\* when send_HID_report is taken apart: the host is never refused a descriptor, gets
\* what it asked for, and is not left waiting.
THEOREM ControlBesideMain ==
  ASSUME Patient, RegularRequests
  PROVE  KeyboardSpec => [](DescriptorsServed /\ FreshAnswer /\ NoHang /\ StagesAgree)
<1>1. TypeOK /\ ControlInv /\ Replied => DescriptorsServed /\ FreshAnswer /\ NoHang /\ StagesAgree
  BY FreshReply, ReplyWaits, ReplyAgrees DEF ControlInv
<1>2. KeyboardTypeOK => TypeOK
  BY DEF KeyboardTypeOK
<1> QED
  BY <1>1, <1>2, KeyboardTypeCorrect, KeyboardControl, PTL

=============================================================================
