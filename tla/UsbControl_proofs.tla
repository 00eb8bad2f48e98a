-------------------------- MODULE UsbControl_proofs --------------------------
(***************************************************************************)
(* The control transfers of EP0: whatever the host asks, the driver        *)
(* replies with what was asked for, with a status or with a stall, and the *)
(* host and the driver agree on the stage they are in.  After them, the    *)
(* address the device listens to and the halt of the HID endpoint.         *)
(*                                                                         *)
(* Two things are asked of the host.  It is patient: it starts, gives up   *)
(* on and resets nothing while the driver is busy; a reset or an abort at  *)
(* another moment leaves a packet or an answer behind that the next        *)
(* transfer takes for its own.  And its requests are those of the          *)
(* standards, as to whether a data stage follows and in which direction;   *)
(* the code looks at neither.                                              *)
(*                                                                         *)
(* What makes this hard is that the two directions of EP0 are armed in one *)
(* stage and complete in another, in between the FIFO is filled by an      *)
(* interrupt of its own, and nothing of this is reset at the end of a      *)
(* transfer.  ControlInv follows a transfer through all of it: its setup   *)
(* packet in the receive FIFO (Arrival), the FIFO of the answer (Loaded,   *)
(* Pending), what EP0 is armed with in each stage (Armed, StatusStage) and *)
(* the completion that the driver has yet to hear of (Completion).         *)
(* Replied says what EP0 holds once the request has been acted upon, and   *)
(* the properties of the runs follow from it.                              *)
(***************************************************************************)
EXTENDS UsbDevice_proofs

\* The host starts, gives up on and resets nothing while the driver is busy.
Patient == {"reset", "enumeration", "setup", "abort"} \subseteq Prompt

Entry(s) == [status |-> s, packet |-> req]

\* A setup stage is on its way to OEP_setup_done, or none is.
Arriving ==
  \/ rx = <<Entry("SETUP"), Entry("SETUP_DONE")>> /\ NoRequest
  \/ rx = <<Entry("SETUP_DONE")>> /\ NoRequest /\ setup = req
  \/ rx = <<>> /\ DOEPINT = {"STUP"} /\ <<"OUT_XFRC", 0>> \notin calls /\ setup = req
Ended ==
  /\ rx = <<>> \/ (rx = <<Entry("OUT_DONE")>> /\ stage = "idle")
  /\ "STUP" \notin DOEPINT /\ <<"STUP", 0>> \notin calls

\* EP0 is open, and its interrupts are enabled, unless that is about to happen.
Opened0 == IN_ep[0].USBAEP /\ IN_ep[0].mps = EP0_MPS
Unmasked ==
  bus # "off" => ({0, 16} \subseteq DAINTMSK) \/ (bus = "reset" /\ Due("USBRST"))
Opening == bus \in {"active", "suspended"} => Opened0 \/ Due("ENUMDNE")

\* A control transfer is in progress only on an active bus that has been enumerated.
Busy ==
  stage # "idle" =>
    /\ bus = "active" /\ Opened0
    /\ "USBRST" \notin GINTSTS /\ "ENUMDNE" \notin GINTSTS
    /\ <<"USBRST", 0>> \notin calls /\ <<"ENUMDNE", 0>> \notin calls

\* EP0 is never closed, and no request has a data stage from the host.
Never ==
  /\ DIEPINT[0] \subseteq {"XFRC"} /\ ~IN_ep[0].EPDIS
  /\ <<"XFRC", 0>> \in calls => DIEPINT[0] # {} /\ <<"USBRST", 0>> \notin calls
  /\ <<"EPDISD", 0>> \notin calls
  /\ ep0_state # "DATA_OUT"

Clear ==
  ~IN_ep[0].EPENA /\ ~IN_ep[0].STALL /\ ~OUT_ep[0].EPENA /\ ~OUT_ep[0].STALL

Arrival ==
  \/ Ended
  \/ Arriving /\ stage # "idle" /\ stage = FirstStage(req) /\ Clear

Copied == IN_ep[0].count = IN_ep[0].size

\* A completion on EP0 ends a data stage or the whole transfer.
Completion ==
  DIEPINT[0] # {} =>
    /\ Ended
    /\ \/ stage = "idle" /\ ep0_state # "DATA_IN"
       \/ stage = "status_out" /\ ep0_state = "DATA_IN"
StatusStage ==
  stage = "status_out" =>
    /\ Ended /\ ~OUT_ep[0].STALL
    /\ IF ep0_state = "DATA_IN" THEN DIEPINT[0] # {} /\ ~OUT_ep[0].EPENA /\ Copied
                                ELSE ep0_state = "STATUS_OUT" /\ OUT_ep[0].EPENA

\* What EP0 is armed with is what the stage calls for.
Armed ==
  /\ stage = "data_in" /\ IN_ep[0].EPENA =>
       /\ ep0_state = "DATA_IN" /\ IN_ep[0].size # 0
       /\ ~OUT_ep[0].EPENA /\ ~OUT_ep[0].STALL
  /\ stage = "status_in" /\ IN_ep[0].EPENA => ep0_state # "DATA_IN"

\* The transmit FIFO of EP0 holds the data of the current transfer and no other.
Sending ==
  stage = "data_in" /\ Ended /\ ep0_state = "DATA_IN" /\ IN_ep[0].EPENA /\ ~IN_ep[0].STALL
Loaded ==
  fifo[0] # <<>> =>
    /\ Copied /\ 0 \notin DIEPEMPMSK /\ fifo[0] = <<IN_ep[0].buffer>>
    /\ Sending \/ (bus = "reset" /\ Due("USBRST"))
Pending ==
  0 \in DIEPEMPMSK \/ <<"TXFE", 0>> \in calls =>
    /\ bus # "off"
    /\ Copied \/ (Sending /\ fifo[0] = <<>>)

ControlInv ==
  /\ Unmasked /\ Opening /\ Busy /\ Never /\ Arrival /\ Completion /\ StatusStage
  /\ Armed /\ Loaded /\ Pending /\ DescriptorsServed

-----------------------------------------------------------------------------
(* What the driver functions do to the two halves of EP0. *)

LEMMA Table0 ==
  ASSUME NEW in \in INTable, NEW out \in OUTTable
  PROVE  /\ 0 \in EpNum /\ in[0] \in INEndpoint /\ out[0] \in OUTEndpoint
         /\ in[0].size \in Nat /\ in[0].count \in Nat
BY DEF EpNum, INTable, OUTTable, INEndpoint, Sizes

\* Open as before, and not being disabled.
Same0(e, f) == e.USBAEP = f.USBAEP /\ e.mps = f.mps /\ e.EPDIS = f.EPDIS
\* The same transfer, armed or not.
SameTransfer(e, f) ==
  e.EPENA = f.EPENA /\ e.size = f.size /\ e.count = f.count /\ e.buffer = f.buffer

\* A transfer of these bytes has been started.
Transferred(e, f, buffer, size) ==
  /\ Same0(e, f) /\ e.STALL = f.STALL
  /\ e.EPENA = TRUE /\ e.count = 0 /\ e.buffer = buffer /\ e.size = size

LEMMA Transfer0 ==
  ASSUME NEW in \in INTable, NEW buffer \in Buffers, NEW size \in Sizes
  PROVE  Transferred(IN_transfer(in, 0, buffer, size)[0], in[0], buffer, TransferSize(in, 0, size))
<1>1. 0 \in EpNum /\ in[0] \in INEndpoint
  BY DEF EpNum, INTable
<1> DEFINE x == [in[0] EXCEPT !.buffer = buffer, !.size = TransferSize(in, 0, size),
                              !.count = 0, !.EPENA = TRUE]
<1>2. IN_transfer(in, 0, buffer, size)[0] = x
  BY <1>1 DEF IN_transfer, INTable
<1>3. Transferred(x, in[0], buffer, TransferSize(in, 0, size))
  BY <1>1 DEF INEndpoint, Same0, Transferred
<1> HIDE DEF x
<1> QED
  BY <1>2, <1>3

\* Nothing but STALL may have changed.
Flagged(e, f, stall) == Same0(e, f) /\ SameTransfer(e, f) /\ e.STALL = stall
OutFlagged(o, p, stall) == o.EPENA = p.EPENA /\ o.STALL = stall

LEMMA Stall0 ==
  ASSUME NEW in \in INTable
  PROVE  Flagged(stall_IEP(in, 0)[0], in[0], TRUE)
<1>1. 0 \in EpNum /\ in[0] \in INEndpoint
  BY DEF EpNum, INTable
<1> DEFINE x == [in[0] EXCEPT !.is_stall = TRUE, !.STALL = TRUE,
                              !.EPDIS = (0 = 0 \/ in[0].EPENA) /\ in[0].EPDIS]
<1>2. stall_IEP(in, 0)[0] = x
  BY <1>1 DEF stall_IEP, INTable
<1>3. Flagged(x, in[0], TRUE)
  BY <1>1 DEF INEndpoint, Same0, SameTransfer, Flagged
<1> HIDE DEF x
<1> QED
  BY <1>2, <1>3

LEMMA Unstall0 ==
  ASSUME NEW in \in INTable
  PROVE  Flagged(unstall_IEP(in, 0)[0], in[0], FALSE)
<1>1. 0 \in EpNum /\ in[0] \in INEndpoint
  BY DEF EpNum, INTable
<1> DEFINE x == [in[0] EXCEPT !.is_stall = FALSE, !.STALL = FALSE]
<1>2. unstall_IEP(in, 0)[0] = x
  BY <1>1 DEF unstall_IEP, INTable
<1>3. Flagged(x, in[0], FALSE)
  BY <1>1 DEF INEndpoint, Same0, SameTransfer, Flagged
<1> HIDE DEF x
<1> QED
  BY <1>2, <1>3

LEMMA Out0 ==
  ASSUME NEW out \in OUTTable
  PROVE  /\ OutFlagged(stall_OEP(out, 0)[0], out[0], TRUE)
         /\ OutFlagged(unstall_OEP(out, 0)[0], out[0], FALSE)
         /\ OutFlagged(open_OEP(out, 0)[0], out[0], out[0].STALL)
         /\ OUT_transfer(out, 0)[0].EPENA = TRUE /\ OUT_transfer(out, 0)[0].STALL = out[0].STALL
<1>1. 0 \in EpNum /\ out[0] \in OUTEndpoint
  BY DEF EpNum, OUTTable
<1> QED
  BY <1>1 DEF OUTTable, OUTEndpoint, stall_OEP, unstall_OEP, OUT_transfer, open_OEP, OutFlagged

\* Opening and closing the HID endpoint leaves EP0 alone.
LEMMA HID0 ==
  ASSUME NEW in \in INTable
  PROVE  HID_init(in)[0] = in[0] /\ HID_deinit(in)[0] = in[0]
BY DEF HID_init, HID_deinit, open_IEP, close_IEP, HID_IEP, INTable, EpNum

\* What a reply does.
LEMMA Reply0 ==
  ASSUME NEW in \in INTable, NEW out \in OUTTable, NEW r \in Reply
  PROVE  /\ r.kind \in {"data", "status"} =>
              Transferred(ReplyIN(in, r)[0], in[0], r.buffer, TransferSize(in, 0, r.size))
         /\ r.kind \in {"stall", "stall_in"} => Flagged(ReplyIN(in, r)[0], in[0], TRUE)
         /\ r.kind \in {"none", "stall_out"} => ReplyIN(in, r) = in
         /\ r.kind \in {"stall", "stall_out"} => OutFlagged(ReplyOUT(out, r)[0], out[0], TRUE)
         /\ r.kind \notin {"stall", "stall_out"} => ReplyOUT(out, r) = out
<1>1. r.buffer \in Buffers /\ r.size \in Sizes
  BY DEF Reply
<1>2. ASSUME r.kind \in {"data", "status"}
      PROVE  Transferred(ReplyIN(in, r)[0], in[0], r.buffer, TransferSize(in, 0, r.size))
  <2>1. Transferred(IN_transfer(in, 0, r.buffer, r.size)[0], in[0], r.buffer, TransferSize(in, 0, r.size))
    BY <1>1, Transfer0
  <2> QED
    BY <1>2, <2>1 DEF ReplyIN
<1>3. ASSUME r.kind \in {"stall", "stall_in"} PROVE Flagged(ReplyIN(in, r)[0], in[0], TRUE)
  BY <1>3, Stall0 DEF ReplyIN
<1>4. r.kind \in {"none", "stall_out"} => ReplyIN(in, r) = in
  BY DEF ReplyIN
<1>5. ASSUME r.kind \in {"stall", "stall_out"} PROVE OutFlagged(ReplyOUT(out, r)[0], out[0], TRUE)
  <2>1. OutFlagged(stall_OEP(out, 0)[0], out[0], TRUE)
    BY Out0
  <2> QED
    BY <1>5, <2>1 DEF ReplyOUT
<1>6. r.kind \notin {"stall", "stall_out"} => ReplyOUT(out, r) = out
  BY DEF ReplyOUT
<1> QED
  BY <1>2, <1>3, <1>4, <1>5, <1>6

-----------------------------------------------------------------------------
(* What a request leaves on EP0. *)

\* A descriptor the device has.
Wanted(h) ==
  /\ h.command = "GET_DESCRIPTOR" /\ h.recipiant = "DEVICE"
  /\ DeviceDescriptor(h.value) # "NULL" /\ FirstStage(h) = "data_in"

\* A reply that fits the request: data for a data stage, a status when there is none.
Fit(h, r) ==
  /\ r.kind = "data" =>
       /\ h.length # 0 /\ h.direction = "IN"
       /\ r.size # 0 /\ r.size <= h.length /\ r.buffer \in Asked(h)
  /\ r.kind # "data" => r.size = 0 /\ ~Wanted(h)
  /\ r.kind = "status" => h.length = 0
  /\ r.kind = "stall_in" => FirstStage(h) \in {"data_in", "status_in"}
  /\ r.kind = "stall_out" => FirstStage(h) = "data_out" \/ Unanswered(h)
  /\ r.kind = "none" => Unanswered(h)

\* EP0 before the reply: at most halted by a request without a data stage.
Near(e, o, h) ==
  /\ Flagged(e, IN_ep[0], e.STALL) /\ OutFlagged(o, OUT_ep[0], o.STALL)
  /\ h.length # 0 => ~e.STALL /\ ~o.STALL

DataSent(h) ==
  /\ h.length # 0 /\ h.direction = "IN"
  /\ ep0_state' = "DATA_IN" /\ 0 \in DIEPEMPMSK'
  /\ IN_ep'[0].EPENA /\ ~IN_ep'[0].STALL /\ ~OUT_ep'[0].STALL
  /\ IN_ep'[0].size \in 1..EP0_MPS /\ IN_ep'[0].size <= h.length
  /\ IN_ep'[0].count = 0 /\ IN_ep'[0].buffer \in Asked(h)
StatusSent(h) ==
  /\ h.length = 0
  /\ ep0_state' = "STATUS_IN"
  /\ IN_ep'[0].EPENA /\ IN_ep'[0].size = 0 /\ IN_ep'[0].count = 0
NothingSent(h) ==
  /\ ~Wanted(h)
  /\ ep0_state' = "SETUP" /\ (0 \in DIEPEMPMSK' => 0 \in DIEPEMPMSK)
  /\ SameTransfer(IN_ep'[0], IN_ep[0])
  /\ \/ FirstStage(h) \in {"data_in", "status_in"} /\ IN_ep'[0].STALL
     \/ FirstStage(h) = "data_out" /\ OUT_ep'[0].STALL
     \/ Unanswered(h)
Outcome(h) ==
  /\ Same0(IN_ep'[0], IN_ep[0]) /\ OUT_ep'[0].EPENA = OUT_ep[0].EPENA
  /\ DataSent(h) \/ StatusSent(h) \/ NothingSent(h)

LEMMA Stages0 ==
  ASSUME NEW h \in Header
  PROVE  /\ FirstStage(h) \in {"data_in", "data_out", "status_in"}
         /\ FirstStage(h) = "status_in" <=> h.length = 0
         /\ FirstStage(h) = "data_in" <=> h.length # 0 /\ h.direction = "IN"
BY DEF FirstStage

LEMMA AnswerOutcome ==
  ASSUME Clear, Opened0, NEW h \in Header, NEW r \in Reply, Fit(h, r),
         NEW in \in INTable, NEW out \in OUTTable, Near(in[0], out[0], h), Answer(r, in, out)
  PROVE  Outcome(h)
<1>1. /\ IN_ep' = ReplyIN(in, r) /\ OUT_ep' = ReplyOUT(out, r)
      /\ ep0_state' = ReplyState(r) /\ DIEPEMPMSK' = IN_transfer_mask(DIEPEMPMSK, 0, r.size)
  BY DEF Answer, ReplyMask
<1>2. /\ r.kind \in {"data", "status", "stall", "stall_in", "stall_out", "none"}
      /\ r.size \in Nat
  BY DEF Reply, Sizes
<1>3. /\ Same0(in[0], IN_ep[0]) /\ SameTransfer(in[0], IN_ep[0]) /\ out[0].EPENA = OUT_ep[0].EPENA
      /\ in[0].mps = EP0_MPS
  BY DEF Near, Flagged, OutFlagged, Same0, Opened0
<1>4. TransferSize(in, 0, r.size) = IF r.size > EP0_MPS THEN EP0_MPS ELSE r.size
  BY <1>3 DEF TransferSize
<1>5. h.length \in Nat
  BY HeaderNumbers
<1>6. CASE r.kind = "data"
  <2>1. Transferred(IN_ep'[0], in[0], r.buffer, TransferSize(in, 0, r.size)) /\ OUT_ep' = out
    BY <1>1, <1>6, Reply0
  <2>2. TransferSize(in, 0, r.size) \in 1..EP0_MPS /\ TransferSize(in, 0, r.size) <= h.length
    BY <1>2, <1>4, <1>5, <1>6 DEF Fit, EP0_MPS
  <2>3. /\ h.length # 0 /\ h.direction = "IN" /\ r.buffer \in Asked(h) /\ r.size > 0
        /\ ~in[0].STALL /\ ~out[0].STALL
    BY <1>2, <1>6 DEF Fit, Near
  <2>4. ep0_state' = "DATA_IN" /\ 0 \in DIEPEMPMSK'
    BY <1>1, <1>6, <2>3 DEF ReplyState, IN_transfer_mask
  <2>5. /\ IN_ep'[0].EPENA /\ ~IN_ep'[0].STALL /\ IN_ep'[0].count = 0
        /\ IN_ep'[0].size \in 1..EP0_MPS /\ IN_ep'[0].size <= h.length
        /\ IN_ep'[0].buffer \in Asked(h)
        /\ Same0(IN_ep'[0], in[0])
    BY <2>1, <2>2, <2>3 DEF Transferred
  <2> QED
    BY <1>3, <2>1, <2>3, <2>4, <2>5 DEF Outcome, DataSent, Same0
<1>7. CASE r.kind = "status"
  <2>1. Transferred(IN_ep'[0], in[0], r.buffer, TransferSize(in, 0, r.size)) /\ OUT_ep' = out
    BY <1>1, <1>7, Reply0
  <2>2. h.length = 0 /\ TransferSize(in, 0, r.size) = 0 /\ ep0_state' = "STATUS_IN"
    BY <1>1, <1>4, <1>7 DEF Fit, EP0_MPS, ReplyState
  <2> QED
    BY <1>3, <2>1, <2>2 DEF Outcome, StatusSent, Transferred, Same0
<1>8. CASE r.kind \notin {"data", "status"}
  <2>1. /\ ep0_state' = "SETUP" /\ DIEPEMPMSK' = DIEPEMPMSK /\ ~Wanted(h)
    BY <1>1, <1>8 DEF ReplyState, Fit, IN_transfer_mask
  <2>2. /\ r.kind \in {"stall", "stall_in"} => Flagged(IN_ep'[0], in[0], TRUE)
        /\ r.kind \in {"none", "stall_out"} => IN_ep' = in
        /\ r.kind \in {"stall", "stall_out"} => OutFlagged(OUT_ep'[0], out[0], TRUE)
        /\ r.kind \notin {"stall", "stall_out"} => OUT_ep' = out
    BY <1>1, Reply0
  <2>3. /\ Same0(IN_ep'[0], in[0]) /\ SameTransfer(IN_ep'[0], in[0])
        /\ OUT_ep'[0].EPENA = out[0].EPENA
    BY <1>2, <1>8, <2>2 DEF Flagged, OutFlagged, Same0, SameTransfer
  <2>4. \/ FirstStage(h) \in {"data_in", "status_in"} /\ IN_ep'[0].STALL
        \/ FirstStage(h) = "data_out" /\ OUT_ep'[0].STALL
        \/ Unanswered(h)
    BY <1>2, <1>8, <2>2, Stages0 DEF Fit, Flagged, OutFlagged
  <2> QED
    BY <1>3, <2>1, <2>3, <2>4 DEF Outcome, NothingSent, Same0, SameTransfer
<1> QED
  BY <1>6, <1>7, <1>8

-----------------------------------------------------------------------------
(* Every reply fits the request it is given to. *)

LEMMA PlainFits ==
  ASSUME NEW h
  PROVE  /\ ~Wanted(h) => Fit(h, Stall)
         /\ h.length = 0 => Fit(h, Status)
         /\ ~Wanted(h) /\ FirstStage(h) \in {"data_in", "status_in"} => Fit(h, StallIN)
         /\ ~Wanted(h) /\ (FirstStage(h) = "data_out" \/ Unanswered(h)) => Fit(h, StallOUT)
         /\ ~Wanted(h) /\ Unanswered(h) => Fit(h, NoReply)
<1>1. h.length = 0 => ~Wanted(h)
  BY DEF Wanted, FirstStage
<1> QED
  BY <1>1 DEF Fit, Stall, Status, StallIN, StallOUT, NoReply

LEMMA DataFits ==
  ASSUME NEW h, h.length # 0, h.direction = "IN",
         NEW b \in Asked(h), NEW n \in Nat, n # 0, n <= h.length
  PROVE  Fit(h, Data(b, n))
BY DEF Fit, Data

\* A request with a data stage to the host reads, one with a data stage from it
\* writes, and the others have none.
LEMMA RegularStages ==
  ASSUME NEW h \in Header, Regular(h)
  PROVE  /\ h.length \in Nat
         /\ h.command \in Reads /\ h.length # 0 => h.direction = "IN"
         /\ h.command \notin Reads \cup Writes => h.length = 0
<1>1. h.direction \in {"IN", "OUT"} /\ h.length \in Nat
  BY HeaderNumbers DEF Header
<1>2. Reads \cap Writes = {}
  BY DEF Reads, Writes
<1> QED
  BY <1>1, <1>2 DEF Regular

LEMMA DescriptorSizes ==
  /\ \A d \in Descriptors : DescriptorSize[d] \in Nat \ {0}
  /\ \A m, n \in Nat \ {0} : Minimum(m, n) \in Nat \ {0} /\ Minimum(m, n) <= n
BY DEF Descriptors, DescriptorSize, Minimum

LEMMA DeviceFits ==
  ASSUME NEW h \in Header, Regular(h), h.recipiant = "DEVICE", h.type = "STANDARD"
  PROVE  /\ h.command = "GET_STATUS" => Fit(h, get_device_status(h))
         /\ h.command = "CLEAR_FEATURE" => Fit(h, clear_device_feature(h))
         /\ h.command = "SET_FEATURE" => Fit(h, set_device_feature(h))
         /\ h.command = "GET_DESCRIPTOR" => Fit(h, get_device_descriptor(h))
         /\ h.command = "GET_CONFIGURATION" => Fit(h, get_device_configuration(h))
<1>1. /\ h.length \in Nat
      /\ h.command \in Reads /\ h.length # 0 => h.direction = "IN"
      /\ h.command \notin Reads \cup Writes => h.length = 0
  BY RegularStages
<1>2. h.command # "GET_DESCRIPTOR" => ~Wanted(h)
  BY DEF Wanted
<1>3. ASSUME h.command = "GET_STATUS" PROVE Fit(h, get_device_status(h))
  <2>1. CASE dev_state = "SUSPENDED" \/ h.length # 2
    BY <1>2, <1>3, <2>1, PlainFits DEF get_device_status
  <2>2. CASE ~(dev_state = "SUSPENDED" \/ h.length # 2)
    <3>1. "dev_config_status" \in Asked(h)
      BY <1>3 DEF Asked
    <3>2. Fit(h, Data("dev_config_status", 2))
      BY <1>1, <1>3, <2>2, <3>1, DataFits DEF Reads
    <3> QED
      BY <2>2, <3>2 DEF get_device_status
  <2> QED
    BY <2>1, <2>2
<1>4. ASSUME h.command = "CLEAR_FEATURE" PROVE Fit(h, clear_device_feature(h))
  <2>1. h.length = 0 /\ (h.value # USB_FEATURE_REMOTE_WAKEUP => Unanswered(h))
    BY <1>1, <1>4 DEF Reads, Writes, Unanswered
  <2>2. /\ Fit(h, Stall) /\ Fit(h, Status)
        /\ h.value # USB_FEATURE_REMOTE_WAKEUP => Fit(h, NoReply)
    BY <1>2, <1>4, <2>1, PlainFits
  <2> QED
    BY <2>2, Zenon DEF clear_device_feature
<1>5. ASSUME h.command = "SET_FEATURE" PROVE Fit(h, set_device_feature(h))
  <2>1. h.length = 0
    BY <1>1, <1>5 DEF Reads, Writes
  <2>2. Fit(h, Stall) /\ Fit(h, Status)
    BY <1>2, <1>5, <2>1, PlainFits
  <2> QED
    BY <2>2, Zenon DEF set_device_feature
<1>6. ASSUME h.command = "GET_DESCRIPTOR" PROVE Fit(h, get_device_descriptor(h))
  <2> DEFINE d == DeviceDescriptor(h.value)
             n == Minimum(DescriptorSize[d], h.length)
  <2>1. d = "NULL" => Fit(h, Stall)
    BY PlainFits DEF Wanted
  <2>2. h.length = 0 => Fit(h, Status)
    BY PlainFits
  <2>3. ASSUME d # "NULL", h.length # 0 PROVE Fit(h, Data(d, n))
    <3>1. d \in Descriptors
      BY <2>3, HeaderNumbers, NamedDescriptors
    <3>2. n \in Nat \ {0} /\ n <= h.length
      BY <1>1, <2>3, <3>1, DescriptorSizes
    <3>3. d \in Asked(h)
      BY <1>6 DEF Asked
    <3>4. h.direction = "IN"
      BY <1>1, <1>6, <2>3 DEF Reads
    <3> QED
      BY <2>3, <3>2, <3>3, <3>4, DataFits
  <2> HIDE DEF n
  <2> QED
    BY <2>1, <2>2, <2>3, Zenon DEF get_device_descriptor, n
<1>7. ASSUME h.command = "GET_CONFIGURATION" PROVE Fit(h, get_device_configuration(h))
  <2>1. Fit(h, Stall)
    BY <1>2, <1>7, PlainFits
  <2>2. ASSUME h.length = ConfigurationLength
        PROVE  Fit(h, Data("dev_config", 1)) /\ Fit(h, Data("dev_default_config", 1))
    <3>1. {"dev_config", "dev_default_config"} \subseteq Asked(h)
      BY <1>7 DEF Asked
    <3>2. h.direction = "IN" /\ 1 <= h.length /\ h.length # 0
      BY <1>1, <1>7, <2>2 DEF Reads, ConfigurationLength
    <3> QED
      BY <3>1, <3>2, DataFits
  <2> QED
    BY <2>1, <2>2, Zenon DEF get_device_configuration
<1> QED
  BY <1>3, <1>4, <1>5, <1>6, <1>7

\* The replies of the class and of an endpoint to a request with a data stage, and
\* those of the class to an endpoint.
LEMMA ClassFits ==
  ASSUME NEW h \in Header, Regular(h), NEW state,
         \/ h.recipiant = "INTERFACE" /\ h.length # 0
         \/ h.recipiant = "ENDPOINT" /\ h.type \in {"CLASS", "VENDOR"}
  PROVE  Fit(h, HID_setup(state, h))
<1>1. /\ h.length \in Nat
      /\ h.command \in Reads /\ h.length # 0 => h.direction = "IN"
  BY RegularStages
<1>2. ~Wanted(h)
  BY DEF Wanted
<1>3. Fit(h, Stall)
  BY <1>2, PlainFits
<1>4. h.command \in Reads => h.length # 0 /\ h.direction = "IN" /\ h.length >= 1
  BY <1>1 DEF Regular
<1>5. ASSUME h.command \in Reads, NEW b \in Asked(h) PROVE Fit(h, Data(b, 1))
  BY <1>1, <1>4, <1>5, DataFits
<1>6. h.command = "HID_GET_PROTOCOL" => Fit(h, Data("protocol", 1))
  BY <1>5 DEF Reads, Asked
<1>7. h.command = "HID_GET_IDLE" => Fit(h, Data("idle", 1))
  BY <1>5 DEF Reads, Asked
<1>8. h.command = "GET_INTERFACE" => Fit(h, Data("alt_setting", 1))
  BY <1>5 DEF Reads, Asked
<1>9. h.command = "GET_STATUS" /\ h.type = "STANDARD" => Fit(h, Data(StackVariable, 2))
  <2> SUFFICES ASSUME h.command = "GET_STATUS", h.type = "STANDARD"
               PROVE  Fit(h, Data(StackVariable, 2))
    OBVIOUS
  <2>1. h.length >= 2 /\ h.length # 0 /\ h.direction = "IN"
    BY <1>4 DEF Regular, Reads
  <2>2. StackVariable \in Asked(h)
    BY DEF Asked
  <2> QED
    BY <1>1, <2>1, <2>2, DataFits
<1>10. ASSUME HID_setup(state, h) = NoReply PROVE Fit(h, NoReply)
  <2>1. Unanswered(h)
    <3>1. \/ h.type = "CLASS" /\ h.command \in {"HID_SET_PROTOCOL", "HID_SET_IDLE"}
          \/ h.type = "STANDARD" /\ h.command \in {"CLEAR_FEATURE", "SET_INTERFACE"}
      <4>1. (\A b, n : Data(b, n) # NoReply) /\ Stall # NoReply
        BY DEF Data, NoReply, Stall
      <4> QED
        BY <1>10, <4>1, Zenon DEF HID_setup
    <3>2. h.recipiant = "INTERFACE" => HID_setup("CONFIGURED", h) = NoReply
      BY <3>1 DEF HID_setup
    <3> QED
      BY <3>1, <3>2 DEF Unanswered
  <2> QED
    BY <1>2, <2>1, PlainFits
<1>11. ASSUME h.type = "STANDARD", h.command = "GET_DESCRIPTOR", HIDDescriptor(h.value) # "NULL"
       PROVE  Fit(h, Data(HIDDescriptor(h.value),
                          Minimum(DescriptorSize[HIDDescriptor(h.value)], h.length)))
  <2> DEFINE d == HIDDescriptor(h.value)
             n == Minimum(DescriptorSize[d], h.length)
  <2>1. d \in Descriptors
    BY <1>11, HeaderNumbers, NamedDescriptors
  <2>2. h.length # 0 /\ h.direction = "IN"
    BY <1>4, <1>11 DEF Reads
  <2>3. n \in Nat \ {0} /\ n <= h.length
    BY <1>1, <2>1, <2>2, DescriptorSizes
  <2>4. d \in Asked(h)
    BY <1>11 DEF Asked
  <2> QED
    BY <2>2, <2>3, <2>4, DataFits
<1> QED
  BY <1>3, <1>6, <1>7, <1>8, <1>9, <1>10, <1>11, Zenon DEF HID_setup

-----------------------------------------------------------------------------
(* The outcome of a request *)

\* The request is answered, once its other effects on EP0 are taken into account.
Replies(h) ==
  \E r \in Reply, in \in INTable, out \in OUTTable :
    Fit(h, r) /\ Near(in[0], out[0], h) /\ Answer(r, in, out)

\* An endpoint table that differs from the current one by flags at most.
LEMMA NearSelf ==
  ASSUME Clear, TypeOK, NEW h
  PROVE  /\ Near(IN_ep[0], OUT_ep[0], h)
         /\ Near(HID_init(IN_ep)[0], OUT_ep[0], h)
         /\ Near(HID_deinit(IN_ep)[0], OUT_ep[0], h)
         /\ Near(HID_init(HID_deinit(IN_ep))[0], OUT_ep[0], h)
         /\ IN_ep \in INTable /\ OUT_ep \in OUTTable
         /\ HID_init(IN_ep) \in INTable /\ HID_deinit(IN_ep) \in INTable
         /\ HID_init(HID_deinit(IN_ep)) \in INTable
<1>1. IN_ep \in INTable /\ OUT_ep \in OUTTable
  BY DEF TypeOK, EndpointsOK, INTable, OUTTable
<1>2. /\ HID_init(IN_ep) \in INTable /\ HID_deinit(IN_ep) \in INTable
      /\ HID_init(HID_deinit(IN_ep)) \in INTable
  BY <1>1, HIDTypes
<1>3. /\ HID_init(IN_ep)[0] = IN_ep[0] /\ HID_deinit(IN_ep)[0] = IN_ep[0]
  BY <1>1, HID0
<1>4. HID_init(HID_deinit(IN_ep))[0] = HID_deinit(IN_ep)[0]
  BY <1>2, HID0
<1>5. Near(IN_ep[0], OUT_ep[0], h)
  BY DEF Near, Flagged, OutFlagged, Same0, SameTransfer, Clear
<1> QED
  BY <1>1, <1>2, <1>3, <1>4, <1>5

LEMMA DeviceReplied ==
  ASSUME TypeOK, Clear, NEW h \in Header, Regular(h), DeviceRequest(h)
  PROVE  Replies(h) /\ DAINTMSK \subseteq DAINTMSK' \cup {HID_IEP}
<1> DEFINE Masked == DAINTMSK \subseteq DAINTMSK' \cup {HID_IEP}
<1>1. /\ h.recipiant = "DEVICE"
      /\ h.length \in Nat
      /\ h.command \notin Reads \cup Writes => h.length = 0
  BY RegularStages DEF DeviceRequest
<1>2. /\ Near(IN_ep[0], OUT_ep[0], h)
      /\ Near(HID_init(IN_ep)[0], OUT_ep[0], h)
      /\ Near(HID_deinit(IN_ep)[0], OUT_ep[0], h)
      /\ Near(HID_init(HID_deinit(IN_ep))[0], OUT_ep[0], h)
      /\ IN_ep \in INTable /\ OUT_ep \in OUTTable
      /\ HID_init(IN_ep) \in INTable /\ HID_deinit(IN_ep) \in INTable
      /\ HID_init(HID_deinit(IN_ep)) \in INTable
  BY NearSelf
<1>3. Stall \in Reply /\ Status \in Reply
  BY PlainReplies
<1>4. ASSUME NEW r \in Reply, Fit(h, r), AnswerOnly(r) PROVE Replies(h) /\ Masked
  BY <1>2, <1>4 DEF AnswerOnly, Replies
<1>5. ASSUME NEW r \in Reply, Fit(h, r), NEW b, ChangeRemoteWakeup(r, b) PROVE Replies(h) /\ Masked
  BY <1>2, <1>5 DEF ChangeRemoteWakeup, Replies
<1>6. (h.command # "GET_DESCRIPTOR" => ~Wanted(h)) /\ (h.type # "STANDARD" => ~Wanted(h))
  BY DEF Wanted, Regular
<1>7. /\ ~Wanted(h) => Fit(h, Stall)
      /\ h.length = 0 => Fit(h, Status)
  BY PlainFits
<1>8. ASSUME h.command = "SET_ADDRESS", set_device_address(h) PROVE Replies(h) /\ Masked
  <2>1. Fit(h, Stall) /\ Fit(h, Status)
    BY <1>1, <1>6, <1>7, <1>8 DEF Reads, Writes
  <2>2. CASE AcceptsAddress(h)
    BY <1>2, <1>3, <1>8, <2>1, <2>2 DEF set_device_address, Replies
  <2>3. CASE ~AcceptsAddress(h)
    BY <1>3, <1>4, <1>8, <2>1, <2>3 DEF set_device_address
  <2> QED
    BY <2>2, <2>3
<1>9. ASSUME h.command = "SET_CONFIGURATION", set_device_configuration(h)
      PROVE  Replies(h) /\ Masked
  <2>1. Fit(h, Stall) /\ Fit(h, Status)
    BY <1>1, <1>6, <1>7, <1>9 DEF Reads, Writes
  <2>2. ASSUME NEW in \in {IN_ep, HID_deinit(IN_ep)}, NEW c, Configure(in, c)
        PROVE  Replies(h) /\ Masked
    <3>1. HID_init(in) \in INTable /\ Near(HID_init(in)[0], OUT_ep[0], h)
      BY <1>2, <2>2
    <3>2. Answer(Status, HID_init(in), OUT_ep) /\ Masked
      BY <2>2 DEF Configure, open_IEP_mask
    <3> QED
      BY <1>2, <1>3, <2>1, <3>1, <3>2, Zenon DEF Replies
  <2>3. ASSUME NEW r \in {Stall, Status}, NEW s, NEW c, Unconfigure(r, s, c)
        PROVE  Replies(h) /\ Masked
    <3>1. Answer(r, HID_deinit(IN_ep), OUT_ep) /\ Masked
      BY <2>3 DEF Unconfigure, close_IEP_mask
    <3> QED
      BY <1>2, <1>3, <2>1, <3>1 DEF Replies
  <2>4. ASSUME NEW r \in {Stall, Status}, AnswerOnly(r) PROVE Replies(h) /\ Masked
    BY <1>3, <1>4, <2>1, <2>4
  <2>5. \/ \E r \in {Stall, Status} : AnswerOnly(r)
        \/ \E in \in {IN_ep, HID_deinit(IN_ep)}, c \in {Low(h.value)} : Configure(in, c)
        \/ \E r \in {Stall, Status}, s \in {"ADDRESSED", dev_state},
              c \in {Low(h.value), dev_config} : Unconfigure(r, s, c)
    BY <1>9, Zenon DEF set_device_configuration
  <2> QED
    BY <2>2, <2>3, <2>4, <2>5
<1>10. /\ get_device_status(h) \in Reply /\ clear_device_feature(h) \in Reply
       /\ set_device_feature(h) \in Reply /\ get_device_descriptor(h) \in Reply
       /\ get_device_configuration(h) \in Reply
  BY DeviceReplies
<1>11. CASE h.type # "STANDARD"
  <2>1. AnswerOnly(Stall)
    BY <1>11, Zenon DEF DeviceRequest
  <2> QED
    BY <1>3, <1>4, <1>6, <1>7, <1>11, <2>1
<1>12. CASE h.type = "STANDARD"
  <2>1. /\ h.command = "GET_STATUS" => Fit(h, get_device_status(h))
        /\ h.command = "CLEAR_FEATURE" => Fit(h, clear_device_feature(h))
        /\ h.command = "SET_FEATURE" => Fit(h, set_device_feature(h))
        /\ h.command = "GET_DESCRIPTOR" => Fit(h, get_device_descriptor(h))
        /\ h.command = "GET_CONFIGURATION" => Fit(h, get_device_configuration(h))
    BY <1>1, <1>12, DeviceFits
  <2>2. \/ \E r \in Reply : Fit(h, r) /\ AnswerOnly(r)
        \/ \E r \in Reply, b \in {remote_wakeup /\ clear_device_feature(h) # Status,
                                  remote_wakeup \/ h.value = USB_FEATURE_REMOTE_WAKEUP} :
              Fit(h, r) /\ ChangeRemoteWakeup(r, b)
        \/ h.command = "SET_ADDRESS" /\ set_device_address(h)
        \/ h.command = "SET_CONFIGURATION" /\ set_device_configuration(h)
    BY <1>3, <1>6, <1>7, <1>10, <1>12, <2>1, Zenon DEF DeviceRequest
  <2> QED
    BY <1>4, <1>5, <1>8, <1>9, <2>2
<1> QED
  BY <1>11, <1>12

\* A halt of an endpoint changes EP0 at most when the request has no data stage.
LEMMA HaltNear ==
  ASSUME TypeOK, Clear, NEW h, h.length = 0, NEW a, EpOf(a) \in EpNum
  PROVE  /\ HaltIN(a) \in INTable /\ HaltOUT(a) \in OUTTable
         /\ Near(HaltIN(a)[0], HaltOUT(a)[0], h)
         /\ unstall_IEP(IN_ep, 0) \in INTable /\ unstall_OEP(OUT_ep, 0) \in OUTTable
         /\ \A in \in {IN_ep, unstall_IEP(IN_ep, 0)}, out \in {OUT_ep, unstall_OEP(OUT_ep, 0)} :
              Near(in[0], out[0], h)
<1>1. IN_ep \in INTable /\ OUT_ep \in OUTTable /\ 0 \in EpNum
  BY NearSelf DEF EpNum
<1>2. HaltIN(a) \in INTable /\ HaltOUT(a) \in OUTTable
  BY <1>1, stall_IEPType, OUTTypes DEF HaltIN, HaltOUT
<1>3. unstall_IEP(IN_ep, 0) \in INTable /\ unstall_OEP(OUT_ep, 0) \in OUTTable
  BY <1>1, unstall_IEPType, OUTTypes
<1> DEFINE NearIN(e) == Flagged(e, IN_ep[0], e.STALL)
           NearOUT(o) == OutFlagged(o, OUT_ep[0], o.STALL)
<1>4. \A e, o : NearIN(e) /\ NearOUT(o) => Near(e, o, h)
  BY DEF Near
<1>5. NearIN(IN_ep[0]) /\ NearOUT(OUT_ep[0])
  BY DEF Flagged, OutFlagged, Same0, SameTransfer
<1>6. NearIN(stall_IEP(IN_ep, 0)[0]) /\ NearIN(unstall_IEP(IN_ep, 0)[0])
  <2>1. Flagged(stall_IEP(IN_ep, 0)[0], IN_ep[0], TRUE) /\ Flagged(unstall_IEP(IN_ep, 0)[0], IN_ep[0], FALSE)
    BY <1>1, Stall0, Unstall0
  <2>2. \A e, f, b : Flagged(e, f, b) => Flagged(e, f, e.STALL)
    BY DEF Flagged
  <2> QED
    BY <2>1, <2>2
<1>7. NearOUT(stall_OEP(OUT_ep, 0)[0]) /\ NearOUT(unstall_OEP(OUT_ep, 0)[0])
  <2>1. OutFlagged(stall_OEP(OUT_ep, 0)[0], OUT_ep[0], TRUE) /\ OutFlagged(unstall_OEP(OUT_ep, 0)[0], OUT_ep[0], FALSE)
    BY <1>1, Out0
  <2>2. \A e, f, b : OutFlagged(e, f, b) => OutFlagged(e, f, e.STALL)
    BY DEF OutFlagged
  <2> QED
    BY <2>1, <2>2
<1>8. stall_IEP(IN_ep, 1)[0] = IN_ep[0] /\ stall_OEP(OUT_ep, 1)[0] = OUT_ep[0]
  BY <1>1 DEF stall_IEP, stall_OEP, INTable, OUTTable, EpNum
<1>9. EpOf(a) \in {0, 1}
  BY DEF EpNum
<1>10. NearIN(HaltIN(a)[0])
  <2>1. HaltIN(a) \in {IN_ep, stall_IEP(IN_ep, 0), stall_IEP(IN_ep, 1)}
    BY <1>9 DEF HaltIN
  <2> HIDE DEF NearIN
  <2> QED
    BY <1>5, <1>6, <1>8, <2>1
<1>11. NearOUT(HaltOUT(a)[0])
  <2>1. HaltOUT(a) \in {OUT_ep, stall_OEP(OUT_ep, 0), stall_OEP(OUT_ep, 1)}
    BY <1>9 DEF HaltOUT
  <2> HIDE DEF NearOUT
  <2> QED
    BY <1>5, <1>7, <1>8, <2>1
<1> HIDE DEF NearIN, NearOUT
<1>12. ASSUME NEW in \in {IN_ep, unstall_IEP(IN_ep, 0)}, NEW out \in {OUT_ep, unstall_OEP(OUT_ep, 0)}
       PROVE  Near(in[0], out[0], h)
  BY <1>4, <1>5, <1>6, <1>7
<1> QED
  BY <1>2, <1>3, <1>4, <1>10, <1>11, <1>12

LEMMA EndpointReplied ==
  ASSUME TypeOK, Clear, NEW h \in Packets, Regular(h), EndpointRequest(h)
  PROVE  Replies(h) /\ DAINTMSK' = DAINTMSK
<1> DEFINE a == Address(h)
<1>1. /\ h \in Header /\ h.recipiant = "ENDPOINT" /\ DAINTMSK' = DAINTMSK
      /\ EpOf(a) \in EpNum
  BY PacketsAreHeaders, RequestsAssumption DEF EndpointRequest, Packets, ZeroHeader, Address
<1>2. /\ h.length \in Nat
      /\ h.command \in Reads /\ h.length # 0 => h.direction = "IN"
      /\ h.command \notin Reads \cup Writes => h.length = 0
  BY <1>1, RegularStages
<1>3. ~Wanted(h)
  BY <1>1 DEF Wanted
<1>4. /\ {Stall, Status, StallIN, NoReply} \subseteq Reply
      /\ get_dendpoint_status(h) \in Reply /\ HID_setup(dev_state, h) \in Reply
  BY <1>1, PlainReplies, DeviceReplies, HID_setupReply
<1>5. Near(IN_ep[0], OUT_ep[0], h) /\ IN_ep \in INTable /\ OUT_ep \in OUTTable
  BY NearSelf
<1>6. ASSUME h.command \in {"SET_FEATURE", "CLEAR_FEATURE"}
      PROVE  h.length = 0 /\ FirstStage(h) = "status_in" /\ Fit(h, Stall) /\ Fit(h, Status) /\ Fit(h, StallIN)
  <2>1. h.length = 0
    BY <1>2, <1>6 DEF Reads, Writes
  <2>2. FirstStage(h) = "status_in"
    BY <2>1 DEF FirstStage
  <2> QED
    BY <1>3, <2>1, <2>2, PlainFits
<1>7. ASSUME h.command \in {"SET_FEATURE", "CLEAR_FEATURE"}
      PROVE  /\ HaltIN(a) \in INTable /\ HaltOUT(a) \in OUTTable
             /\ Near(HaltIN(a)[0], HaltOUT(a)[0], h)
             /\ unstall_IEP(IN_ep, 0) \in INTable /\ unstall_OEP(OUT_ep, 0) \in OUTTable
             /\ \A in \in {IN_ep, unstall_IEP(IN_ep, 0)}, out \in {OUT_ep, unstall_OEP(OUT_ep, 0)} :
                  Near(in[0], out[0], h)
  BY <1>1, <1>6, <1>7, HaltNear
<1>8. ASSUME h.command = "SET_FEATURE", set_endpoin_feature(h) PROVE Replies(h)
  <2>1. \/ Answer(Stall, IN_ep, OUT_ep) \/ Answer(StallIN, HaltIN(a), HaltOUT(a))
        \/ Answer(Status, HaltIN(a), HaltOUT(a)) \/ Answer(Status, IN_ep, OUT_ep)
    BY <1>8, Zenon DEF set_endpoin_feature
  <2> HIDE DEF a
  <2> QED
    BY <1>4, <1>5, <1>6, <1>7, <1>8, <2>1 DEF Replies
<1>9. ASSUME h.command = "CLEAR_FEATURE", h.type = "STANDARD", clear_endpoint_feature(h)
      PROVE  Replies(h)
  <2>1. h.value # USB_FEATURE_EP_HALT => Fit(h, NoReply)
    BY <1>1, <1>3, <1>9, PlainFits DEF Unanswered
  <2>2. \/ Answer(Stall, IN_ep, OUT_ep) \/ Answer(Stall, HaltIN(a), HaltOUT(a))
        \/ \E in \in {IN_ep, unstall_IEP(IN_ep, 0)}, out \in {OUT_ep, unstall_OEP(OUT_ep, 0)} :
             Answer(Status, in, out)
        \/ Fit(h, NoReply) /\ Answer(NoReply, IN_ep, OUT_ep)
    BY <1>9, <2>1, Zenon DEF clear_endpoint_feature
  <2> HIDE DEF a
  <2>3. ASSUME NEW in \in {IN_ep, unstall_IEP(IN_ep, 0)}, NEW out \in {OUT_ep, unstall_OEP(OUT_ep, 0)},
               Answer(Status, in, out)
        PROVE  Replies(h)
    <3>1. Near(in[0], out[0], h) /\ in \in INTable /\ out \in OUTTable
      BY <1>5, <1>7, <1>9
    <3>2. Fit(h, Status) /\ Status \in Reply
      BY <1>4, <1>6, <1>9
    <3> QED
      BY <2>3, <3>1, <3>2, Zenon DEF Replies
  <2> QED
    BY <1>4, <1>5, <1>6, <1>7, <1>9, <2>2, <2>3 DEF Replies
<1>10. ASSUME h.command = "GET_STATUS" PROVE Fit(h, get_dendpoint_status(h))
  <2>1. h.length \in Nat /\ h.length >= 2 /\ h.length # 0 /\ h.direction = "IN"
    BY <1>1, <1>2, <1>10 DEF Regular, Reads
  <2>2. {"ep_status", "ep_status_halted"} \subseteq Asked(h)
    BY <1>1, <1>10 DEF Asked
  <2>3. Fit(h, Data("ep_status", 2)) /\ Fit(h, Data("ep_status_halted", 2)) /\ Fit(h, Stall)
    BY <1>3, <2>1, <2>2, DataFits, PlainFits
  <2> QED
    BY <2>3, Zenon DEF get_dendpoint_status
<1>11. h.type \in {"CLASS", "VENDOR"} => Fit(h, HID_setup(dev_state, h))
  BY <1>1, ClassFits
<1>12. Fit(h, Stall)
  BY <1>3, PlainFits
<1>13. \/ h.command = "SET_FEATURE" /\ set_endpoin_feature(h)
       \/ h.command = "CLEAR_FEATURE" /\ h.type = "STANDARD" /\ clear_endpoint_feature(h)
       \/ \E r \in Reply : Fit(h, r) /\ Answer(r, IN_ep, OUT_ep)
  BY <1>4, <1>10, <1>11, <1>12, Zenon DEF EndpointRequest
<1> QED
  BY <1>1, <1>5, <1>8, <1>9, <1>13 DEF Replies

\* A request to the interface that has no data stage is acknowledged, whatever the
\* class replied before.
LEMMA InterfaceOutcome ==
  ASSUME TypeOK, Clear, Opened0, NEW h \in Header, Regular(h), InterfaceRequest(h)
  PROVE  Outcome(h) /\ DAINTMSK' = DAINTMSK
<1> DEFINE r == IF RejectsInterface(h) THEN Stall ELSE HID_setup(dev_state, h)
           acknowledged == ~RejectsInterface(h) /\ h.length = 0
<1>1. r \in Reply /\ Status \in Reply
  BY PlainReplies, HID_setupReply
<1>2. IN_ep \in INTable /\ OUT_ep \in OUTTable /\ Near(IN_ep[0], OUT_ep[0], h)
  BY NearSelf
<1>3. /\ h.recipiant = "INTERFACE" /\ DAINTMSK' = DAINTMSK
      /\ ep0_state' = IF acknowledged THEN "STATUS_IN" ELSE ReplyState(r)
      /\ IN_ep' = IF acknowledged THEN ReplyIN(ReplyIN(IN_ep, r), Status) ELSE ReplyIN(IN_ep, r)
      /\ OUT_ep' = ReplyOUT(OUT_ep, r)
      /\ DIEPEMPMSK' = ReplyMask(DIEPEMPMSK, r)
  BY DEF InterfaceRequest
<1>4. CASE ~acknowledged
  <2>1. Fit(h, r)
    <3>1. ~Wanted(h)
      BY <1>3 DEF Wanted
    <3>2. Fit(h, Stall)
      BY <3>1, PlainFits
    <3>3. h.length # 0 => Fit(h, HID_setup(dev_state, h))
      BY <1>3, ClassFits
    <3> QED
      BY <1>4, <3>2, <3>3
  <2> HIDE DEF r
  <2>2. Answer(r, IN_ep, OUT_ep)
    BY <1>3, <1>4 DEF Answer
  <2> QED
    BY <1>1, <1>2, <1>3, <2>1, <2>2, AnswerOutcome
<1>5. CASE acknowledged
  <2> HIDE DEF r
  <2> DEFINE in == ReplyIN(IN_ep, r)
  <2>1. in \in INTable
    BY <1>1, <1>2, ReplyINType
  <2>2. Same0(in[0], IN_ep[0])
    <3>1. r.kind \in {"data", "status", "stall", "stall_in", "stall_out", "none"}
      BY <1>1 DEF Reply
    <3>2. /\ r.kind \in {"data", "status"} =>
               Transferred(in[0], IN_ep[0], r.buffer, TransferSize(IN_ep, 0, r.size))
          /\ r.kind \in {"stall", "stall_in"} => Flagged(in[0], IN_ep[0], TRUE)
          /\ r.kind \in {"none", "stall_out"} => in = IN_ep
      BY <1>1, <1>2, Reply0
    <3> QED
      BY <3>1, <3>2 DEF Transferred, Flagged, Same0
  <2>3. OUT_ep'[0].EPENA = OUT_ep[0].EPENA
    <3>1. /\ r.kind \in {"stall", "stall_out"} => OutFlagged(ReplyOUT(OUT_ep, r)[0], OUT_ep[0], TRUE)
          /\ r.kind \notin {"stall", "stall_out"} => ReplyOUT(OUT_ep, r) = OUT_ep
      BY <1>1, <1>2, Reply0
    <3> QED
      BY <1>3, <3>1 DEF OutFlagged
  <2> HIDE DEF in
  <2>4. IN_ep' = ReplyIN(in, Status) /\ ep0_state' = "STATUS_IN"
    BY <1>3, <1>5 DEF in
  <2>5. Transferred(ReplyIN(in, Status)[0], in[0], Status.buffer, TransferSize(in, 0, Status.size))
    <3>1. Status.kind = "status"
      BY DEF Status
    <3> QED
      BY <1>1, <1>2, <2>1, <3>1, Reply0
  <2>6. TransferSize(in, 0, Status.size) = 0
    <3>1. in[0].mps = EP0_MPS
      BY <2>2 DEF Same0, Opened0
    <3> QED
      BY <3>1 DEF TransferSize, Status, EP0_MPS
  <2>7. Transferred(IN_ep'[0], in[0], Status.buffer, 0)
    BY <2>4, <2>5, <2>6
  <2>8. StatusSent(h)
    BY <1>5, <2>4, <2>7 DEF StatusSent, Transferred
  <2>9. Same0(IN_ep'[0], IN_ep[0])
    BY <2>2, <2>7 DEF Transferred, Same0
  <2> QED
    BY <1>3, <2>3, <2>8, <2>9 DEF Outcome
<1> QED
  BY <1>4, <1>5

LEMMA OtherReplied ==
  ASSUME TypeOK, Clear, NEW h \in Header, Regular(h), OtherRequest(h)
  PROVE  Replies(h) /\ DAINTMSK' = DAINTMSK
<1>1. h.recipiant = "OTHER" /\ AnswerOnly(IF h.direction = "IN" THEN StallIN ELSE StallOUT)
  BY DEF OtherRequest
<1>2. ~Wanted(h) /\ h.direction \in {"IN", "OUT"}
  BY <1>1 DEF Wanted, Header
<1>3. FirstStage(h) = "status_in" => Unanswered(h)
  BY <1>1 DEF Unanswered
<1>4. h.direction = "IN" => FirstStage(h) \in {"data_in", "status_in"}
  BY DEF FirstStage
<1>5. h.direction = "OUT" => FirstStage(h) \in {"data_out", "status_in"}
  BY DEF FirstStage
<1>6. PICK r \in {StallIN, StallOUT} : Fit(h, r) /\ AnswerOnly(r)
  <2>1. CASE h.direction = "IN"
    BY <1>1, <1>2, <1>4, <2>1, PlainFits
  <2>2. CASE h.direction = "OUT"
    BY <1>1, <1>2, <1>3, <1>5, <2>2, PlainFits
  <2> QED
    BY <1>2, <2>1, <2>2
<1>7. r \in Reply
  BY PlainReplies
<1> QED
  BY <1>6, <1>7, NearSelf DEF AnswerOnly, Replies

\* Every request is answered with what it asks for, refused or, if it is one of
\* those, left without a reply; EP0 stays open, and its interrupts enabled.
LEMMA RequestOutcome ==
  ASSUME TypeOK, Clear, Opened0, NEW h \in Packets, Regular(h),
         DeviceRequest(h) \/ InterfaceRequest(h) \/ EndpointRequest(h) \/ OtherRequest(h)
  PROVE  Outcome(h) /\ DAINTMSK \subseteq DAINTMSK' \cup {HID_IEP}
<1>1. h \in Header
  BY PacketsAreHeaders
<1>2. ASSUME Replies(h) PROVE Outcome(h)
  <2>1. PICK r \in Reply, in \in INTable, out \in OUTTable :
          Fit(h, r) /\ Near(in[0], out[0], h) /\ Answer(r, in, out)
    BY <1>2 DEF Replies
  <2> QED
    BY <1>1, <2>1, AnswerOutcome
<1> QED
  BY <1>1, <1>2, DeviceReplied, InterfaceOutcome, EndpointReplied, OtherReplied

-----------------------------------------------------------------------------
(* ControlInv is an invariant. *)

LEMMA ControlInit == Init => ControlInv
<1> SUFFICES ASSUME Init PROVE ControlInv
  OBVIOUS
<1>1. 0 \in EpNum
  BY DEF EpNum
<1>2. /\ IN_ep[0] = [buffer |-> "NULL", size |-> 0, count |-> 0, mps |-> 0,
                     is_used |-> FALSE, is_stall |-> FALSE,
                     USBAEP |-> FALSE, EPENA |-> FALSE, EPDIS |-> FALSE, STALL |-> FALSE]
      /\ DIEPINT[0] = {} /\ fifo[0] = <<>>
  BY <1>1 DEF Init, InitialIN
<1>3. /\ bus = "off" /\ stage = "idle" /\ calls = {} /\ rx = <<>> /\ DOEPINT = {}
      /\ ep0_state = "IDLE" /\ DIEPEMPMSK = {}
  BY DEF Init
<1> QED
  BY <1>2, <1>3 DEF ControlInv, Unmasked, Opening, Busy, Never, Arrival, Ended, Completion,
     StatusStage, Armed, Loaded, Pending, DescriptorsServed

\* When the driver has nothing left to do, everything raised on EP0 has been handled.
LEMMA DoneControl ==
  ASSUME TypeOK, ControlInv, calls = {}, Raised = {}
  PROVE  /\ calls = {} /\ GINTSTS = {} /\ rx = <<>> /\ Ended
         /\ bus # "off" =>
              {0, 16} \subseteq DAINTMSK /\ NoRequest /\ DIEPINT[0] = {}
         /\ 0 \notin DIEPEMPMSK
<1>1. /\ calls = {} /\ GINTSTS = {} /\ rx = <<>>
      /\ ~\E n \in EpNum : n \in DAINTMSK /\ EndpointRaised(n)
      /\ DOEPINT = {} \/ 16 \notin DAINTMSK
  BY DEF Raised
<1>2. bus # "off" => {0, 16} \subseteq DAINTMSK
  BY <1>1 DEF ControlInv, Unmasked, Due
<1>3. Ended
  BY <1>1, <1>2 DEF ControlInv, Arrival, Arriving, Busy, Ended
<1>4. 0 \in EpNum
  BY DEF EpNum
<1>5. bus # "off" => NoRequest /\ DIEPINT[0] = {} /\ ~(0 \in DIEPEMPMSK /\ FifoEmpty(0))
  BY <1>1, <1>2, <1>4 DEF NoRequest, EndpointRaised
<1>6. fifo[0] = <<>> => FifoEmpty(0)
  BY BoundsAssumption DEF FifoEmpty
<1>7. 0 \notin DIEPEMPMSK
  BY <1>5, <1>6 DEF ControlInv, Pending, Loaded
<1> QED
  BY <1>1, <1>2, <1>3, <1>5, <1>7

\* What the host waits for.
LEMMA QuietControl ==
  ASSUME TypeOK, ControlInv, Quiet
  PROVE  /\ calls = {} /\ GINTSTS = {} /\ rx = <<>> /\ Ended
         /\ bus # "off" =>
              {0, 16} \subseteq DAINTMSK /\ NoRequest /\ DIEPINT[0] = {}
         /\ 0 \notin DIEPEMPMSK
BY DoneControl DEF Quiet

\* What ControlInv speaks of, of an endpoint 0 that is left alone.
View0 ==
  <<IN_ep[0].USBAEP, IN_ep[0].mps, IN_ep[0].EPENA, IN_ep[0].STALL, IN_ep[0].EPDIS,
    IN_ep[0].size, IN_ep[0].count, IN_ep[0].buffer, OUT_ep[0].EPENA, OUT_ep[0].STALL, fifo[0]>>

\* A step adds a call only for what is raised, and drops neither a reset nor its end.
CallsFollow ==
  /\ NoRequest => calls' \cap OEPCalls = {}
  /\ <<"STUP", 0>> \in calls' => <<"STUP", 0>> \in calls \/ "STUP" \in DOEPINT
  /\ <<"OUT_XFRC", 0>> \in calls' => <<"OUT_XFRC", 0>> \in calls \/ "XFRC" \in DOEPINT
  /\ <<"XFRC", 0>> \in calls' =>
       \/ <<"XFRC", 0>> \in calls /\ (<<"USBRST", 0>> \in calls' => <<"USBRST", 0>> \in calls)
       \/ "XFRC" \in DIEPINT[0] /\ <<"USBRST", 0>> \notin calls'
  /\ <<"EPDISD", 0>> \in calls' => <<"EPDISD", 0>> \in calls \/ "EPDISD" \in DIEPINT[0]
  /\ <<"TXFE", 0>> \in calls' => <<"TXFE", 0>> \in calls \/ 0 \in DIEPEMPMSK
  /\ <<"USBRST", 0>> \in calls' => <<"USBRST", 0>> \in calls \/ "USBRST" \in GINTSTS
  /\ <<"ENUMDNE", 0>> \in calls' => <<"ENUMDNE", 0>> \in calls \/ "ENUMDNE" \in GINTSTS
  /\ Due("USBRST") => Due("USBRST")'
  /\ Due("ENUMDNE") => Due("ENUMDNE")'

LEMMA CallsDone ==
  ASSUME NEW c \in calls, c \notin {<<"USBRST", 0>>, <<"ENUMDNE", 0>>}, Done(c)
  PROVE  CallsFollow
BY DEF CallsFollow, Done, NoRequest, Due

LEMMA CallsSame ==
  ASSUME calls' = calls, GINTSTS \subseteq GINTSTS'
  PROVE  CallsFollow
BY DEF CallsFollow, NoRequest, Due

LEMMA ArrivalKept ==
  ASSUME CallsFollow, UNCHANGED <<rx, setup, stage, req, DOEPINT>>
  PROVE  (Ended => Ended') /\ (Arriving => Arriving')
<1>1. Ended => Ended'
  BY DEF Ended, Entry, CallsFollow
<1>2. NoRequest => NoRequest'
  BY DEF CallsFollow, NoRequest
<1>3. Arriving => Arriving'
  BY <1>2 DEF Arriving, Entry, CallsFollow
<1> QED
  BY <1>1, <1>3

\* A step that leaves EP0 alone, or takes note of a completion while no transfer
\* is in progress.
LEMMA ControlKept ==
  ASSUME ControlInv, CallsFollow, View0' = View0, UNCHANGED <<ep0_state, stage, req>>,
         Ended => Ended', Arriving => Arriving',
         \/ DIEPINT'[0] = DIEPINT[0]
         \/ DIEPINT'[0] = {} /\ stage = "idle" /\ <<"XFRC", 0>> \notin calls',
         bus' = bus \/ (stage = "idle" /\ {bus, bus'} \subseteq {"active", "suspended"}),
         \A c \in {"USBRST", "ENUMDNE"} : c \in GINTSTS' => c \in GINTSTS,
         DAINTMSK \subseteq DAINTMSK' \cup {HID_IEP},
         0 \in DIEPEMPMSK' => 0 \in DIEPEMPMSK
  PROVE  ControlInv'
<1>1. /\ Opened0' = Opened0 /\ Clear' = Clear /\ Copied' = Copied
      /\ IN_ep'[0].EPENA = IN_ep[0].EPENA /\ IN_ep'[0].STALL = IN_ep[0].STALL
      /\ IN_ep'[0].EPDIS = IN_ep[0].EPDIS /\ IN_ep'[0].size = IN_ep[0].size
      /\ IN_ep'[0].buffer = IN_ep[0].buffer
      /\ OUT_ep'[0].EPENA = OUT_ep[0].EPENA /\ OUT_ep'[0].STALL = OUT_ep[0].STALL
      /\ fifo'[0] = fifo[0]
  BY DEF View0, Opened0, Clear, Copied
<1>2. Sending => Sending'
  BY <1>1 DEF Sending
<1>3. Unmasked'
  BY DEF ControlInv, Unmasked, CallsFollow, HID_IEP
<1>4. Opening'
  BY <1>1 DEF ControlInv, Opening, CallsFollow
<1>5. Busy'
  BY <1>1 DEF ControlInv, Busy, CallsFollow
<1>6. Never'
  BY <1>1 DEF ControlInv, Never, CallsFollow
<1>7. Arrival'
  BY <1>1 DEF ControlInv, Arrival, FirstStage
<1>8. Completion' /\ StatusStage'
  BY <1>1 DEF ControlInv, Completion, StatusStage
<1>9. Armed'
  BY <1>1 DEF ControlInv, Armed
<1>10. Loaded'
  <2>1. bus = "reset" => bus' = "reset"
    OBVIOUS
  <2> QED
    BY <1>1, <1>2, <2>1 DEF ControlInv, Loaded, CallsFollow
<1>11. Pending'
  BY <1>1, <1>2 DEF ControlInv, Pending, CallsFollow
<1>12. DescriptorsServed'
  BY <1>1 DEF ControlInv, DescriptorsServed
<1> QED
  BY <1>3, <1>4, <1>5, <1>6, <1>7, <1>8, <1>9, <1>10, <1>11, <1>12 DEF ControlInv

LEMMA ControlBusEvent ==
  ASSUME TypeOK, Patient, ControlInv, BusEvent
  PROVE  ControlInv'
<1> USE DEF driverVars, handleVars, controlVars, epVars
<1>1. Patient => {"reset", "enumeration", "setup"} \subseteq Prompt
  BY DEF Patient
<1>2. stage # "idle" => bus = "active"
  BY DEF ControlInv, Busy
<1>3. CASE BusReset
  <2>1. Quiet
    BY <1>1, <1>3 DEF BusReset, May
  <2>2. /\ calls = {} /\ GINTSTS = {} /\ rx = <<>> /\ Ended
        /\ 0 \notin DIEPEMPMSK
        /\ bus # "off" => DIEPINT[0] = {}
    BY <2>1, QuietControl
  <2>3. /\ bus' = "reset" /\ stage' = "idle" /\ GINTSTS' = {"USBRST"}
        /\ UNCHANGED <<ep0_state, setup, IN_ep, OUT_ep, DAINTMSK, DIEPEMPMSK, calls,
                       DIEPINT, DOEPINT, fifo, rx, req>>
    BY <1>3, <2>2 DEF BusReset
  <2>4. Due("USBRST")' /\ Ended'
    BY <2>2, <2>3 DEF Due, Ended
  <2>5. Unmasked' /\ Opening' /\ Busy' /\ StatusStage' /\ Armed' /\ DescriptorsServed' /\ Arrival'
    BY <2>3, <2>4 DEF Unmasked, Opening, Busy, StatusStage, Armed, DescriptorsServed, Arrival
  <2>6. Never' /\ Pending'
    BY <2>2, <2>3 DEF ControlInv, Never, Pending
  <2>7. Completion'
    BY <1>2, <2>2, <2>3, <2>4 DEF ControlInv, Completion
  <2>8. Loaded'
    BY <2>3, <2>4 DEF ControlInv, Loaded, Copied
  <2> QED
    BY <2>5, <2>6, <2>7, <2>8 DEF ControlInv
<1>4. CASE Enumerated
  <2>1. Quiet
    BY <1>1, <1>4 DEF Enumerated, May
  <2>2. bus = "reset" /\ bus' = "active" /\ GINTSTS' = GINTSTS \cup {"ENUMDNE"}
        /\ UNCHANGED <<ep0_state, setup, IN_ep, OUT_ep, DAINTMSK, DIEPEMPMSK, calls,
                       DIEPINT, DOEPINT, fifo, rx, stage, req>>
    BY <1>4 DEF Enumerated
  <2>3. /\ calls = {} /\ GINTSTS = {} /\ rx = <<>> /\ Ended
        /\ 0 \notin DIEPEMPMSK
        /\ DIEPINT[0] = {} /\ {0, 16} \subseteq DAINTMSK
    BY <2>1, <2>2, QuietControl
  <2>4. stage = "idle" /\ Due("ENUMDNE")' /\ ~Due("USBRST") /\ Ended'
    BY <1>2, <2>2, <2>3 DEF Due, Ended, Entry
  <2>5. fifo[0] = <<>>
    BY <2>4 DEF ControlInv, Loaded, Sending
  <2>6. Unmasked' /\ Opening' /\ Busy' /\ StatusStage' /\ Armed' /\ DescriptorsServed' /\ Arrival'
    BY <2>2, <2>3, <2>4 DEF Unmasked, Opening, Busy, StatusStage, Armed, DescriptorsServed, Arrival
  <2>7. Never' /\ Pending' /\ Completion' /\ Loaded'
    BY <2>2, <2>3, <2>5 DEF ControlInv, Never, Pending, Completion, Loaded
  <2> QED
    BY <2>6, <2>7 DEF ControlInv
<1>5. CASE BusSuspend \/ BusResume
  <2>1. /\ stage = "idle" /\ {bus, bus'} \subseteq {"active", "suspended"}
        /\ calls' = calls /\ GINTSTS \subseteq GINTSTS'
        /\ \A c \in {"USBRST", "ENUMDNE"} : c \in GINTSTS' => c \in GINTSTS
        /\ UNCHANGED <<ep0_state, setup, IN_ep, OUT_ep, DAINTMSK, DIEPEMPMSK,
                       DIEPINT, DOEPINT, fifo, rx, stage, req>>
    BY <1>2, <1>5 DEF BusSuspend, BusResume
  <2>2. CallsFollow
    BY <2>1, CallsSame
  <2>3. View0' = View0
    BY <2>1 DEF View0
  <2>4. (Ended => Ended') /\ (Arriving => Arriving')
    BY <2>1, <2>2, ArrivalKept
  <2> QED
    BY <2>1, <2>2, <2>3, <2>4, ControlKept
<1>6. CASE HostSetup
  <2>1. Quiet
    BY <1>1, <1>6 DEF HostSetup, May
  <2>2. PICK h \in Requests :
          /\ rx' = rx \o <<[status |-> "SETUP", packet |-> h], [status |-> "SETUP_DONE", packet |-> h]>>
          /\ req' = h /\ stage' = FirstStage(h)
    BY <1>6 DEF HostSetup
  <2>3. /\ bus = "active" /\ stage = "idle"
        /\ IN_ep' = [IN_ep EXCEPT ![0] = [@ EXCEPT !.STALL = FALSE, !.EPENA = FALSE]]
        /\ OUT_ep' = [OUT_ep EXCEPT ![0] = [@ EXCEPT !.STALL = FALSE, !.EPENA = FALSE]]
        /\ UNCHANGED <<ep0_state, setup, DAINTMSK, DIEPEMPMSK, calls,
                       GINTSTS, DIEPINT, DOEPINT, fifo, bus>>
    BY <1>6 DEF HostSetup
  <2>4. /\ calls = {} /\ GINTSTS = {} /\ rx = <<>> /\ Ended /\ NoRequest
        /\ 0 \notin DIEPEMPMSK
        /\ DIEPINT[0] = {} /\ {0, 16} \subseteq DAINTMSK
    BY <2>1, <2>3, QuietControl
  <2>5. fifo[0] = <<>> /\ Opened0
    BY <2>3, <2>4 DEF ControlInv, Loaded, Sending, Opening, Due
  <2>6. 0 \in EpNum /\ IN_ep \in INTable /\ OUT_ep \in OUTTable
    BY DEF TypeOK, EndpointsOK, INTable, OUTTable, EpNum
  <2>7. /\ ~IN_ep'[0].EPENA /\ ~IN_ep'[0].STALL /\ ~OUT_ep'[0].EPENA /\ ~OUT_ep'[0].STALL
        /\ Same0(IN_ep'[0], IN_ep[0])
    BY <2>3, <2>6 DEF Same0, INTable, OUTTable, INEndpoint, OUTEndpoint
  <2>8. Opened0' /\ Clear' /\ ~IN_ep'[0].EPDIS
    BY <2>5, <2>7 DEF Opened0, Clear, Same0, ControlInv, Never
  <2>9. stage' \in {"data_in", "data_out", "status_in"}
    BY <2>2 DEF FirstStage
  <2>10. Arrival'
    <3>1. rx' = <<Entry("SETUP"), Entry("SETUP_DONE")>>'
      BY <2>2, <2>4 DEF Entry
    <3>2. NoRequest'
      BY <2>3, <2>4 DEF NoRequest
    <3>3. stage' = FirstStage(req')
      BY <2>2
    <3> QED
      BY <2>8, <2>9, <3>1, <3>2, <3>3 DEF Arrival, Arriving, FirstStage
  <2>11. Unmasked' /\ Opening' /\ Busy' /\ Never'
    BY <2>3, <2>4, <2>8 DEF Unmasked, Opening, Busy, Never, ControlInv
  <2>12. Completion' /\ StatusStage' /\ Armed' /\ Loaded' /\ Pending' /\ DescriptorsServed'
    BY <2>3, <2>4, <2>5, <2>7, <2>9 DEF Completion, StatusStage, Armed, Loaded, Pending, DescriptorsServed
  <2> QED
    BY <2>10, <2>11, <2>12 DEF ControlInv
<1> QED
  BY <1>3, <1>4, <1>5, <1>6 DEF BusEvent

\* What an IN transaction does to EP0, and to another endpoint.
LEMMA Sent0 ==
  ASSUME TypeOK, NEW n \in EpNum, Send(n)
  PROVE  /\ Same0(IN_ep'[0], IN_ep[0]) /\ IN_ep'[0].STALL = IN_ep[0].STALL
         /\ IN_ep'[0].size = IN_ep[0].size /\ IN_ep'[0].count = IN_ep[0].count
         /\ n # 0 => IN_ep'[0] = IN_ep[0] /\ fifo'[0] = fifo[0] /\ DIEPINT'[0] = DIEPINT[0]
         /\ n = 0 => ~IN_ep'[0].EPENA /\ DIEPINT'[0] = DIEPINT[0] \cup {"XFRC"}
                     /\ fifo'[0] = IF IN_ep[0].size = 0 THEN fifo[0] ELSE Tail(fifo[0])
         /\ UNCHANGED <<ep0_state, setup, OUT_ep, DAINTMSK, DIEPEMPMSK, calls,
                        GINTSTS, DOEPINT, rx, bus, req>>
<1>1. 0 \in EpNum /\ IN_ep \in INTable
  BY DEF TypeOK, EndpointsOK, INTable, EpNum
<1>2. /\ fifo \in [EpNum -> Seq(Buffers)] /\ DIEPINT \in [EpNum -> SUBSET {"XFRC", "EPDISD"}]
  BY DEF TypeOK, CoreOK
<1> QED
  BY <1>1, <1>2 DEF Send, Same0, INTable, INEndpoint, controlVars

LEMMA ControlCore ==
  ASSUME TypeOK, Patient, ControlInv, Core
  PROVE  ControlInv'
<1> USE DEF driverVars, handleVars, controlVars, epVars, coreVars, hostVars
<1>1. 0 \in EpNum /\ 1 \in EpNum /\ IN_ep \in INTable /\ OUT_ep \in OUTTable
      /\ DIEPINT \in [EpNum -> SUBSET {"XFRC", "EPDISD"}]
  BY DEF TypeOK, EndpointsOK, INTable, OUTTable, EpNum, CoreOK
<1>2. ASSUME calls' = calls, GINTSTS' = GINTSTS, bus' = bus, View0' = View0, DIEPINT'[0] = DIEPINT[0],
             UNCHANGED <<ep0_state, stage, req, rx, setup, DOEPINT, DAINTMSK, DIEPEMPMSK>>
      PROVE  ControlInv'
  <2>1. CallsFollow
    BY <1>2, CallsSame
  <2>2. (Ended => Ended') /\ (Arriving => Arriving')
    BY <1>2, <2>1, ArrivalKept
  <2> QED
    BY <1>2, <2>1, <2>2, ControlKept
\* A transaction that ends a stage keeps what does not depend on the stage.
<1>3. ASSUME bus = "active", Ended', stage # "idle", calls' = calls, UNCHANGED <<GINTSTS, bus, DAINTMSK, ep0_state>>,
             Same0(IN_ep'[0], IN_ep[0]), DIEPINT'[0] \subseteq DIEPINT[0] \cup {"XFRC"}, DIEPINT[0] \subseteq DIEPINT'[0]
      PROVE  Unmasked' /\ Opening' /\ Busy' /\ Never' /\ Arrival'
  <2>1. Opened0' = Opened0 /\ IN_ep'[0].EPDIS = IN_ep[0].EPDIS
    BY <1>3 DEF Opened0, Same0
  <2>2. Unmasked' /\ Opening' /\ Busy'
    BY <1>3, <2>1 DEF ControlInv, Unmasked, Opening, Busy
  <2>3. Never'
    BY <1>3, <2>1 DEF ControlInv, Never
  <2> QED
    BY <1>3, <2>2, <2>3 DEF Arrival
<1>4. CASE HostReadsData
  <2>1. /\ bus = "active" /\ stage = "data_in" /\ stage' = "status_out" /\ Send(0) /\ CanSend(0)
    BY <1>4 DEF HostReadsData, Send
  <2>2. /\ ep0_state = "DATA_IN" /\ IN_ep[0].size # 0 /\ ~OUT_ep[0].EPENA /\ ~OUT_ep[0].STALL
        /\ fifo[0] # <<>>
    BY <2>1 DEF ControlInv, Armed, CanSend
  <2>3. Ended /\ Copied /\ 0 \notin DIEPEMPMSK /\ fifo[0] = <<IN_ep[0].buffer>>
    BY <2>1, <2>2 DEF ControlInv, Loaded, Sending
  <2>4. /\ Same0(IN_ep'[0], IN_ep[0]) /\ IN_ep'[0].STALL = IN_ep[0].STALL
        /\ IN_ep'[0].size = IN_ep[0].size /\ IN_ep'[0].count = IN_ep[0].count
        /\ ~IN_ep'[0].EPENA /\ DIEPINT'[0] = DIEPINT[0] \cup {"XFRC"}
        /\ fifo'[0] = <<>>
        /\ UNCHANGED <<ep0_state, setup, OUT_ep, DAINTMSK, DIEPEMPMSK, calls,
                       GINTSTS, DOEPINT, rx, bus, req>>
    BY <1>1, <2>1, <2>2, <2>3, Sent0
  <2>5. Ended' /\ Copied'
    BY <2>1, <2>3, <2>4 DEF Ended, Copied
  <2>6. Unmasked' /\ Opening' /\ Busy' /\ Never' /\ Arrival'
    BY <1>3, <2>1, <2>4, <2>5
  <2>7. Completion' /\ StatusStage' /\ Armed' /\ Loaded' /\ Pending' /\ DescriptorsServed'
    BY <2>1, <2>2, <2>4, <2>5 DEF Completion, StatusStage, Armed, Loaded, Pending, DescriptorsServed
  <2> QED
    BY <2>6, <2>7 DEF ControlInv
<1>5. CASE HostReadsStatus
  <2>1. /\ bus = "active" /\ stage = "status_in" /\ stage' = "idle" /\ Send(0) /\ CanSend(0)
    BY <1>5 DEF HostReadsStatus, Send
  <2>2. ep0_state # "DATA_IN" /\ IN_ep[0].EPENA /\ fifo[0] = <<>> /\ IN_ep[0].size = 0
    BY <2>1 DEF ControlInv, Armed, CanSend, Loaded, Sending
  <2>3. Ended /\ rx = <<>>
    BY <2>1, <2>2 DEF ControlInv, Arrival, Clear, Ended
  <2>4. /\ Same0(IN_ep'[0], IN_ep[0]) /\ IN_ep'[0].STALL = IN_ep[0].STALL
        /\ IN_ep'[0].size = IN_ep[0].size /\ IN_ep'[0].count = IN_ep[0].count
        /\ ~IN_ep'[0].EPENA /\ DIEPINT'[0] = DIEPINT[0] \cup {"XFRC"}
        /\ fifo'[0] = <<>>
        /\ UNCHANGED <<ep0_state, setup, OUT_ep, DAINTMSK, DIEPEMPMSK, calls,
                       GINTSTS, DOEPINT, rx, bus, req>>
    BY <1>1, <2>1, <2>2, Sent0
  <2>5. Ended' /\ Copied' = Copied
    BY <2>1, <2>3, <2>4 DEF Ended, Copied
  <2>6. Unmasked' /\ Opening' /\ Busy' /\ Never' /\ Arrival'
    BY <1>3, <2>1, <2>4, <2>5
  <2>7. Pending'
    BY <2>1, <2>4, <2>5 DEF ControlInv, Pending, Sending
  <2>8. Completion' /\ StatusStage' /\ Armed' /\ Loaded' /\ DescriptorsServed'
    BY <2>1, <2>2, <2>4, <2>5 DEF Completion, StatusStage, Armed, Loaded, DescriptorsServed
  <2> QED
    BY <2>6, <2>7, <2>8 DEF ControlInv
<1>6. CASE HostReadsReport
  <2>1. Send(1) /\ UNCHANGED stage
    BY <1>6 DEF HostReadsReport
  <2>2. /\ IN_ep'[0] = IN_ep[0] /\ fifo'[0] = fifo[0] /\ DIEPINT'[0] = DIEPINT[0]
        /\ UNCHANGED <<ep0_state, setup, OUT_ep, DAINTMSK, DIEPEMPMSK, calls,
                       GINTSTS, DOEPINT, rx, bus, req>>
    BY <1>1, <2>1, Sent0
  <2>3. View0' = View0
    BY <2>2 DEF View0
  <2> QED
    BY <1>2, <2>1, <2>2, <2>3
<1>7. CASE HostSendsStatus
  <2>1. /\ bus = "active" /\ stage = "status_out" /\ stage' = "idle" /\ OUT_ep[0].EPENA
        /\ rx' = Append(rx, [status |-> "OUT_DONE", packet |-> req])
        /\ UNCHANGED <<ep0_state, setup, IN_ep, DAINTMSK, DIEPEMPMSK, calls,
                       GINTSTS, DIEPINT, DOEPINT, fifo, bus, req>>
    BY <1>7 DEF HostSendsStatus
  <2>2. /\ ep0_state = "STATUS_OUT" /\ Ended /\ rx = <<>> /\ DIEPINT[0] = {} /\ fifo[0] = <<>>
        /\ 0 \in DIEPEMPMSK \/ <<"TXFE", 0>> \in calls => Copied
    <3>1. ep0_state = "STATUS_OUT" /\ Ended
      BY <2>1 DEF ControlInv, StatusStage
    <3>2. rx = <<>>
      BY <2>1, <3>1 DEF Ended
    <3>3. DIEPINT[0] = {}
      BY <2>1, <3>1 DEF ControlInv, Completion
    <3>4. ~Sending
      BY <2>1 DEF Sending
    <3>5. fifo[0] = <<>> /\ (0 \in DIEPEMPMSK \/ <<"TXFE", 0>> \in calls => Copied)
      BY <2>1, <3>4 DEF ControlInv, Loaded, Pending
    <3> QED
      BY <3>1, <3>2, <3>3, <3>5
  <2>3. Ended' /\ Copied' = Copied
    BY <2>1, <2>2 DEF Ended, Entry, Copied
  <2>4. Same0(IN_ep'[0], IN_ep[0])
    BY <2>1 DEF Same0
  <2>5. Unmasked' /\ Opening' /\ Busy' /\ Never' /\ Arrival'
    BY <1>3, <2>1, <2>3, <2>4
  <2>6. Completion' /\ StatusStage' /\ Armed' /\ Loaded' /\ Pending' /\ DescriptorsServed'
    BY <2>1, <2>2, <2>3 DEF Completion, StatusStage, Armed, Loaded, Pending, DescriptorsServed
  <2> QED
    BY <2>5, <2>6 DEF ControlInv
<1>8. ASSUME bus = "active", stage # "idle", stage' = "idle", Ended, DIEPINT[0] = {}, fifo[0] = <<>>,
             (0 \in DIEPEMPMSK \/ <<"TXFE", 0>> \in calls) => Copied,
             UNCHANGED <<driverVars, coreVars, bus, req>>
      PROVE  ControlInv'
  <2>1. Ended' /\ Copied' = Copied
    BY <1>8 DEF Ended, Copied
  <2>2. Same0(IN_ep'[0], IN_ep[0])
    BY <1>8 DEF Same0
  <2>3. Unmasked' /\ Opening' /\ Busy' /\ Never' /\ Arrival'
    BY <1>3, <1>8, <2>1, <2>2
  <2>4. Completion' /\ StatusStage' /\ Armed' /\ Loaded' /\ Pending' /\ DescriptorsServed'
    BY <1>8, <2>1 DEF Completion, StatusStage, Armed, Loaded, Pending, DescriptorsServed
  <2> QED
    BY <2>3, <2>4 DEF ControlInv
<1>9. CASE HostSeesStall
  <2>1. /\ bus = "active" /\ Stalled /\ stage' = "idle" /\ UNCHANGED <<driverVars, coreVars, bus, req>>
    BY <1>9 DEF HostSeesStall
  <2>2. stage # "idle"
    BY <2>1 DEF Stalled
  <2>3. Ended
    <3>1. ~Clear
      BY <2>1 DEF Stalled, Clear
    <3> QED
      BY <3>1 DEF ControlInv, Arrival
  <2>4. stage = "status_out" => ~OUT_ep[0].STALL
    BY DEF ControlInv, StatusStage
  <2>5. DIEPINT[0] = {}
    BY <2>1, <2>2, <2>4 DEF ControlInv, Completion, Stalled
  <2>6. ~Sending
    BY <2>1 DEF Sending, Stalled
  <2>7. fifo[0] = <<>> /\ (0 \in DIEPEMPMSK \/ <<"TXFE", 0>> \in calls => Copied)
    BY <2>1, <2>6 DEF ControlInv, Loaded, Pending
  <2> QED
    BY <1>8, <2>1, <2>2, <2>3, <2>5, <2>7
<1>10. CASE HostAborts
  <2>1. /\ Quiet /\ bus = "active" /\ stage # "idle" /\ stage' = "idle" /\ ~Answered
        /\ UNCHANGED <<driverVars, coreVars, bus, req>>
    BY <1>10 DEF HostAborts, May, Patient
  <2>2. calls = {} /\ Ended /\ DIEPINT[0] = {} /\ 0 \notin DIEPEMPMSK
    BY <2>1, QuietControl
  <2>3. fifo[0] = <<>>
    <3>1. ASSUME fifo[0] # <<>> PROVE FALSE
      <4>1. Sending /\ Opened0
        BY <2>1, <3>1 DEF ControlInv, Loaded, Busy
      <4>2. Answered
        BY <3>1, <4>1 DEF Answered, CanSend, Sending, Opened0
      <4> QED
        BY <2>1, <4>2
    <3> QED
      BY <3>1
  <2> QED
    BY <1>8, <2>1, <2>2, <2>3
<1>11. CASE EndpointDisabled
  <2> PICK n \in EpNum : EndpointDisabled!(n)
    BY <1>11 DEF EndpointDisabled
  <2>1. n # 0
    BY DEF ControlInv, Never
  <2>2. IN_ep'[0] = IN_ep[0] /\ DIEPINT'[0] = DIEPINT[0]
    BY <1>1, <2>1 DEF INTable
  <2>3. View0' = View0
    BY <2>2 DEF View0
  <2> QED
    BY <1>2, <2>2, <2>3
<1> QED
  BY <1>4, <1>5, <1>6, <1>7, <1>9, <1>10, <1>11 DEF Core

\* A report only touches the HID endpoint.
LEMMA ControlReport ==
  ASSUME TypeOK, ControlInv, send_HID_report
  PROVE  ControlInv'
<1> USE DEF handleVars, controlVars, coreVars, hostVars
<1>1. HID_IEP # 0 /\ 0 \in EpNum /\ IN_ep \in INTable
  BY DEF HID_IEP, TypeOK, EndpointsOK, INTable, EpNum
<1>2. IN_ep'[0] = IN_ep[0]
  BY <1>1 DEF send_HID_report, IN_transfer, INTable
<1>3. /\ calls' = calls /\ GINTSTS' = GINTSTS /\ bus' = bus /\ DIEPINT' = DIEPINT
      /\ UNCHANGED <<ep0_state, stage, req, rx, setup, DOEPINT, DAINTMSK>>
      /\ 0 \in DIEPEMPMSK' => 0 \in DIEPEMPMSK
  BY <1>1 DEF send_HID_report, IN_transfer_mask
<1>4. View0' = View0
  BY <1>2 DEF send_HID_report, View0
<1>5. CallsFollow
  BY <1>3, CallsSame
<1>6. (Ended => Ended') /\ (Arriving => Arriving')
  BY <1>3, <1>5, ArrivalKept
<1> QED
  BY <1>3, <1>4, <1>5, <1>6, ControlKept

\* The calls a snapshot adds.
LEMMA CallsAdded ==
  ASSUME TypeOK, ControlInv,
         USB_common_handler \/ IEP_interrupts \/ IEP_common_handler \/ OEP_interrupts \/ OEP_common_handler
           \/ USB_suspend_IRQ
  PROVE  CallsFollow
<1>1. CASE USB_common_handler
  <2>1. calls = {} /\ calls' = Raised \X {0} /\ GINTSTS' = GINTSTS
    BY <1>1 DEF USB_common_handler, coreVars
  <2>2. Raised \subseteq {"RXFLVL", "IEPINT", "OEPINT"} \cup GINTSTS /\ GINTSTS \subseteq Raised
        /\ GINTSTS \subseteq GlobalInts /\ ("OEPINT" \in Raised => DOEPINT # {})
    BY DEF Raised, TypeOK, CoreOK, GlobalInts
  <2>3. \A c \in {"STUP", "OUT_XFRC", "XFRC", "EPDISD", "TXFE", "OEP"} : <<c, 0>> \notin calls'
    BY <2>1, <2>2 DEF GlobalInts
  <2>4. \A c \in {"USBRST", "ENUMDNE"} : <<c, 0>> \in calls' <=> c \in GINTSTS
    BY <2>1, <2>2
  <2>5. NoRequest => <<"OEPINT", 0>> \notin calls'
    BY <2>1, <2>2 DEF NoRequest
  <2>6. NoRequest => calls' \cap OEPCalls = {}
    BY <2>3, <2>5 DEF OEPCalls
  <2> QED
    BY <2>1, <2>3, <2>4, <2>6 DEF CallsFollow, Due
<1> DEFINE Only(c, more) ==
      /\ c \in calls
      /\ \A d \in calls' : d \in calls \/ d \in more
      /\ \A d \in calls : d = c \/ d \in calls'
      /\ more \cap {<<"USBRST", 0>>, <<"ENUMDNE", 0>>} = {} /\ c \notin {<<"USBRST", 0>>, <<"ENUMDNE", 0>>}
<1>2. ASSUME NEW c, NEW more, Only(c, more), more \cap OEPCalls = {},
             {<<"XFRC", 0>>, <<"EPDISD", 0>>, <<"TXFE", 0>>} \cap more = {}
      PROVE  CallsFollow
  BY <1>2 DEF CallsFollow, NoRequest, OEPCalls, Due
<1>3. CASE IEP_interrupts
  <2> DEFINE more == {<<"IEP", n>> : n \in EpNum}
  <2>1. Only(<<"IEPINT", 0>>, more)
    BY <1>3 DEF IEP_interrupts, Calling
  <2>2. more \cap OEPCalls = {} /\ {<<"XFRC", 0>>, <<"EPDISD", 0>>, <<"TXFE", 0>>} \cap more = {}
    BY DEF OEPCalls
  <2> HIDE DEF more
  <2> QED
    BY <1>2, <2>1, <2>2
<1>4. CASE IEP_common_handler
  <2> PICK n \in EpNum : IEP_common_handler!(n)
    BY <1>4 DEF IEP_common_handler
  <2> DEFINE more == {<<"XFRC", n>>, <<"EPDISD", n>>, <<"TXFE", n>>}
  <2>1. ({"XFRC", "EPDISD"} \cap DIEPINT[n]) \X {n} \subseteq more
    OBVIOUS
  <2>2. Only(<<"IEP", n>>, more)
    BY <2>1 DEF Calling
  <2>3. CASE n # 0
    <3>1. more \cap OEPCalls = {} /\ {<<"XFRC", 0>>, <<"EPDISD", 0>>, <<"TXFE", 0>>} \cap more = {}
      BY <2>3 DEF OEPCalls
    <3> HIDE DEF more
    <3> QED
      BY <1>2, <2>2, <3>1
  <2>4. CASE n = 0
    <3>1. <<"USBRST", 0>> \notin calls
      <4>1. ASSUME <<"USBRST", 0>> \in calls PROVE FALSE
        <5>1. Order(<<"IEP", 0>>) <= Order(<<"USBRST", 0>>)
          BY <2>4, <4>1 DEF Calling
        <5>2. Order(<<"IEP", 0>>) = 6 /\ Order(<<"USBRST", 0>>) = 3
          BY DEF Order, IEPCalls, IEPOrder, GlobalOrder
        <5> QED
          BY <5>1, <5>2
      <4> QED
        BY <4>1
    <3>2. <<"EPDISD", 0>> \in calls' => <<"EPDISD", 0>> \in calls \/ "EPDISD" \in DIEPINT[0]
      BY <2>4
    <3>3. <<"XFRC", 0>> \in calls' => <<"XFRC", 0>> \in calls \/ "XFRC" \in DIEPINT[0]
      BY <2>4
    <3>4. <<"TXFE", 0>> \in calls' => <<"TXFE", 0>> \in calls \/ 0 \in DIEPEMPMSK
      BY <2>4
    <3>5. <<"USBRST", 0>> \notin calls'
      BY <2>2, <3>1
    <3>6. NoRequest => calls' \cap OEPCalls = {}
      BY <2>2 DEF NoRequest, OEPCalls
    <3> HIDE DEF more
    <3> QED
      BY <2>2, <3>2, <3>3, <3>4, <3>5, <3>6 DEF CallsFollow, Due, OEPCalls, more
  <2> QED
    BY <2>3, <2>4
<1>5. CASE USB_suspend_IRQ
  <2> DEFINE more == {<<"USBSUSP_ACK", 0>>}
  <2>1. Only(<<"USBSUSP", 0>>, more)
    BY <1>5 DEF USB_suspend_IRQ, Calling
  <2>2. more \cap OEPCalls = {} /\ {<<"XFRC", 0>>, <<"EPDISD", 0>>, <<"TXFE", 0>>} \cap more = {}
    BY DEF OEPCalls
  <2> HIDE DEF more
  <2> QED
    BY <1>2, <2>1, <2>2
<1>6. CASE OEP_interrupts
  <2>1. Only(<<"OEPINT", 0>>, {<<"OEP", 0>>})
    BY <1>6 DEF OEP_interrupts, Calling
  <2>2. ~NoRequest
    BY <2>1 DEF NoRequest, OEPCalls
  <2> QED
    BY <2>1, <2>2 DEF CallsFollow, Due
<1>7. CASE OEP_common_handler
  <2>1. /\ Only(<<"OEP", 0>>, {<<"OUT_XFRC", 0>>, <<"STUP", 0>>})
        /\ <<"STUP", 0>> \in calls' => <<"STUP", 0>> \in calls \/ "STUP" \in DOEPINT
        /\ <<"OUT_XFRC", 0>> \in calls' => <<"OUT_XFRC", 0>> \in calls \/ "XFRC" \in DOEPINT
    BY <1>7 DEF OEP_common_handler, Calling
  <2>2. ~NoRequest
    BY <2>1 DEF NoRequest, OEPCalls
  <2> QED
    BY <2>1, <2>2 DEF CallsFollow, Due
<1> QED
  BY <1>1, <1>3, <1>4, <1>5, <1>6, <1>7

\* The end of a reset opens EP0 and leaves its transfer as it was.
LEMMA Enumeration0 ==
  ASSUME TypeOK, USB_enumeration_done_IRQ
  PROVE  /\ Opened0' /\ SameTransfer(IN_ep'[0], IN_ep[0]) /\ IN_ep'[0].EPDIS = IN_ep[0].EPDIS
<1>1. 0 \in EpNum /\ IN_ep \in INTable
  BY DEF TypeOK, EndpointsOK, INTable, EpNum
<1> DEFINE closed == HID_deinit(IN_ep)
<1>2. closed \in INTable /\ closed[0] = IN_ep[0]
  BY <1>1, HIDTypes, HID0
<1>3. IN_ep' = [open_IEP(closed, 0, EP0_MPS) EXCEPT ![0].is_used = TRUE]
  BY DEF USB_enumeration_done_IRQ
<1> HIDE DEF closed
<1>4. IN_ep'[0] = [closed[0] EXCEPT !.mps = EP0_MPS, !.USBAEP = TRUE, !.is_used = TRUE]
  BY <1>1, <1>2, <1>3 DEF open_IEP, INTable, INEndpoint
<1> QED
  BY <1>1, <1>2, <1>4 DEF Opened0, SameTransfer, INTable, INEndpoint

LEMMA ControlReset ==
  ASSUME TypeOK, ControlInv, USB_reset_IRQ
  PROVE  ControlInv'
<1> USE DEF handleVars, controlVars, hostVars
<1>1. 0 \in EpNum /\ IN_ep \in INTable /\ OUT_ep \in OUTTable
  BY DEF TypeOK, EndpointsOK, INTable, OUTTable, EpNum
<1>2. /\ <<"USBRST", 0>> \in calls /\ calls' = calls \ {<<"USBRST", 0>>}
      /\ fifo'[0] = <<>> /\ DIEPINT'[0] = {} /\ DOEPINT' = {} /\ GINTSTS' = {}
      /\ {0, 16} \subseteq DAINTMSK'
      /\ UNCHANGED <<ep0_state, DIEPEMPMSK, rx, bus, stage, req>>
  BY <1>1 DEF USB_reset_IRQ, Calling, Done, flush_TX_FIFOS, Acknowledge
<1>3. /\ Same0(IN_ep'[0], IN_ep[0]) /\ SameTransfer(IN_ep'[0], IN_ep[0])
  BY <1>1 DEF USB_reset_IRQ, Same0, SameTransfer, INTable, INEndpoint
<1>4. stage = "idle"
  BY <1>2 DEF ControlInv, Busy
<1>5. Ended /\ Ended'
  BY <1>2, <1>4 DEF ControlInv, Arrival, Ended, Entry
<1>6. <<"XFRC", 0>> \notin calls
  BY <1>2 DEF ControlInv, Never
<1>7. Opened0' = Opened0 /\ Copied' = Copied /\ ~IN_ep'[0].EPDIS
  BY <1>3 DEF Opened0, Copied, Same0, SameTransfer, ControlInv, Never
<1>8. Unmasked' /\ Busy' /\ Never' /\ Arrival'
  BY <1>2, <1>4, <1>5, <1>6, <1>7 DEF ControlInv, Unmasked, Busy, Never, Arrival
<1>9. Opening'
  BY <1>2, <1>7 DEF ControlInv, Opening, Due
<1>10. Pending'
  BY <1>2, <1>4, <1>7 DEF ControlInv, Pending, Sending
<1>11. Completion' /\ StatusStage' /\ Armed' /\ Loaded' /\ DescriptorsServed'
  BY <1>2, <1>4 DEF Completion, StatusStage, Armed, Loaded, DescriptorsServed
<1> QED
  BY <1>8, <1>9, <1>10, <1>11 DEF ControlInv

LEMMA ControlEnumeration ==
  ASSUME TypeOK, ControlInv, USB_enumeration_done_IRQ
  PROVE  ControlInv'
<1> USE DEF handleVars, controlVars, hostVars
<1>1. /\ <<"ENUMDNE", 0>> \in calls /\ calls' = calls \ {<<"ENUMDNE", 0>>}
      /\ GINTSTS' = {} /\ ep0_state' = "IDLE" /\ DAINTMSK \subseteq DAINTMSK' \cup {HID_IEP}
      /\ UNCHANGED <<setup, DIEPEMPMSK, DIEPINT, DOEPINT, fifo, rx, bus, stage, req>>
  BY DEF USB_enumeration_done_IRQ, Calling, Done, Acknowledge, open_IEP_mask, open_OEP_mask,
     close_IEP_mask
<1>2. /\ Opened0' /\ SameTransfer(IN_ep'[0], IN_ep[0]) /\ IN_ep'[0].EPDIS = IN_ep[0].EPDIS
  BY Enumeration0
<1>3. stage = "idle"
  BY <1>1 DEF ControlInv, Busy
<1>4. Ended /\ Ended'
  BY <1>1, <1>3 DEF ControlInv, Arrival, Ended, Entry
<1>5. Copied' = Copied /\ IN_ep'[0].buffer = IN_ep[0].buffer
  BY <1>2 DEF Copied, SameTransfer
<1>6. Due("USBRST") => Due("USBRST")'
  BY <1>1 DEF Due
<1>7. Unmasked'
  BY <1>1, <1>6 DEF ControlInv, Unmasked, HID_IEP
<1>8. Opening' /\ Busy' /\ Arrival'
  BY <1>2, <1>3, <1>1, <1>4 DEF Opening, Busy, Arrival
<1>9. Never' /\ Completion'
  BY <1>1, <1>2, <1>3, <1>4 DEF ControlInv, Never, Completion
<1>10. Loaded'
  BY <1>1, <1>3, <1>5, <1>6 DEF ControlInv, Loaded, Sending
<1>11. Pending'
  BY <1>1, <1>3, <1>5 DEF ControlInv, Pending, Sending
<1>12. StatusStage' /\ Armed' /\ DescriptorsServed'
  BY <1>1, <1>3 DEF StatusStage, Armed, DescriptorsServed
<1> QED
  BY <1>7, <1>8, <1>9, <1>10, <1>11, <1>12 DEF ControlInv

\* The completion of a data stage prepares the status stage.
LEMMA ControlComplete ==
  ASSUME TypeOK, ControlInv, IEP_transfer_complete_IRQ
  PROVE  ControlInv'
<1> USE DEF handleVars, hostVars
<1>1. 0 \in EpNum /\ IN_ep \in INTable /\ OUT_ep \in OUTTable
      /\ DIEPINT \in [EpNum -> SUBSET {"XFRC", "EPDISD"}]
  BY DEF TypeOK, EndpointsOK, INTable, OUTTable, EpNum, CoreOK
<1> PICK n \in EpNum : IEP_transfer_complete_IRQ!(n)
  BY DEF IEP_transfer_complete_IRQ
<1> DEFINE c == <<"XFRC", n>>
<1>2. /\ c \in calls /\ Done(c)
      /\ DIEPINT' = [DIEPINT EXCEPT ![n] = {}]
      /\ UNCHANGED <<setup, DAINTMSK, GINTSTS, DOEPINT, fifo, rx, bus, stage, req>>
  BY DEF Calling
<1>3. CallsFollow
  BY <1>2, CallsDone
<1>4. (Ended => Ended') /\ (Arriving => Arriving')
  BY <1>2, <1>3, ArrivalKept
<1>5. ASSUME ~InDataStage(n), n # 0 \/ stage = "idle" PROVE ControlInv'
  <2>1. /\ UNCHANGED <<IN_ep, OUT_ep, ep0_state>> /\ DIEPEMPMSK' = DIEPEMPMSK \ {n}
    BY <1>5
  <2>2. View0' = View0
    BY <1>2, <2>1 DEF View0
  <2>3. \/ DIEPINT'[0] = DIEPINT[0]
        \/ DIEPINT'[0] = {} /\ stage = "idle" /\ <<"XFRC", 0>> \notin calls'
    BY <1>1, <1>2, <1>5 DEF Done
  <2> QED
    BY <1>2, <1>3, <1>4, <2>1, <2>2, <2>3, ControlKept
<1>6. CASE n # 0
  BY <1>5, <1>6 DEF InDataStage
<1>7. CASE n = 0
  <2>1. /\ DIEPINT[0] # {} /\ DIEPINT'[0] = {} /\ <<"USBRST", 0>> \notin calls
    BY <1>1, <1>2, <1>7 DEF ControlInv, Never
  <2>2. Ended /\ Ended'
    BY <1>4, <2>1 DEF ControlInv, Completion
  <2>3. CASE stage = "idle" /\ ep0_state # "DATA_IN"
    BY <1>5, <2>3 DEF InDataStage
  <2>4. CASE stage = "status_out" /\ ep0_state = "DATA_IN"
    <3>1. Copied /\ ~OUT_ep[0].STALL /\ Opened0 /\ bus = "active"
      BY <2>4 DEF ControlInv, StatusStage, Busy
    <3>2. ~Sending
      BY <2>4 DEF Sending
    <3>3. InDataStage(n)
      BY <1>7, <2>4 DEF InDataStage
    <3>4. /\ IN_ep[0].size - IN_ep[0].count = 0 /\ IN_ep[0].mps = 64
      BY <1>1, <3>1, Table0 DEF Copied, Opened0, EP0_MPS
    <3>5. /\ OUT_ep' = OUT_transfer(OUT_ep, 0) /\ IN_ep' = stall_IEP(IN_ep, 0)
          /\ DIEPEMPMSK' = DIEPEMPMSK \ {0} /\ ep0_state' = "STATUS_OUT"
      BY <3>3, <3>4
    <3>6. /\ Flagged(IN_ep'[0], IN_ep[0], TRUE)
          /\ OUT_ep'[0].EPENA = TRUE /\ OUT_ep'[0].STALL = OUT_ep[0].STALL
      BY <1>1, <3>5, Stall0, Out0
    <3>7. Opened0' /\ Copied' /\ ~IN_ep'[0].EPDIS
      BY <3>1, <3>6 DEF Opened0, Copied, Flagged, Same0, SameTransfer, ControlInv, Never
    <3>8. fifo[0] = <<>>
      BY <3>1, <3>2 DEF ControlInv, Loaded
    <3>9. calls' = calls \ {<<"XFRC", 0>>}
      BY <1>2, <1>7 DEF Done
    <3>10. Unmasked' /\ Opening' /\ Busy'
      BY <1>2, <2>4, <3>7, <3>9 DEF ControlInv, Unmasked, Opening, Busy
    <3>11. Never' /\ Arrival' /\ Completion'
      BY <1>2, <2>1, <2>2, <2>4, <3>5, <3>7, <3>9 DEF ControlInv, Never, Arrival, Completion
    <3>12. StatusStage' /\ Armed' /\ Loaded' /\ Pending' /\ DescriptorsServed'
      BY <1>2, <2>2, <2>4, <3>1, <3>5, <3>6, <3>7, <3>8
         DEF StatusStage, Armed, Loaded, Pending, DescriptorsServed
    <3> QED
      BY <3>10, <3>11, <3>12 DEF ControlInv
  <2> QED
    BY <2>1, <2>3, <2>4 DEF ControlInv, Completion
<1> QED
  BY <1>6, <1>7

\* The transfer is copied into an empty FIFO.
LEMMA ControlCopied ==
  ASSUME TypeOK, ControlInv, IEP_FIFO_empty_IRQ
  PROVE  ControlInv'
<1> USE DEF handleVars, controlVars, hostVars
<1>1. 0 \in EpNum /\ IN_ep \in INTable /\ OUT_ep \in OUTTable
      /\ fifo \in [EpNum -> Seq(Buffers)]
  BY DEF TypeOK, EndpointsOK, INTable, OUTTable, EpNum, CoreOK
<1> PICK n \in EpNum : IEP_FIFO_empty_IRQ!(n)
  BY DEF IEP_FIFO_empty_IRQ
<1> DEFINE c == <<"TXFE", n>>
           copies == IN_ep[n].count < IN_ep[n].size /\ FifoEmpty(n)
<1>2. /\ c \in calls /\ Done(c)
      /\ fifo' = IF copies THEN [fifo EXCEPT ![n] = Append(@, IN_ep[n].buffer)] ELSE fifo
      /\ IN_ep' = IF copies THEN [IN_ep EXCEPT ![n].count = IN_ep[n].size] ELSE IN_ep
      /\ DIEPEMPMSK' = IF copies \/ IN_ep[n].size <= IN_ep[n].count THEN DIEPEMPMSK \ {n} ELSE DIEPEMPMSK
      /\ UNCHANGED <<setup, ep0_state, OUT_ep, DAINTMSK, GINTSTS, DIEPINT, DOEPINT, rx, bus, stage, req>>
  BY DEF Calling
<1>3. CallsFollow
  BY <1>2, CallsDone
<1>4. (Ended => Ended') /\ (Arriving => Arriving')
  BY <1>2, <1>3, ArrivalKept
<1>5. ASSUME n # 0 \/ ~copies PROVE ControlInv'
  <2>1. IN_ep'[0] = IN_ep[0] /\ fifo'[0] = fifo[0]
    BY <1>1, <1>2, <1>5 DEF INTable
  <2>2. View0' = View0
    BY <1>2, <2>1 DEF View0
  <2>3. 0 \in DIEPEMPMSK' => 0 \in DIEPEMPMSK
    BY <1>2
  <2> HIDE DEF copies
  <2> QED
    BY <1>2, <1>3, <1>4, <2>2, <2>3, ControlKept
<1>6. CASE n = 0 /\ copies
  <2>1. IN_ep[0].count # IN_ep[0].size
    BY <1>1, <1>6, Table0
  <2>2. Sending /\ fifo[0] = <<>> /\ bus # "off"
    BY <1>2, <1>6, <2>1 DEF ControlInv, Pending, Copied
  <2>3. /\ fifo'[0] = <<IN_ep[0].buffer>>
        /\ DIEPEMPMSK' = DIEPEMPMSK \ {0} /\ calls' = calls \ {<<"TXFE", 0>>}
    BY <1>1, <1>2, <1>6, <2>2 DEF Done
  <2>4. IN_ep'[0] = [IN_ep[0] EXCEPT !.count = IN_ep[0].size]
    BY <1>1, <1>2, <1>6 DEF INTable
  <2>5. /\ Same0(IN_ep'[0], IN_ep[0]) /\ IN_ep'[0].EPENA = IN_ep[0].EPENA
        /\ IN_ep'[0].STALL = IN_ep[0].STALL /\ IN_ep'[0].buffer = IN_ep[0].buffer
        /\ IN_ep'[0].size = IN_ep[0].size /\ IN_ep'[0].count = IN_ep[0].size
    BY <1>1, <2>4 DEF Same0, INTable, INEndpoint
  <2>6. Opened0' = Opened0 /\ Copied' /\ Sending' /\ Ended' /\ IN_ep'[0].EPDIS = IN_ep[0].EPDIS
    BY <1>2, <1>4, <2>2, <2>5 DEF Opened0, Copied, Same0, Sending
  <2>7. Unmasked' /\ Opening' /\ Busy' /\ Never' /\ Arrival'
    BY <1>2, <1>3, <2>3, <2>6 DEF ControlInv, Unmasked, Opening, Busy, Never, Arrival, CallsFollow
  <2>8. Completion' /\ StatusStage'
    BY <1>2, <2>2, <2>6 DEF ControlInv, Completion, StatusStage, Sending
  <2>9. Armed' /\ DescriptorsServed'
    BY <1>2, <2>5 DEF ControlInv, Armed, DescriptorsServed
  <2>10. Loaded' /\ Pending'
    BY <2>3, <2>5, <2>6 DEF Loaded, Pending
  <2> QED
    BY <2>7, <2>8, <2>9, <2>10 DEF ControlInv
<1> QED
  BY <1>5, <1>6

\* The host keeps to the requests of the standards.
RegularRequests == \A h \in Requests : Regular(h)

\* When a setup stage is acted upon, the transfer before it has left nothing behind.
LEMMA SetupOutcome ==
  ASSUME TypeOK, ControlInv, RegularRequests, OEP_setup_done
  PROVE  /\ ~Ended /\ Clear /\ Opened0 /\ bus = "active" /\ stage = FirstStage(req)
         /\ rx = <<>> /\ DIEPINT[0] = {} /\ fifo[0] = <<>>
         /\ 0 \in DIEPEMPMSK \/ <<"TXFE", 0>> \in calls => Copied
         /\ req \in Header /\ Outcome(req) /\ DAINTMSK \subseteq DAINTMSK' \cup {HID_IEP}
         /\ <<"STUP", 0>> \in calls /\ calls' = calls \ {<<"STUP", 0>>} /\ DOEPINT' = {}
         /\ UNCHANGED <<setup, GINTSTS, DIEPINT, fifo, rx, bus, stage, req>>
<1>1. /\ <<"STUP", 0>> \in calls /\ calls' = calls \ {<<"STUP", 0>>} /\ DOEPINT' = {}
      /\ UNCHANGED <<setup, GINTSTS, DIEPINT, fifo, rx, bus, stage, req>>
  BY DEF OEP_setup_done, Calling, Done, hostVars
<1>2. ~Ended /\ ~NoRequest
  BY <1>1 DEF Ended, NoRequest, OEPCalls
<1>3. /\ rx = <<>> /\ setup = req /\ stage # "idle" /\ stage = FirstStage(req) /\ Clear
  BY <1>2 DEF ControlInv, Arrival, Arriving
<1>4. Opened0 /\ bus = "active"
  BY <1>3 DEF ControlInv, Busy
<1>5. DIEPINT[0] = {} /\ ~Sending
  BY <1>2 DEF ControlInv, Completion, Sending
<1>6. fifo[0] = <<>> /\ (0 \in DIEPEMPMSK \/ <<"TXFE", 0>> \in calls => Copied)
  BY <1>4, <1>5 DEF ControlInv, Loaded, Pending
<1>7. req \in Packets /\ Regular(req)
  <2>1. Regular(ZeroHeader)
    BY DEF Regular, ZeroHeader
  <2> QED
    BY <2>1 DEF TypeOK, HostOK, Packets, RegularRequests
<1>8. DeviceRequest(req) \/ InterfaceRequest(req) \/ EndpointRequest(req) \/ OtherRequest(req)
  BY <1>3, Zenon DEF OEP_setup_done
<1>9. Outcome(req) /\ DAINTMSK \subseteq DAINTMSK' \cup {HID_IEP}
  BY <1>3, <1>4, <1>7, <1>8, RequestOutcome
<1> QED
  BY <1>1, <1>2, <1>3, <1>4, <1>5, <1>6, <1>7, <1>9, PacketsAreHeaders

LEMMA ControlSetup ==
  ASSUME TypeOK, ControlInv, RegularRequests, OEP_setup_done
  PROVE  ControlInv'
<1>1. /\ ~Ended /\ Clear /\ Opened0 /\ bus = "active" /\ stage = FirstStage(req)
      /\ rx = <<>> /\ DIEPINT[0] = {} /\ fifo[0] = <<>>
      /\ 0 \in DIEPEMPMSK \/ <<"TXFE", 0>> \in calls => Copied
      /\ req \in Header /\ Outcome(req) /\ DAINTMSK \subseteq DAINTMSK' \cup {HID_IEP}
      /\ <<"STUP", 0>> \in calls /\ calls' = calls \ {<<"STUP", 0>>} /\ DOEPINT' = {}
      /\ UNCHANGED <<setup, GINTSTS, DIEPINT, fifo, rx, bus, stage, req>>
  BY SetupOutcome
<1>2. Ended'
  BY <1>1 DEF Ended
<1>3. /\ stage' \in {"data_in", "data_out", "status_in"}
      /\ (stage' = "status_in" <=> req.length = 0)
      /\ (stage' = "data_in" <=> req.length # 0 /\ req.direction = "IN")
  BY <1>1, Stages0
<1>4. /\ Same0(IN_ep'[0], IN_ep[0]) /\ OUT_ep'[0].EPENA = OUT_ep[0].EPENA
      /\ DataSent(req) \/ StatusSent(req) \/ NothingSent(req)
  BY <1>1 DEF Outcome
<1>5. Opened0' /\ ~IN_ep'[0].EPDIS
  BY <1>1, <1>4 DEF Opened0, Same0, ControlInv, Never
<1>6. ep0_state' # "DATA_OUT"
  BY <1>4 DEF DataSent, StatusSent, NothingSent
<1>7. Unmasked' /\ Opening' /\ Busy' /\ Never' /\ Arrival'
  BY <1>1, <1>2, <1>5, <1>6 DEF ControlInv, Unmasked, Opening, Busy, Never, Arrival, HID_IEP
<1>8. Completion' /\ StatusStage' /\ Loaded'
  BY <1>1, <1>3 DEF Completion, StatusStage, Loaded
<1>9. CASE DataSent(req)
  <2>1. /\ stage' = "data_in" /\ ep0_state' = "DATA_IN" /\ IN_ep'[0].EPENA /\ ~IN_ep'[0].STALL
        /\ ~OUT_ep'[0].STALL /\ ~OUT_ep'[0].EPENA /\ IN_ep'[0].size # 0
    BY <1>1, <1>3, <1>4, <1>9 DEF DataSent, Clear
  <2>2. Sending' /\ Armed' /\ DescriptorsServed'
    BY <1>2, <2>1 DEF Sending, Armed, DescriptorsServed
  <2>3. Pending'
    BY <1>1, <2>2 DEF Pending
  <2> QED
    BY <1>7, <1>8, <2>2, <2>3 DEF ControlInv
<1>10. CASE StatusSent(req)
  <2>1. stage' = "status_in" /\ ep0_state' = "STATUS_IN" /\ Copied'
    BY <1>3, <1>10 DEF StatusSent, Copied
  <2>2. Armed' /\ DescriptorsServed' /\ Pending'
    BY <1>1, <2>1 DEF Armed, DescriptorsServed, Pending
  <2> QED
    BY <1>7, <1>8, <2>2 DEF ControlInv
<1>11. CASE NothingSent(req)
  <2>1. /\ ~IN_ep'[0].EPENA /\ Copied' = Copied
        /\ 0 \in DIEPEMPMSK' => 0 \in DIEPEMPMSK
    BY <1>1, <1>11 DEF NothingSent, SameTransfer, Copied, Clear
  <2>2. Armed' /\ Pending'
    BY <1>1, <2>1 DEF Armed, Pending
  <2>3. DescriptorsServed'
    BY <1>1, <1>11 DEF DescriptorsServed, NothingSent, Wanted
  <2> QED
    BY <1>7, <1>8, <2>2, <2>3 DEF ControlInv
<1> QED
  BY <1>4, <1>9, <1>10, <1>11

\* An entry of the receive FIFO goes on to the next place of its setup stage.
LEMMA Received0 ==
  ASSUME TypeOK, PacketWaits, ControlInv, USB_receive_packet_IRQ
  PROVE  (Ended => Ended') /\ (Arriving => Arriving')
<1>1. /\ <<"RXFLVL", 0>> \in calls /\ calls' = calls \ {<<"RXFLVL", 0>>}
      /\ rx' = Tail(rx)
      /\ setup' = IF Head(rx).status = "SETUP" THEN Head(rx).packet ELSE setup
      /\ Head(rx).status = "SETUP_DONE" => DOEPINT' = DOEPINT \cup {"STUP"}
      /\ Head(rx).status = "OUT_DONE" => DOEPINT' = DOEPINT \cup {"XFRC"}
      /\ Head(rx).status = "SETUP" => DOEPINT' = DOEPINT
      /\ UNCHANGED <<stage, req>>
  BY DEF USB_receive_packet_IRQ, Calling, Done, hostVars
<1>2. rx # <<>>
  BY <1>1 DEF PacketWaits
<1>3. ASSUME Ended PROVE Ended'
  <2>1. rx = <<Entry("OUT_DONE")>>
    BY <1>2, <1>3 DEF Ended
  <2>2. Head(rx).status = "OUT_DONE" /\ rx' = <<>>
    BY <1>1, <2>1 DEF Entry
  <2> QED
    BY <1>1, <1>3, <2>2 DEF Ended
<1>4. NoRequest => calls' \cap OEPCalls = {} /\ DOEPINT = {}
  BY <1>1 DEF NoRequest
<1>5. CASE rx = <<Entry("SETUP"), Entry("SETUP_DONE")>> /\ NoRequest
  <2>1. Head(rx) = Entry("SETUP") /\ rx' = <<Entry("SETUP_DONE")>>
    BY <1>1, <1>5
  <2>2. Entry("SETUP").status = "SETUP" /\ Entry("SETUP").packet = req
    BY DEF Entry
  <2>3. setup' = req /\ DOEPINT' = {}
    BY <1>1, <1>4, <1>5, <2>1, <2>2
  <2> QED
    BY <1>1, <1>3, <1>4, <1>5, <2>1, <2>3 DEF Arriving, NoRequest, Entry
<1>6. CASE rx = <<Entry("SETUP_DONE")>> /\ NoRequest /\ setup = req
  <2>1. Head(rx) = Entry("SETUP_DONE") /\ rx' = <<>>
    BY <1>1, <1>6
  <2>2. Entry("SETUP_DONE").status = "SETUP_DONE"
    BY DEF Entry
  <2>3. setup' = req /\ DOEPINT' = {"STUP"}
    BY <1>1, <1>4, <1>6, <2>1, <2>2
  <2>4. <<"OUT_XFRC", 0>> \notin calls'
    BY <1>4, <1>6 DEF OEPCalls
  <2> QED
    BY <1>1, <1>3, <2>1, <2>3, <2>4 DEF Arriving
<1> QED
  BY <1>2, <1>3, <1>5, <1>6 DEF Arriving

LEMMA ControlDriver ==
  ASSUME TypeOK, PacketWaits, ControlInv, RegularRequests, Driver
  PROVE  ControlInv'
<1> USE DEF handleVars, controlVars, epVars, coreVars, hostVars
<1>1. 0 \in EpNum /\ DIEPINT \in [EpNum -> SUBSET {"XFRC", "EPDISD"}]
      /\ fifo \in [EpNum -> Seq(Buffers)]
  BY DEF TypeOK, EpNum, CoreOK
\* The calls that leave EP0 alone.
<1>2. ASSUME CallsFollow, View0' = View0, DIEPINT'[0] = DIEPINT[0],
             (GINTSTS' = GINTSTS) \/ (GINTSTS' = {}),
             UNCHANGED <<ep0_state, stage, req, bus, rx, setup, DOEPINT, DAINTMSK, DIEPEMPMSK>>
      PROVE  ControlInv'
  <2>1. (Ended => Ended') /\ (Arriving => Arriving')
    BY <1>2, ArrivalKept
  <2> QED
    BY <1>2, <2>1, ControlKept
<1>3. CASE USB_common_handler \/ IEP_interrupts \/ IEP_common_handler \/ OEP_interrupts \/ OEP_common_handler
             \/ USB_suspend_IRQ
  <2>1. CallsFollow
    BY <1>3, CallsAdded
  <2>2. UNCHANGED <<controlVars, epVars, coreVars, hostVars>>
    BY <1>3 DEF USB_common_handler, IEP_interrupts, IEP_common_handler, OEP_interrupts,
       OEP_common_handler, USB_suspend_IRQ
  <2>3. View0' = View0
    BY <2>2 DEF View0
  <2> QED
    BY <1>2, <2>1, <2>2, <2>3
<1>4. CASE USB_suspend_acknowledge \/ USB_wake_up_IRQ
  <2>1. \E c \in calls : c \notin {<<"USBRST", 0>>, <<"ENUMDNE", 0>>} /\ Done(c)
    BY <1>4 DEF USB_suspend_acknowledge, USB_wake_up_IRQ, Calling
  <2>2. CallsFollow
    BY <2>1, CallsDone
  <2>3. GINTSTS' = {} /\ UNCHANGED <<controlVars, epVars, hostVars, DIEPINT, DOEPINT, fifo, rx>>
    BY <1>4 DEF USB_suspend_acknowledge, USB_wake_up_IRQ, Acknowledge
  <2>4. View0' = View0
    BY <2>3 DEF View0
  <2> QED
    BY <1>2, <2>2, <2>3, <2>4
<1>5. CASE USB_receive_packet_IRQ
  <2>1. <<"RXFLVL", 0>> \in calls /\ Done(<<"RXFLVL", 0>>)
        /\ UNCHANGED <<ep0_state, epVars, hostVars, GINTSTS, DIEPINT, fifo>>
    BY <1>5 DEF USB_receive_packet_IRQ, Calling
  <2>2. CallsFollow
    BY <2>1, CallsDone
  <2>3. View0' = View0
    BY <2>1 DEF View0
  <2>4. (Ended => Ended') /\ (Arriving => Arriving')
    BY <1>5, Received0
  <2> QED
    BY <2>1, <2>2, <2>3, <2>4, ControlKept
<1>6. CASE IEP_disabled_IRQ
  <2> PICK n \in EpNum : IEP_disabled_IRQ!(n)
    BY <1>6 DEF IEP_disabled_IRQ
  <2>1. n # 0
    BY DEF Calling, ControlInv, Never
  <2>2. CallsFollow
    <3>1. <<"EPDISD", n>> \in calls /\ Done(<<"EPDISD", n>>)
      BY DEF Calling
    <3> QED
      BY <3>1, CallsDone
  <2>3. DIEPINT'[0] = DIEPINT[0] /\ fifo'[0] = fifo[0]
        /\ UNCHANGED <<controlVars, epVars, hostVars, GINTSTS, DOEPINT, rx>>
    BY <1>1, <2>1 DEF flush_TX_FIFO
  <2>4. View0' = View0
    BY <2>3 DEF View0
  <2> QED
    BY <1>2, <2>2, <2>3, <2>4
<1>7. CASE OEP_transfer_complete
  <2>1. /\ <<"OUT_XFRC", 0>> \in calls /\ Done(<<"OUT_XFRC", 0>>) /\ DOEPINT' = {}
        /\ UNCHANGED <<setup, OUT_ep, DAINTMSK, DIEPEMPMSK, hostVars, GINTSTS, DIEPINT, fifo, rx>>
    BY <1>7 DEF OEP_transfer_complete, Calling
  <2>2. UNCHANGED <<ep0_state, IN_ep>>
    BY <1>7 DEF OEP_transfer_complete, ControlInv, Never
  <2>3. CallsFollow
    BY <2>1, CallsDone
  <2>4. View0' = View0
    BY <2>1, <2>2 DEF View0
  <2>5. ~Arriving
    BY <2>1 DEF Arriving, NoRequest, OEPCalls
  <2>6. Ended => Ended'
    BY <2>1 DEF Ended, Entry, Done
  <2> QED
    BY <2>1, <2>2, <2>3, <2>4, <2>5, <2>6, ControlKept
<1> QED
  BY <1>3, <1>4, <1>5, <1>6, <1>7, ControlReset, ControlEnumeration, ControlComplete, ControlCopied,
     ControlSetup DEF Driver

LEMMA ControlStep ==
  ASSUME Patient, RegularRequests, TypeOK, PacketWaits, ControlInv, [Next]_vars
  PROVE  ControlInv'
<1>1. CASE UNCHANGED vars
  <2>1. /\ calls' = calls /\ GINTSTS' = GINTSTS
        /\ UNCHANGED <<ep0_state, stage, req, bus, rx, setup, DOEPINT, DAINTMSK, DIEPEMPMSK, DIEPINT>>
    BY <1>1 DEF vars, handleVars, controlVars, epVars, coreVars, hostVars
  <2>2. View0' = View0
    BY <1>1 DEF vars, epVars, coreVars, View0
  <2>3. CallsFollow
    BY <2>1, CallsSame
  <2>4. (Ended => Ended') /\ (Arriving => Arriving')
    BY <2>1, <2>3, ArrivalKept
  <2> QED
    BY <2>1, <2>2, <2>3, <2>4, ControlKept
<1> QED
  BY <1>1, ControlBusEvent, ControlCore, ControlDriver, ControlReport DEF Next

\* The control transfers of EP0 and the driver's part in them agree, for every set
\* of requests of the standards.
THEOREM ControlCorrect == ASSUME Patient, RegularRequests PROVE Spec => []ControlInv
<1>1. Init => TypeOK /\ PacketWaits /\ ControlInv
  BY TypeInit, ControlInit DEF Init, PacketWaits
<1>2. TypeOK /\ PacketWaits /\ ControlInv /\ [Next]_vars => ControlInv'
  BY ControlStep
<1>3. Spec => []TypeOK /\ []PacketWaits
  BY TypeCorrect
<1> QED
  BY <1>1, <1>2, <1>3, PTL DEF Spec

\* A control read of a descriptor the device has is never refused.
THEOREM DescriptorsAlwaysServed == ASSUME Patient, RegularRequests PROVE Spec => []DescriptorsServed
<1>1. ControlInv => DescriptorsServed
  BY DEF ControlInv
<1> QED
  BY <1>1, ControlCorrect, PTL

-----------------------------------------------------------------------------
(* Every request is replied to. *)

DataReplied ==
  /\ ep0_state = "DATA_IN" /\ IN_ep[0].EPENA /\ ~IN_ep[0].STALL
  /\ IN_ep[0].size \in 1..EP0_MPS /\ IN_ep[0].size <= req.length
  /\ IN_ep[0].buffer \in Asked(req)
  /\ IF Copied THEN fifo[0] # <<>> ELSE IN_ep[0].count = 0 /\ 0 \in DIEPEMPMSK
StatusReplied == ep0_state = "STATUS_IN" /\ IN_ep[0].EPENA /\ IN_ep[0].size = 0
Refused == ep0_state = "SETUP" /\ ~IN_ep[0].EPENA /\ (Stalled \/ Unanswered(req))

\* Once the setup stage has been acted upon, EP0 holds the reply.
Replied ==
  Ended =>
    /\ stage = "data_in" => DataReplied \/ Refused
    /\ stage = "data_out" => Refused
    /\ stage = "status_in" => StatusReplied \/ Refused

\* A step that leaves EP0 alone and does not end a setup stage.
LEMMA RepliedKept ==
  ASSUME Replied, View0' = View0, UNCHANGED <<ep0_state, stage, req>>,
         0 \in DIEPEMPMSK => 0 \in DIEPEMPMSK', Ended' => Ended
  PROVE  Replied'
<1>1. /\ Copied' = Copied
      /\ IN_ep'[0].EPENA = IN_ep[0].EPENA /\ IN_ep'[0].STALL = IN_ep[0].STALL
      /\ IN_ep'[0].size = IN_ep[0].size /\ IN_ep'[0].count = IN_ep[0].count
      /\ IN_ep'[0].buffer = IN_ep[0].buffer
      /\ OUT_ep'[0].STALL = OUT_ep[0].STALL /\ fifo'[0] = fifo[0]
  BY DEF View0, Copied
<1>2. DataReplied => DataReplied'
  BY <1>1 DEF DataReplied, Asked, DeviceDescriptor, HIDDescriptor
<1>3. StatusReplied => StatusReplied'
  BY <1>1 DEF StatusReplied
<1>4. Stalled => Stalled'
  BY <1>1 DEF Stalled
<1>5. Unanswered(req) => Unanswered(req)'
  BY DEF Unanswered, FirstStage, HID_setup
<1>6. Refused => Refused'
  BY <1>1, <1>4, <1>5 DEF Refused
<1> QED
  BY <1>2, <1>3, <1>6 DEF Replied

\* A setup stage that is on its way stays so.
LEMMA EndedKept ==
  ASSUME UNCHANGED <<rx, stage, req, DOEPINT>>, <<"STUP", 0>> \in calls => <<"STUP", 0>> \in calls'
  PROVE  Ended' => Ended
BY DEF Ended, Entry

\* A stage that is over, or has only begun, needs no reply.
LEMMA RepliedElsewhere ==
  ASSUME stage' \in {"idle", "status_out"} \/ ~Ended'
  PROVE  Replied'
BY DEF Replied

\* What the host and the core do: a new request, or the end of a stage.
LEMMA RepliedBus ==
  ASSUME TypeOK, ControlInv, Replied, BusEvent
  PROVE  Replied'
<1> USE DEF driverVars, controlVars, epVars
<1>1. CASE BusReset
  BY <1>1, RepliedElsewhere DEF BusReset
<1>2. CASE Enumerated \/ BusSuspend \/ BusResume
  <2>1. bus # "active" \/ stage = "idle"
    BY <1>2 DEF Enumerated, BusSuspend, BusResume
  <2>2. stage' = "idle"
    BY <1>2, <2>1 DEF ControlInv, Busy, Enumerated, BusSuspend, BusResume
  <2> QED
    BY <2>2, RepliedElsewhere
<1>3. CASE HostSetup
  <2>1. PICK h \in Requests :
          /\ rx' = rx \o <<[status |-> "SETUP", packet |-> h], [status |-> "SETUP_DONE", packet |-> h]>>
          /\ stage' = FirstStage(h)
    BY <1>3 DEF HostSetup
  <2>2. rx \in Seq(RxEntries) /\ h \in Packets
    BY DEF TypeOK, CoreOK, Packets
  <2>3. rx' # <<>> /\ stage' # "idle"
    BY <2>1, <2>2 DEF FirstStage, RxEntries
  <2>4. ~Ended'
    BY <2>3 DEF Ended
  <2> QED
    BY <2>4, RepliedElsewhere
<1> QED
  BY <1>1, <1>2, <1>3 DEF BusEvent

LEMMA RepliedCore ==
  ASSUME TypeOK, ControlInv, Replied, Core
  PROVE  Replied'
<1> USE DEF driverVars, controlVars, epVars, coreVars, hostVars
<1>1. 0 \in EpNum /\ 1 \in EpNum /\ IN_ep \in INTable
      /\ DIEPINT \in [EpNum -> SUBSET {"XFRC", "EPDISD"}]
  BY DEF TypeOK, EndpointsOK, INTable, EpNum, CoreOK
<1>2. CASE HostReadsData \/ HostReadsStatus \/ HostSendsStatus \/ HostSeesStall \/ HostAborts
  <2>1. stage' \in {"idle", "status_out"}
    BY <1>2 DEF HostReadsData, HostReadsStatus, HostSendsStatus, HostSeesStall, HostAborts
  <2> QED
    BY <2>1, RepliedElsewhere
<1>3. CASE HostReadsReport
  <2>1. Send(1) /\ UNCHANGED stage
    BY <1>3 DEF HostReadsReport
  <2>2. /\ IN_ep'[0] = IN_ep[0] /\ fifo'[0] = fifo[0]
        /\ UNCHANGED <<ep0_state, setup, OUT_ep, DAINTMSK, DIEPEMPMSK, calls,
                       GINTSTS, DOEPINT, rx, bus, req>>
    BY <1>1, <2>1, Sent0
  <2>3. View0' = View0
    BY <2>2 DEF View0
  <2>4. Ended' => Ended
    BY <2>1, <2>2, EndedKept
  <2> QED
    BY <2>1, <2>2, <2>3, <2>4, RepliedKept
<1>4. CASE EndpointDisabled
  <2> PICK n \in EpNum : EndpointDisabled!(n)
    BY <1>4 DEF EndpointDisabled
  <2>1. n # 0
    BY DEF ControlInv, Never
  <2>2. IN_ep'[0] = IN_ep[0]
    BY <1>1, <2>1 DEF INTable
  <2>3. View0' = View0
    BY <2>2 DEF View0
  <2>4. Ended' => Ended
    BY EndedKept
  <2> QED
    BY <2>3, <2>4, RepliedKept
<1> QED
  BY <1>2, <1>3, <1>4 DEF Core

LEMMA RepliedReport ==
  ASSUME TypeOK, Replied, send_HID_report
  PROVE  Replied'
<1> USE DEF handleVars, controlVars, coreVars, hostVars
<1>1. HID_IEP # 0 /\ 0 \in EpNum /\ IN_ep \in INTable
  BY DEF HID_IEP, TypeOK, EndpointsOK, INTable, EpNum
<1>2. IN_ep'[0] = IN_ep[0]
  BY <1>1 DEF send_HID_report, IN_transfer, INTable
<1>3. View0' = View0
  BY <1>2 DEF send_HID_report, View0
<1>4. 0 \in DIEPEMPMSK => 0 \in DIEPEMPMSK'
  BY DEF send_HID_report, IN_transfer_mask
<1>5. Ended' => Ended
  BY EndedKept DEF send_HID_report
<1> QED
  BY <1>3, <1>4, <1>5, RepliedKept DEF send_HID_report

\* The handler of the setup stage leaves the reply on EP0.
LEMMA RepliedSetup ==
  ASSUME TypeOK, ControlInv, RegularRequests, OEP_setup_done
  PROVE  Replied'
<1>1. /\ Clear /\ stage = FirstStage(req) /\ req \in Header /\ Outcome(req)
      /\ UNCHANGED <<stage, req>>
  BY SetupOutcome
<1>2. /\ stage' \in {"data_in", "data_out", "status_in"}
      /\ (stage' = "status_in" <=> req.length = 0)
      /\ (stage' = "data_in" <=> req.length # 0 /\ req.direction = "IN")
  BY <1>1, Stages0
<1>3. Asked(req)' = Asked(req) /\ (Unanswered(req) => Unanswered(req)')
  BY <1>1 DEF Asked, DeviceDescriptor, HIDDescriptor, Unanswered, FirstStage, HID_setup
<1>4. CASE DataSent(req)
  <2>1. Copied' => IN_ep'[0].size = 0
    BY <1>4 DEF DataSent, Copied
  <2>2. stage' = "data_in" /\ DataReplied'
    BY <1>1, <1>2, <1>3, <1>4, <2>1 DEF DataSent, DataReplied
  <2> QED
    BY <2>2 DEF Replied
<1>5. CASE StatusSent(req)
  <2>1. stage' = "status_in" /\ StatusReplied'
    BY <1>2, <1>5 DEF StatusSent, StatusReplied
  <2> QED
    BY <2>1 DEF Replied
<1>6. CASE NothingSent(req)
  <2>1. ~IN_ep'[0].EPENA /\ ep0_state' = "SETUP"
    BY <1>1, <1>6 DEF NothingSent, SameTransfer, Clear
  <2>2. Stalled' \/ Unanswered(req)'
    BY <1>1, <1>2, <1>3, <1>6 DEF NothingSent, Stalled
  <2>3. Refused'
    BY <2>1, <2>2 DEF Refused
  <2> QED
    BY <1>2, <2>3 DEF Replied
<1> QED
  BY <1>1, <1>4, <1>5, <1>6 DEF Outcome

\* The data of the reply reach the FIFO.
LEMMA RepliedCopied ==
  ASSUME TypeOK, ControlInv, Replied, IEP_FIFO_empty_IRQ
  PROVE  Replied'
<1> USE DEF handleVars, controlVars, hostVars
<1>1. 0 \in EpNum /\ IN_ep \in INTable /\ OUT_ep \in OUTTable
      /\ fifo \in [EpNum -> Seq(Buffers)]
  BY DEF TypeOK, EndpointsOK, INTable, OUTTable, EpNum, CoreOK
<1> PICK n \in EpNum : IEP_FIFO_empty_IRQ!(n)
  BY DEF IEP_FIFO_empty_IRQ
<1> DEFINE copies == IN_ep[n].count < IN_ep[n].size /\ FifoEmpty(n)
<1>2. /\ Done(<<"TXFE", n>>) /\ <<"TXFE", n>> \in calls
      /\ fifo' = IF copies THEN [fifo EXCEPT ![n] = Append(@, IN_ep[n].buffer)] ELSE fifo
      /\ IN_ep' = IF copies THEN [IN_ep EXCEPT ![n].count = IN_ep[n].size] ELSE IN_ep
      /\ DIEPEMPMSK' = IF copies \/ IN_ep[n].size <= IN_ep[n].count THEN DIEPEMPMSK \ {n} ELSE DIEPEMPMSK
      /\ UNCHANGED <<setup, ep0_state, OUT_ep, DAINTMSK, GINTSTS, DIEPINT, DOEPINT, rx, bus, stage, req>>
  BY DEF Calling
<1>3. Ended' => Ended
  BY <1>2, EndedKept DEF Done
<1>4. CASE n # 0
  <2>1. IN_ep'[0] = IN_ep[0] /\ fifo'[0] = fifo[0] /\ (0 \in DIEPEMPMSK => 0 \in DIEPEMPMSK')
    BY <1>1, <1>2, <1>4 DEF INTable
  <2>2. View0' = View0
    BY <1>2, <2>1 DEF View0
  <2> QED
    BY <1>2, <1>3, <2>1, <2>2, RepliedKept
<1>5. CASE n = 0 /\ ~copies
  <2>1. IN_ep'[0] = IN_ep[0] /\ fifo'[0] = fifo[0]
    BY <1>1, <1>2, <1>5
  <2>2. DataReplied => DataReplied'
    <3>1. ASSUME DataReplied, ~Copied PROVE IN_ep[0].count < IN_ep[0].size
      BY <1>1, <3>1, Table0 DEF DataReplied
    <3>2. DataReplied /\ ~Copied => 0 \in DIEPEMPMSK'
      BY <1>1, <1>2, <1>5, <3>1, Table0 DEF DataReplied
    <3> QED
      BY <1>2, <2>1, <3>2 DEF DataReplied, Copied, Asked, DeviceDescriptor, HIDDescriptor
  <2>3. /\ StatusReplied => StatusReplied'
        /\ Stalled => Stalled'
        /\ Unanswered(req) => Unanswered(req)'
    BY <1>2, <2>1 DEF StatusReplied, Stalled, Unanswered, FirstStage, HID_setup
  <2>4. Refused => Refused'
    BY <1>2, <2>1, <2>3 DEF Refused
  <2> QED
    BY <1>2, <1>3, <2>2, <2>3, <2>4 DEF Replied
<1>6. CASE n = 0 /\ copies
  <2>1. IN_ep[0].count # IN_ep[0].size
    BY <1>1, <1>6, Table0
  <2>2. Sending /\ fifo[0] = <<>>
    BY <1>2, <1>6, <2>1 DEF ControlInv, Pending, Copied
  <2>3. DataReplied
    BY <2>2 DEF Sending, Replied, Refused
  <2>4. fifo'[0] = <<IN_ep[0].buffer>>
    BY <1>1, <1>2, <1>6, <2>2
  <2>5. IN_ep'[0] = [IN_ep[0] EXCEPT !.count = IN_ep[0].size]
    BY <1>1, <1>2, <1>6 DEF INTable
  <2>6. /\ IN_ep'[0].EPENA = IN_ep[0].EPENA /\ IN_ep'[0].buffer = IN_ep[0].buffer
        /\ IN_ep'[0].STALL = IN_ep[0].STALL
        /\ IN_ep'[0].size = IN_ep[0].size /\ IN_ep'[0].count = IN_ep[0].size
    BY <1>1, <2>5 DEF INTable, INEndpoint
  <2>7. DataReplied' /\ stage' = "data_in"
    BY <1>2, <2>2, <2>3, <2>4, <2>6 DEF DataReplied, Sending, Copied, Asked, DeviceDescriptor, HIDDescriptor
  <2> QED
    BY <2>7 DEF Replied
<1> QED
  BY <1>4, <1>5, <1>6

LEMMA RepliedDriver ==
  ASSUME TypeOK, PacketWaits, ControlInv, RegularRequests, Replied, Driver
  PROVE  Replied'
<1> USE DEF handleVars, controlVars, epVars, coreVars, hostVars
<1>1. 0 \in EpNum /\ DIEPINT \in [EpNum -> SUBSET {"XFRC", "EPDISD"}]
      /\ fifo \in [EpNum -> Seq(Buffers)]
  BY DEF TypeOK, EpNum, CoreOK
<1>2. CASE USB_common_handler \/ IEP_interrupts \/ IEP_common_handler \/ OEP_interrupts \/ OEP_common_handler
             \/ USB_suspend_IRQ
  <2>1. UNCHANGED <<controlVars, epVars, coreVars, hostVars>>
    BY <1>2 DEF USB_common_handler, IEP_interrupts, IEP_common_handler, OEP_interrupts,
       OEP_common_handler, USB_suspend_IRQ
  <2>2. <<"STUP", 0>> \in calls => <<"STUP", 0>> \in calls'
    BY <1>2 DEF USB_common_handler, IEP_interrupts, IEP_common_handler, OEP_interrupts,
       OEP_common_handler, USB_suspend_IRQ
  <2>3. View0' = View0
    BY <2>1 DEF View0
  <2>4. Ended' => Ended
    BY <2>1, <2>2, EndedKept
  <2> QED
    BY <2>1, <2>3, <2>4, RepliedKept
<1>3. CASE USB_suspend_acknowledge \/ USB_wake_up_IRQ
  <2>1. UNCHANGED <<controlVars, epVars, hostVars, DIEPINT, DOEPINT, fifo, rx>>
    BY <1>3 DEF USB_suspend_acknowledge, USB_wake_up_IRQ
  <2>2. <<"STUP", 0>> \in calls => <<"STUP", 0>> \in calls'
    BY <1>3 DEF USB_suspend_acknowledge, USB_wake_up_IRQ, Done
  <2>3. View0' = View0
    BY <2>1 DEF View0
  <2>4. Ended' => Ended
    BY <2>1, <2>2, EndedKept
  <2> QED
    BY <2>1, <2>3, <2>4, RepliedKept
<1>4. CASE USB_receive_packet_IRQ
  <2>1. /\ <<"RXFLVL", 0>> \in calls /\ calls' = calls \ {<<"RXFLVL", 0>>} /\ rx' = Tail(rx)
        /\ Head(rx).status = "SETUP_DONE" => "STUP" \in DOEPINT'
        /\ UNCHANGED <<ep0_state, epVars, hostVars, GINTSTS, DIEPINT, fifo>>
    BY <1>4 DEF USB_receive_packet_IRQ, Calling, Done
  <2>2. rx # <<>>
    BY <2>1 DEF PacketWaits
  <2>3. View0' = View0
    BY <2>1 DEF View0
  <2>4. ASSUME ~Ended PROVE ~Ended'
    <3>1. Arriving /\ stage # "idle"
      BY <2>4 DEF ControlInv, Arrival
    <3>2. CASE rx = <<Entry("SETUP"), Entry("SETUP_DONE")>>
      <4>1. rx' = <<Entry("SETUP_DONE")>> /\ stage' # "idle"
        BY <2>1, <3>1, <3>2
      <4>2. rx' # <<>>
        BY <4>1
      <4> QED
        BY <4>1, <4>2 DEF Ended
    <3>3. CASE rx = <<Entry("SETUP_DONE")>>
      <4>1. Head(rx).status = "SETUP_DONE"
        BY <3>3 DEF Entry
      <4> QED
        BY <2>1, <4>1 DEF Ended
    <3> QED
      BY <2>2, <3>1, <3>2, <3>3 DEF Arriving
  <2> QED
    BY <2>1, <2>3, <2>4, RepliedKept
<1>5. CASE USB_reset_IRQ \/ USB_enumeration_done_IRQ
  <2>1. stage' = "idle"
    BY <1>5 DEF ControlInv, Busy, USB_reset_IRQ, USB_enumeration_done_IRQ, Calling
  <2> QED
    BY <2>1, RepliedElsewhere
<1>6. CASE IEP_transfer_complete_IRQ
  <2> PICK n \in EpNum : IEP_transfer_complete_IRQ!(n)
    BY <1>6 DEF IEP_transfer_complete_IRQ
  <2>1. Done(<<"XFRC", n>>) /\ <<"XFRC", n>> \in calls
        /\ UNCHANGED <<setup, DAINTMSK, GINTSTS, DOEPINT, fifo, rx, bus, stage, req>>
    BY DEF Calling
  <2>2. CASE n = 0
    <3>1. stage' \in {"idle", "status_out"}
      BY <2>1, <2>2 DEF ControlInv, Never, Completion
    <3> QED
      BY <3>1, RepliedElsewhere
  <2>3. CASE n # 0
    <3>1. ~InDataStage(n)
      BY <2>3 DEF InDataStage
    <3>2. /\ UNCHANGED <<IN_ep, OUT_ep, ep0_state>> /\ DIEPEMPMSK' = DIEPEMPMSK \ {n}
      BY <3>1
    <3>3. View0' = View0
      BY <2>1, <3>2 DEF View0
    <3>4. Ended' => Ended
      BY <2>1, EndedKept DEF Done
    <3> QED
      BY <2>1, <2>3, <3>2, <3>3, <3>4, RepliedKept
  <2> QED
    BY <2>2, <2>3
<1>7. CASE IEP_disabled_IRQ
  <2> PICK n \in EpNum : IEP_disabled_IRQ!(n)
    BY <1>7 DEF IEP_disabled_IRQ
  <2>1. n # 0
    BY DEF Calling, ControlInv, Never
  <2>2. fifo'[0] = fifo[0] /\ UNCHANGED <<controlVars, epVars, hostVars, GINTSTS, DOEPINT, rx>>
    BY <1>1, <2>1 DEF flush_TX_FIFO
  <2>3. View0' = View0
    BY <2>2 DEF View0
  <2>4. Ended' => Ended
    BY <2>2, EndedKept DEF Done
  <2> QED
    BY <2>2, <2>3, <2>4, RepliedKept
<1>8. CASE OEP_transfer_complete
  <2>1. /\ <<"OUT_XFRC", 0>> \in calls
        /\ UNCHANGED <<OUT_ep, DIEPEMPMSK, hostVars, fifo, rx>>
    BY <1>8 DEF OEP_transfer_complete, Calling
  <2>2. UNCHANGED <<ep0_state, IN_ep>>
    BY <1>8 DEF OEP_transfer_complete, ControlInv, Never
  <2>3. View0' = View0
    BY <2>1, <2>2 DEF View0
  <2>4. Ended
    BY <2>1 DEF ControlInv, Arrival, Arriving, NoRequest, OEPCalls
  <2> QED
    BY <2>1, <2>2, <2>3, <2>4, RepliedKept
<1> QED
  BY <1>2, <1>3, <1>4, <1>5, <1>6, <1>7, <1>8, RepliedSetup, RepliedCopied DEF Driver

\* Whatever the host asks, once the driver has acted on it the reply is on EP0: the
\* data that were asked for, the status, or a stall.
THEOREM RequestsReplied == ASSUME Patient, RegularRequests PROVE Spec => []Replied
<1>1. Init => Replied
  <2>1. Init => stage = "idle"
    BY DEF Init
  <2> QED
    BY <2>1 DEF Replied
<1>2. ASSUME TypeOK, PacketWaits, ControlInv, Replied, [Next]_vars PROVE Replied'
  <2>1. CASE UNCHANGED vars
    <3> USE DEF vars, handleVars, controlVars, epVars, coreVars, hostVars
    <3>1. View0' = View0
      BY <2>1 DEF View0
    <3>2. Ended' => Ended
      BY <2>1, EndedKept
    <3> QED
      BY <1>2, <2>1, <3>1, <3>2, RepliedKept
  <2> QED
    BY <1>2, <2>1, RepliedBus, RepliedCore, RepliedDriver, RepliedReport DEF Next
<1>3. Spec => []TypeOK /\ []PacketWaits /\ []ControlInv
  BY TypeCorrect, ControlCorrect
<1>4. TypeOK /\ PacketWaits /\ ControlInv /\ Replied /\ [Next]_vars => Replied'
  BY <1>2
<1> QED
  BY <1>1, <1>3, <1>4, PTL DEF Spec

LEMMA FreshReply ==
  ASSUME TypeOK, ControlInv, Replied
  PROVE  FreshAnswer
<1> SUFFICES ASSUME stage = "data_in", CanSend(0)
             PROVE  Head(fifo[0]) \in Asked(req) /\ IN_ep[0].size <= req.length
  BY DEF FreshAnswer
<1>1. IN_ep[0].EPENA /\ ~IN_ep[0].STALL /\ IN_ep[0].size # 0 /\ fifo[0] # <<>>
  BY DEF CanSend, ControlInv, Armed
<1>2. DataReplied
  BY <1>1 DEF ControlInv, Arrival, Clear, Replied, Refused
<1>3. fifo[0] = <<IN_ep[0].buffer>>
  BY <1>1 DEF ControlInv, Loaded
<1> QED
  BY <1>2, <1>3 DEF DataReplied

\* The data a host is about to read is what it asked for, and fits.
THEOREM AnswersAreFresh == ASSUME Patient, RegularRequests PROVE Spec => []FreshAnswer
<1>1. TypeOK /\ ControlInv /\ Replied => FreshAnswer
  BY FreshReply
<1>2. Spec => []TypeOK /\ []ControlInv /\ []Replied
  BY TypeCorrect, ControlCorrect, RequestsReplied
<1> QED
  BY <1>1, <1>2, PTL

LEMMA ReplyWaits ==
  ASSUME TypeOK, ControlInv, Replied
  PROVE  NoHang
<1> SUFFICES ASSUME Quiet, bus = "active", stage # "idle"
             PROVE  Answered \/ Stalled \/ Unanswered(req)
  BY DEF NoHang
<1>1. Ended /\ DIEPINT[0] = {} /\ 0 \notin DIEPEMPMSK
  BY QuietControl
<1>2. IN_ep[0].USBAEP
  BY DEF ControlInv, Busy, Opened0
<1>3. stage \in Stages
  BY DEF TypeOK, HostOK
<1>4. CASE stage = "status_out"
  BY <1>1, <1>4 DEF ControlInv, StatusStage, Answered
<1>5. CASE stage = "data_in"
  <2>1. DataReplied => CanSend(0)
    BY <1>1, <1>2 DEF DataReplied, CanSend
  <2> QED
    BY <1>1, <1>5, <2>1 DEF Replied, Refused, Answered
<1>6. CASE stage = "status_in"
  BY <1>1, <1>2, <1>6 DEF Replied, StatusReplied, Refused, Answered, Stalled, CanSend
<1>7. CASE stage = "data_out"
  BY <1>1, <1>7 DEF Replied, Refused
<1> QED
  BY <1>3, <1>4, <1>5, <1>6, <1>7 DEF Stages

\* When the driver is done, the host gets data, a status or a stall.
THEOREM NobodyHangs == ASSUME Patient, RegularRequests PROVE Spec => []NoHang
<1>1. TypeOK /\ ControlInv /\ Replied => NoHang
  BY ReplyWaits
<1>2. Spec => []TypeOK /\ []ControlInv /\ []Replied
  BY TypeCorrect, ControlCorrect, RequestsReplied
<1> QED
  BY <1>1, <1>2, PTL

LEMMA ReplyAgrees ==
  ASSUME TypeOK, ControlInv, Replied
  PROVE  StagesAgree
<1> SUFFICES ASSUME Quiet, bus = "active", Answered, ~Stalled
             PROVE  CASE stage = "data_in" -> ep0_state = "DATA_IN" /\ IN_ep[0].size > 0
                      [] stage = "status_in" -> ep0_state = "STATUS_IN" /\ IN_ep[0].size = 0
                      [] OTHER -> ep0_state = "STATUS_OUT"
  BY DEF StagesAgree
<1>1. Ended /\ DIEPINT[0] = {}
  BY QuietControl
<1>2. IN_ep[0].size \in Nat
  BY Table0 DEF TypeOK, EndpointsOK, INTable, OUTTable
<1>3. stage = "data_in" => ep0_state = "DATA_IN" /\ IN_ep[0].size > 0
  BY <1>2 DEF ControlInv, Armed, Answered, CanSend
<1>4. stage = "status_in" => ep0_state = "STATUS_IN" /\ IN_ep[0].size = 0
  BY <1>1 DEF Replied, StatusReplied, Refused, Answered, CanSend
<1>5. stage \notin {"data_in", "status_in"} => ep0_state = "STATUS_OUT"
  BY <1>1 DEF ControlInv, StatusStage, Answered
<1> QED
  BY <1>3, <1>4, <1>5

\* The stage the host is in is the one the driver prepared.
THEOREM StagesAlwaysAgree == ASSUME Patient, RegularRequests PROVE Spec => []StagesAgree
<1>1. TypeOK /\ ControlInv /\ Replied => StagesAgree
  BY ReplyAgrees
<1>2. Spec => []TypeOK /\ []ControlInv /\ []Replied
  BY TypeCorrect, ControlCorrect, RequestsReplied
<1> QED
  BY <1>1, <1>2, PTL

-----------------------------------------------------------------------------
(* The address of the device. *)

Pends(c) == c \in GINTSTS \/ <<c, 0>> \in calls

\* A reset clears the address before it ends, and its end before the next request.
AddressInv ==
  /\ bus = "off" => DAD = 0 /\ BaseState = "DEFAULT"
  /\ bus = "reset" => DAD = 0 \/ Due("USBRST")
  /\ Pends("USBRST") => bus = "reset"
  /\ Pends("ENUMDNE") => DAD = 0 /\ Due("ENUMDNE")
  /\ AddressFollowsState

LEMMA AddressKept ==
  ASSUME AddressInv, CallsFollow, UNCHANGED <<DAD, BaseState>>,
         bus' = bus \/ {bus, bus'} \subseteq {"active", "suspended"},
         \A c \in {"USBRST", "ENUMDNE"} : c \in GINTSTS' => c \in GINTSTS
  PROVE  AddressInv'
<1>1. \A c \in {"USBRST", "ENUMDNE"} : (Pends(c)' => Pends(c)) /\ (Due(c) => Due(c)')
  BY DEF Pends, CallsFollow
<1>2. Resetting => Resetting'
  BY <1>1 DEF AddressInv, Resetting, Pends, Due
<1> QED
  BY <1>1, <1>2 DEF AddressInv, AddressFollowsState

LEMMA AddressBus ==
  ASSUME TypeOK, Patient, ControlInv, AddressInv, BusEvent
  PROVE  AddressInv'
<1> USE DEF driverVars, handleVars
<1>1. DAD' = DAD /\ BaseState' = BaseState /\ calls' = calls
  BY DEF BusEvent, BusReset, Enumerated, BusSuspend, BusResume, HostSetup, BaseState
<1>2. CASE BusReset \/ Enumerated
  <2>1. Quiet
    BY <1>2 DEF BusReset, Enumerated, May, Patient
  <2>2. calls = {} /\ GINTSTS = {}
    BY <2>1, QuietControl
  <2>3. \/ bus' = "reset" /\ GINTSTS' = {"USBRST"}
        \/ bus = "reset" /\ bus' = "active" /\ GINTSTS' = {"ENUMDNE"}
    BY <1>2, <2>2 DEF BusReset, Enumerated
  <2> QED
    BY <1>1, <2>2, <2>3 DEF AddressInv, AddressFollowsState, Resetting, Pends, Due
<1>3. CASE BusSuspend \/ BusResume \/ HostSetup
  <2>1. /\ bus' = bus \/ {bus, bus'} \subseteq {"active", "suspended"}
        /\ GINTSTS \subseteq GINTSTS'
        /\ \A c \in {"USBRST", "ENUMDNE"} : c \in GINTSTS' => c \in GINTSTS
    BY <1>3 DEF BusSuspend, BusResume, HostSetup
  <2>2. CallsFollow
    BY <1>1, <2>1, CallsSame
  <2> QED
    BY <1>1, <2>1, <2>2, AddressKept
<1> QED
  BY <1>2, <1>3 DEF BusEvent

\* Only a request to set it, or one to leave the configuration, concerns the address.
LEMMA AddressRequest ==
  ASSUME dev_state # "SUSPENDED", DAD = 0 <=> dev_state = "DEFAULT", NEW h,
         DeviceRequest(h) \/ InterfaceRequest(h) \/ EndpointRequest(h) \/ OtherRequest(h)
  PROVE  /\ dev_state' # "SUSPENDED" /\ (DAD' = 0 <=> dev_state' = "DEFAULT")
<1> USE DEF handleVars
<1>1. CASE InterfaceRequest(h) \/ EndpointRequest(h) \/ OtherRequest(h)
  BY <1>1 DEF InterfaceRequest, EndpointRequest, OtherRequest, AnswerOnly
<1>2. CASE DeviceRequest(h)
  <2>1. \/ \E r : AnswerOnly(r)
        \/ \E r, b : ChangeRemoteWakeup(r, b)
        \/ set_device_address(h)
        \/ set_device_configuration(h)
    BY <1>2, Zenon DEF DeviceRequest
  <2>2. CASE (\E r : AnswerOnly(r)) \/ (\E r, b : ChangeRemoteWakeup(r, b))
    BY <2>2 DEF AnswerOnly, ChangeRemoteWakeup
  <2>3. CASE set_device_address(h)
    BY <2>3 DEF set_device_address, AcceptsAddress, AddressState, AnswerOnly
  <2>4. CASE set_device_configuration(h)
    <3>1. \/ \E r : AnswerOnly(r)
          \/ dev_state \in {"ADDRESSED", "CONFIGURED"} /\ \E in : Configure(in, Low(h.value))
          \/ dev_state = "CONFIGURED" /\ \E r, c : Unconfigure(r, "ADDRESSED", c)
          \/ \E r, c : Unconfigure(r, dev_state, c)
      BY <2>4, Zenon DEF set_device_configuration
    <3> QED
      BY <3>1 DEF AnswerOnly, Configure, Unconfigure
  <2> QED
    BY <2>1, <2>2, <2>3, <2>4
<1> QED
  BY <1>1, <1>2

\* The other calls leave the bus, the address and the state as they are.
LEMMA CallsStep ==
  ASSUME TypeOK, ControlInv, Driver, ~USB_reset_IRQ, ~USB_enumeration_done_IRQ, ~OEP_setup_done
  PROVE  CallsFollow /\ UNCHANGED <<DAD, bus, BaseState>> /\ GINTSTS' \subseteq GINTSTS
<1> USE DEF handleVars, coreVars, hostVars
<1>0. HandleOK
  BY DEF TypeOK
<1>1. CASE USB_common_handler \/ IEP_interrupts \/ IEP_common_handler \/ OEP_interrupts
             \/ OEP_common_handler \/ USB_suspend_IRQ
  <2>1. UNCHANGED <<DAD, bus, GINTSTS>>
    BY <1>1 DEF USB_common_handler, IEP_interrupts, IEP_common_handler, OEP_interrupts,
       OEP_common_handler, USB_suspend_IRQ
  <2>2. BaseState' = BaseState
    BY <1>0, <1>1 DEF BaseState, HandleOK, USB_common_handler, IEP_interrupts,
       IEP_common_handler, OEP_interrupts, OEP_common_handler, USB_suspend_IRQ
  <2> QED
    BY <1>1, <2>1, <2>2, CallsAdded
<1>2. CASE USB_receive_packet_IRQ \/ USB_suspend_acknowledge \/ IEP_transfer_complete_IRQ
             \/ IEP_disabled_IRQ \/ IEP_FIFO_empty_IRQ \/ OEP_transfer_complete \/ USB_wake_up_IRQ
  <2>1. \E c \in calls : c \notin {<<"USBRST", 0>>, <<"ENUMDNE", 0>>} /\ Done(c)
    BY <1>2 DEF USB_receive_packet_IRQ, USB_suspend_acknowledge, IEP_transfer_complete_IRQ,
       IEP_disabled_IRQ, IEP_FIFO_empty_IRQ, OEP_transfer_complete, USB_wake_up_IRQ, Calling
  <2>2. UNCHANGED <<DAD, bus>> /\ GINTSTS' \subseteq GINTSTS
    BY <1>2 DEF USB_receive_packet_IRQ, USB_suspend_acknowledge, IEP_transfer_complete_IRQ,
       IEP_disabled_IRQ, IEP_FIFO_empty_IRQ, OEP_transfer_complete, USB_wake_up_IRQ, Acknowledge
  <2>3. BaseState' = BaseState
    BY <1>0, <1>2 DEF BaseState, HandleOK, USB_receive_packet_IRQ, USB_suspend_acknowledge,
       IEP_transfer_complete_IRQ, IEP_disabled_IRQ, IEP_FIFO_empty_IRQ, OEP_transfer_complete,
       USB_wake_up_IRQ
  <2> QED
    BY <2>1, <2>2, <2>3, CallsDone
<1> QED
  BY <1>1, <1>2 DEF Driver

LEMMA AddressDriver ==
  ASSUME TypeOK, ControlInv, SleepInv, RegularRequests, AddressInv, Driver
  PROVE  AddressInv'
<1> USE DEF handleVars, coreVars, hostVars
<1>1. HandleOK
  BY DEF TypeOK
<1>2. CASE USB_reset_IRQ
  <2>1. /\ <<"USBRST", 0>> \in calls /\ calls' = calls \ {<<"USBRST", 0>>}
        /\ DAD' = 0 /\ GINTSTS' = {} /\ bus' = bus
    BY <1>2 DEF USB_reset_IRQ, Calling, Done, Acknowledge
  <2>2. bus' = "reset"
    BY <2>1 DEF AddressInv, Pends
  <2> QED
    BY <2>1, <2>2 DEF AddressInv, Pends, Due, AddressFollowsState, Resetting
<1>3. CASE USB_enumeration_done_IRQ
  <2>1. /\ <<"ENUMDNE", 0>> \in calls /\ calls' = calls \ {<<"ENUMDNE", 0>>}
        /\ DAD' = DAD /\ GINTSTS' = {} /\ bus' = bus /\ dev_state' = "DEFAULT"
    BY <1>3 DEF USB_enumeration_done_IRQ, Calling, Done, Acknowledge
  <2>2. BaseState' = "DEFAULT" /\ DAD' = 0
    BY <2>1 DEF AddressInv, Pends, BaseState
  <2> QED
    BY <2>1, <2>2 DEF AddressInv, Pends, Due, AddressFollowsState
<1>4. CASE OEP_setup_done
  <2>1. /\ bus = "active" /\ stage # "idle" /\ <<"STUP", 0>> \in calls
        /\ calls' = calls \ {<<"STUP", 0>>} /\ UNCHANGED <<GINTSTS, bus>>
    BY <1>4, SetupOutcome, Stages0
  <2>2. ~Pends("ENUMDNE") /\ ~Pends("USBRST")
    BY <2>1 DEF ControlInv, Busy, Pends
  <2>3. dev_state # "SUSPENDED"
    BY <2>1, AwakeForRequests
  <2>4. DAD = 0 <=> dev_state = "DEFAULT"
    BY <2>1, <2>2, <2>3 DEF AddressInv, AddressFollowsState, Resetting, Pends, BaseState
  <2>5. dev_state' # "SUSPENDED" /\ (DAD' = 0 <=> dev_state' = "DEFAULT")
    BY <1>4, <2>3, <2>4, AddressRequest DEF OEP_setup_done
  <2>6. ~Pends("ENUMDNE")' /\ ~Pends("USBRST")'
    BY <2>1, <2>2 DEF Pends
  <2> QED
    BY <2>1, <2>5, <2>6 DEF AddressInv, AddressFollowsState, BaseState
<1>5. CASE ~USB_reset_IRQ /\ ~USB_enumeration_done_IRQ /\ ~OEP_setup_done
  BY <1>5, CallsStep, AddressKept
<1> QED
  BY <1>2, <1>3, <1>4, <1>5

LEMMA AddressStep ==
  ASSUME Patient, RegularRequests, TypeOK, ControlInv, SleepInv, AddressInv, [Next]_vars
  PROVE  AddressInv'
<1>1. CASE Core \/ send_HID_report \/ UNCHANGED vars
  <2>1. calls' = calls /\ UNCHANGED <<GINTSTS, DAD, bus, dev_state, dev_old_state>>
    BY <1>1 DEF Core, HostReadsData, HostReadsStatus, HostReadsReport, Send, HostSendsStatus,
       HostSeesStall, HostAborts, EndpointDisabled, send_HID_report, vars, driverVars,
       handleVars, controlVars, epVars, coreVars, hostVars
  <2>2. CallsFollow /\ BaseState' = BaseState
    BY <2>1, CallsSame DEF BaseState
  <2> QED
    BY <2>1, <2>2, AddressKept
<1> QED
  BY <1>1, AddressBus, AddressDriver DEF Next

LEMMA AddressInit == Init => AddressInv
BY DEF Init, AddressInv, BaseState, Pends, AddressFollowsState

\* Outside a reset the device listens to address 0 exactly in the state Default.
THEOREM AddressCorrect ==
  ASSUME Patient, Unhurried, RegularRequests PROVE Spec => []AddressFollowsState
<1>1. TypeOK /\ ControlInv /\ SleepInv /\ AddressInv /\ [Next]_vars => AddressInv'
  BY AddressStep
<1>2. Spec => []TypeOK /\ []ControlInv /\ []SleepInv
  BY TypeCorrect, ControlCorrect, SleepCorrect
<1>3. AddressInv => AddressFollowsState
  BY DEF AddressInv
<1> QED
  BY <1>1, <1>2, <1>3, AddressInit, PTL DEF Spec

-----------------------------------------------------------------------------
(* What a request leaves on the HID endpoint. *)

HIDKept ==
  /\ IN_ep'[HID_IEP] \in {IN_ep[HID_IEP], stall_IEP(IN_ep, HID_IEP)[HID_IEP]}
  /\ hid_state' = hid_state
  /\ dev_state' = "CONFIGURED" <=> dev_state = "CONFIGURED"
HIDOpened ==
  /\ \/ dev_state = "ADDRESSED" /\ IN_ep'[HID_IEP] = HID_init(IN_ep)[HID_IEP]
     \/ dev_config' # dev_config /\ IN_ep'[HID_IEP] = HID_init(HID_deinit(IN_ep))[HID_IEP]
  /\ hid_state' = "IDLE" /\ dev_state' = "CONFIGURED"
HIDClosed ==
  /\ IN_ep'[HID_IEP] = HID_deinit(IN_ep)[HID_IEP]
  /\ hid_state' = hid_state /\ dev_state' # "CONFIGURED"
HIDOutcome ==
  /\ HIDKept \/ HIDOpened \/ HIDClosed
  /\ HID_IEP \in DIEPEMPMSK' <=> HID_IEP \in DIEPEMPMSK

\* An answer on EP0 leaves the HID endpoint to what was done to it before.
LEMMA AnswerHID ==
  ASSUME NEW r \in Reply, NEW in \in INTable, NEW out, Answer(r, in, out)
  PROVE  /\ IN_ep'[HID_IEP] = in[HID_IEP]
         /\ HID_IEP \in DIEPEMPMSK' <=> HID_IEP \in DIEPEMPMSK
<1>1. HID_IEP \in EpNum \ {0}
  BY DEF HID_IEP, EpNum
<1> QED
  BY <1>1, ReplyINType DEF Answer, ReplyMask, IN_transfer_mask

LEMMA RequestHID ==
  ASSUME TypeOK, NEW h \in Packets,
         DeviceRequest(h) \/ InterfaceRequest(h) \/ EndpointRequest(h) \/ OtherRequest(h)
  PROVE  HIDOutcome
<1> USE DEF handleVars
<1>1. /\ h \in Header /\ h.value \in Nat /\ HID_IEP \in EpNum \ {0} /\ 0 \in EpNum
  BY PacketsAreHeaders, HeaderNumbers DEF EpNum, HID_IEP
<1>2. /\ IN_ep \in INTable /\ OUT_ep \in OUTTable
      /\ HID_deinit(IN_ep) \in INTable /\ HID_init(IN_ep) \in INTable
  BY HIDTypes DEF TypeOK, EndpointsOK, INTable, OUTTable
<1>3. HID_init(HID_deinit(IN_ep)) \in INTable
  BY <1>2, HIDTypes
<1>4. ASSUME NEW r \in Reply, NEW out, Answer(r, IN_ep, out), UNCHANGED <<dev_state, hid_state>>
      PROVE  HIDOutcome
  BY <1>2, <1>4, AnswerHID DEF HIDOutcome, HIDKept
<1>5. CASE DeviceRequest(h)
  <2>1. CASE \E r \in Reply : AnswerOnly(r)
    BY <1>4, <2>1 DEF AnswerOnly
  <2>2. CASE \E r \in Reply : \E b : ChangeRemoteWakeup(r, b)
    BY <1>4, <2>2 DEF ChangeRemoteWakeup
  <2>3. CASE set_device_address(h)
    <3>1. CASE AcceptsAddress(h)
      <4>1. /\ Answer(Status, IN_ep, OUT_ep) /\ dev_state # "CONFIGURED"
            /\ dev_state' # "CONFIGURED" /\ hid_state' = hid_state
        BY <2>3, <3>1 DEF set_device_address, AcceptsAddress, AddressState
      <4> QED
        BY <1>2, <4>1, AnswerHID, PlainReplies DEF HIDOutcome, HIDKept
    <3>2. CASE ~AcceptsAddress(h)
      BY <1>4, <2>3, <3>2, PlainReplies DEF set_device_address, AnswerOnly
    <3> QED
      BY <3>1, <3>2
  <2>4. CASE set_device_configuration(h)
    <3> DEFINE c == Low(h.value)
    <3>1. \/ AnswerOnly(Status) \/ AnswerOnly(Stall)
          \/ dev_state = "ADDRESSED" /\ Configure(IN_ep, c)
          \/ c # dev_config /\ Configure(HID_deinit(IN_ep), c)
          \/ Unconfigure(Status, "ADDRESSED", c)
          \/ Unconfigure(Stall, dev_state, dev_config) /\ dev_state # "CONFIGURED"
      BY <2>4, Zenon DEF set_device_configuration
    <3>2. CASE AnswerOnly(Status) \/ AnswerOnly(Stall)
      BY <1>4, <3>2, PlainReplies DEF AnswerOnly
    <3>3. ASSUME NEW in \in {IN_ep, HID_deinit(IN_ep)}, Configure(in, c)
          PROVE  /\ IN_ep'[HID_IEP] = HID_init(in)[HID_IEP]
                 /\ HID_IEP \in DIEPEMPMSK' <=> HID_IEP \in DIEPEMPMSK
                 /\ hid_state' = "IDLE" /\ dev_state' = "CONFIGURED" /\ dev_config' = c
      <4>1. HID_init(in) \in INTable /\ Answer(Status, HID_init(in), OUT_ep)
        BY <1>2, <1>3, <3>3 DEF Configure
      <4> QED
        BY <3>3, <4>1, AnswerHID, PlainReplies DEF Configure
    <3>4. ASSUME NEW r \in Reply, NEW state, NEW d, state # "CONFIGURED", Unconfigure(r, state, d)
          PROVE  HIDOutcome
      <4>1. /\ IN_ep'[HID_IEP] = HID_deinit(IN_ep)[HID_IEP]
            /\ HID_IEP \in DIEPEMPMSK' <=> HID_IEP \in DIEPEMPMSK
        BY <1>2, <3>4, AnswerHID DEF Unconfigure
      <4> QED
        BY <3>4, <4>1 DEF Unconfigure, HIDOutcome, HIDClosed
    <3>5. CASE dev_state = "ADDRESSED" /\ Configure(IN_ep, c)
      BY <3>3, <3>5 DEF HIDOutcome, HIDOpened
    <3>6. CASE c # dev_config /\ Configure(HID_deinit(IN_ep), c)
      BY <3>3, <3>6 DEF HIDOutcome, HIDOpened
    <3> QED
      BY <3>1, <3>2, <3>4, <3>5, <3>6, PlainReplies
  <2>5. \/ \E r \in Reply : AnswerOnly(r)
        \/ \E r \in Reply : \E b : ChangeRemoteWakeup(r, b)
        \/ set_device_address(h)
        \/ set_device_configuration(h)
    BY <1>1, <1>5, DeviceReplies, PlainReplies, Zenon DEF DeviceRequest
  <2> QED
    BY <2>1, <2>2, <2>3, <2>4, <2>5
<1>6. CASE InterfaceRequest(h)
  <2> DEFINE r == IF RejectsInterface(h) THEN Stall ELSE HID_setup(dev_state, h)
  <2>1. r \in Reply /\ Status \in Reply
    BY <1>1, HID_setupReply, PlainReplies
  <2>2. \A t \in INTable, q \in Reply : ReplyIN(t, q) \in INTable /\ ReplyIN(t, q)[HID_IEP] = t[HID_IEP]
    BY <1>1, ReplyINType
  <2>3. /\ IN_ep' \in {ReplyIN(ReplyIN(IN_ep, r), Status), ReplyIN(IN_ep, r)}
        /\ DIEPEMPMSK' = ReplyMask(DIEPEMPMSK, r)
        /\ UNCHANGED <<dev_state, hid_state>>
    BY <1>6, Zenon DEF InterfaceRequest, r
  <2> HIDE DEF r
  <2>4. IN_ep'[HID_IEP] = IN_ep[HID_IEP]
    BY <1>2, <2>1, <2>2, <2>3
  <2>5. HID_IEP \in DIEPEMPMSK' <=> HID_IEP \in DIEPEMPMSK
    BY <1>1, <2>3 DEF ReplyMask, IN_transfer_mask
  <2> QED
    BY <2>3, <2>4, <2>5 DEF HIDOutcome, HIDKept
<1>7. CASE EndpointRequest(h)
  <2> DEFINE a == Address(h)
  <2>1. h.recipiant = "ENDPOINT" /\ UNCHANGED <<dev_state, hid_state>>
    BY <1>7 DEF EndpointRequest
  <2>2. EpOf(a) \in EpNum
    BY <2>1, RequestsAssumption DEF Packets, ZeroHeader, Address
  <2>3. HaltIN(a) \in {IN_ep, stall_IEP(IN_ep, 0), stall_IEP(IN_ep, HID_IEP)}
    BY <2>2 DEF HaltIN, EpNum, HID_IEP
  <2>4. /\ stall_IEP(IN_ep, 0) \in INTable /\ stall_IEP(IN_ep, HID_IEP) \in INTable
        /\ unstall_IEP(IN_ep, 0) \in INTable
        /\ stall_IEP(IN_ep, 0)[HID_IEP] = IN_ep[HID_IEP]
        /\ unstall_IEP(IN_ep, 0)[HID_IEP] = IN_ep[HID_IEP]
    BY <1>1, <1>2, stall_IEPType, unstall_IEPType
  <2> DEFINE tables == {IN_ep, stall_IEP(IN_ep, 0), stall_IEP(IN_ep, HID_IEP), unstall_IEP(IN_ep, 0)}
  <2>5. \E q \in Reply, in \in tables : \E out : Answer(q, in, out)
    <3>1. /\ Status \in Reply /\ Stall \in Reply /\ StallIN \in Reply /\ NoReply \in Reply
          /\ get_dendpoint_status(h) \in Reply /\ HID_setup(dev_state, h) \in Reply
      BY <1>1, PlainReplies, DeviceReplies, HID_setupReply
    <3>2. IN_ep \in tables /\ HaltIN(a) \in tables /\ unstall_IEP(IN_ep, 0) \in tables
      BY <2>3
    <3> HIDE DEF tables
    <3>3. CASE set_endpoin_feature(h)
      BY <3>1, <3>2, <3>3, Zenon DEF set_endpoin_feature
    <3>4. CASE clear_endpoint_feature(h)
      BY <3>1, <3>2, <3>4, Zenon DEF clear_endpoint_feature
    <3>5. \/ set_endpoin_feature(h) \/ clear_endpoint_feature(h)
          \/ \E q \in Reply : Answer(q, IN_ep, OUT_ep)
      BY <1>7, <3>1, Zenon DEF EndpointRequest
    <3> QED
      BY <3>2, <3>3, <3>4, <3>5
  <2> PICK q \in Reply, in \in tables : \E out : Answer(q, in, out)
    BY <2>5
  <2>6. in \in INTable /\ in[HID_IEP] \in {IN_ep[HID_IEP], stall_IEP(IN_ep, HID_IEP)[HID_IEP]}
    BY <1>2, <2>4
  <2>7. /\ IN_ep'[HID_IEP] = in[HID_IEP]
        /\ HID_IEP \in DIEPEMPMSK' <=> HID_IEP \in DIEPEMPMSK
    BY <2>6, AnswerHID
  <2> QED
    BY <2>1, <2>6, <2>7 DEF HIDOutcome, HIDKept
<1>8. CASE OtherRequest(h)
  BY <1>4, <1>8, PlainReplies DEF OtherRequest, AnswerOnly
<1> QED
  BY <1>5, <1>6, <1>7, <1>8

\* What the driver functions do to the HID endpoint.
Opened1(e, f) ==
  /\ e.USBAEP = TRUE /\ e.mps = HID_MPS /\ e.is_used = TRUE /\ e.is_stall = f.is_stall
  /\ e.STALL = f.STALL /\ e.EPDIS = f.EPDIS
  /\ e.EPENA = f.EPENA /\ e.size = f.size /\ e.count = f.count /\ e.buffer = f.buffer
Closed1(e, f) ==
  /\ e.USBAEP = FALSE /\ e.mps = f.mps /\ e.is_used = FALSE /\ e.is_stall = f.is_stall
  /\ e.STALL = f.STALL /\ e.EPDIS = (f.EPDIS \/ f.EPENA)
  /\ e.EPENA = FALSE /\ e.size = f.size /\ e.count = f.count /\ e.buffer = f.buffer
Halted1(e, f) ==
  /\ e.USBAEP = f.USBAEP /\ e.mps = f.mps /\ e.is_used = f.is_used
  /\ e.STALL = TRUE /\ e.EPDIS = (f.EPENA /\ f.EPDIS)
  /\ e.EPENA = f.EPENA /\ e.size = f.size /\ e.count = f.count /\ e.buffer = f.buffer

LEMMA HID1 ==
  ASSUME NEW in \in INTable
  PROVE  /\ Opened1(HID_init(in)[HID_IEP], in[HID_IEP])
         /\ Closed1(HID_deinit(in)[HID_IEP], in[HID_IEP])
         /\ Halted1(stall_IEP(in, HID_IEP)[HID_IEP], in[HID_IEP])
<1>1. HID_IEP \in EpNum /\ HID_IEP # 0 /\ in[HID_IEP] \in INEndpoint
  BY DEF HID_IEP, EpNum, INTable
<1> DEFINE f == in[HID_IEP]
           o == [f EXCEPT !.mps = HID_MPS, !.USBAEP = TRUE, !.is_used = TRUE]
           c == [f EXCEPT !.USBAEP = FALSE, !.EPDIS = f.EPDIS \/ f.EPENA, !.EPENA = FALSE, !.is_used = FALSE]
           s == [f EXCEPT !.is_stall = TRUE, !.STALL = TRUE, !.EPDIS = (HID_IEP = 0 \/ f.EPENA) /\ f.EPDIS]
<1>2. HID_init(in)[HID_IEP] = o
  BY <1>1 DEF HID_init, open_IEP, INTable
<1>3. HID_deinit(in)[HID_IEP] = c
  BY <1>1 DEF HID_deinit, close_IEP, INTable
<1>4. stall_IEP(in, HID_IEP)[HID_IEP] = s
  BY <1>1 DEF stall_IEP, INTable
<1>5. Opened1(o, f)
  BY <1>1 DEF INEndpoint, Opened1
<1>6. Closed1(c, f)
  BY <1>1 DEF INEndpoint, Closed1
<1>7. Halted1(s, f)
  BY <1>1 DEF INEndpoint, Halted1
<1> HIDE DEF o, c, s
<1> QED
  BY <1>2, <1>3, <1>4, <1>5, <1>6, <1>7

\* No step but the handler of a bus reset takes the endpoint out of a halt.
LEMMA HaltKept ==
  ASSUME TypeOK, IN_ep[HID_IEP].STALL, [Next]_vars, ~USB_reset_IRQ
  PROVE  IN_ep'[HID_IEP].STALL
<1> USE DEF driverVars, handleVars, controlVars, epVars
<1>1. HID_IEP \in EpNum \ {0} /\ 0 \in EpNum /\ 1 \in EpNum /\ IN_ep \in INTable
  BY DEF HID_IEP, EpNum, TypeOK, EndpointsOK, INTable
<1>2. CASE IN_ep' = IN_ep
  BY <1>2
<1>3. \A m \in EpNum : /\ [IN_ep EXCEPT ![m].EPENA = FALSE][HID_IEP].STALL = IN_ep[HID_IEP].STALL
                       /\ [IN_ep EXCEPT ![m].EPDIS = FALSE][HID_IEP].STALL = IN_ep[HID_IEP].STALL
                       /\ [IN_ep EXCEPT ![m].count = IN_ep[m].size][HID_IEP].STALL = IN_ep[HID_IEP].STALL
  BY <1>1 DEF INTable, INEndpoint
<1>4. \A t \in INTable : t[HID_IEP] = IN_ep[HID_IEP] => t[HID_IEP].STALL
  OBVIOUS
<1>5. CASE BusEvent
  <2>1. IN_ep' = IN_ep \/ IN_ep' = [IN_ep EXCEPT ![0] = [@ EXCEPT !.STALL = FALSE, !.EPENA = FALSE]]
    BY <1>5 DEF BusEvent, BusReset, Enumerated, BusSuspend, BusResume, HostSetup
  <2> QED
    BY <1>1, <2>1 DEF INTable
<1>6. CASE Core
  <2>1. \/ IN_ep' = IN_ep
        \/ \E m \in EpNum : \/ IN_ep' = [IN_ep EXCEPT ![m].EPENA = FALSE]
                             \/ IN_ep' = [IN_ep EXCEPT ![m].EPDIS = FALSE]
    BY <1>1, <1>6 DEF Core, HostReadsData, HostReadsStatus, HostReadsReport, Send, HostSendsStatus,
       HostSeesStall, HostAborts, EndpointDisabled
  <2> QED
    BY <1>3, <2>1
<1>7. CASE send_HID_report
  <2>1. IN_ep' = [IN_ep EXCEPT ![HID_IEP] = [@ EXCEPT !.buffer = "report",
                   !.size = TransferSize(IN_ep, HID_IEP, 8), !.count = 0, !.EPENA = TRUE]]
    BY <1>7 DEF send_HID_report, IN_transfer
  <2> QED
    BY <1>1, <2>1 DEF INTable, INEndpoint
<1>8. CASE OEP_setup_done
  <2>1. HIDOutcome
    BY <1>8, RequestHID DEF OEP_setup_done, TypeOK, ControlOK
  <2>2. \/ IN_ep'[HID_IEP] = IN_ep[HID_IEP] \/ Halted1(IN_ep'[HID_IEP], IN_ep[HID_IEP])
        \/ Opened1(IN_ep'[HID_IEP], IN_ep[HID_IEP]) \/ Closed1(IN_ep'[HID_IEP], IN_ep[HID_IEP])
        \/ Opened1(IN_ep'[HID_IEP], HID_deinit(IN_ep)[HID_IEP])
    BY <1>1, <2>1, HID1, HIDTypes DEF HIDOutcome, HIDKept, HIDOpened, HIDClosed
  <2>3. Closed1(HID_deinit(IN_ep)[HID_IEP], IN_ep[HID_IEP])
    BY <1>1, HID1
  <2> QED
    BY <2>2, <2>3 DEF Halted1, Opened1, Closed1
<1>9. CASE USB_enumeration_done_IRQ
  <2> DEFINE closed == HID_deinit(IN_ep)
  <2>1. IN_ep' = [open_IEP(closed, 0, EP0_MPS) EXCEPT ![0].is_used = TRUE]
    BY <1>9 DEF USB_enumeration_done_IRQ
  <2>2. closed \in INTable /\ Closed1(closed[HID_IEP], IN_ep[HID_IEP])
    BY <1>1, HID1, HIDTypes
  <2> HIDE DEF closed
  <2>3. IN_ep'[HID_IEP] = closed[HID_IEP]
    BY <1>1, <2>1, <2>2 DEF open_IEP, INTable
  <2> QED
    BY <2>2, <2>3 DEF Closed1
<1>10. CASE IEP_transfer_complete_IRQ \/ OEP_transfer_complete
  <2>1. \/ IN_ep' = IN_ep \/ IN_ep' = stall_IEP(IN_ep, 0)
        \/ \E buffer, size : IN_ep' = IN_transfer(IN_ep, 0, buffer, size)
    BY <1>10, Zenon DEF IEP_transfer_complete_IRQ, OEP_transfer_complete
  <2>2. \A buffer, size : IN_transfer(IN_ep, 0, buffer, size)[HID_IEP] = IN_ep[HID_IEP]
    BY <1>1 DEF IN_transfer, INTable
  <2>3. stall_IEP(IN_ep, 0)[HID_IEP] = IN_ep[HID_IEP]
    BY <1>1, stall_IEPType
  <2> QED
    BY <2>1, <2>2, <2>3
<1>11. CASE Driver /\ ~OEP_setup_done /\ ~USB_enumeration_done_IRQ /\ ~IEP_transfer_complete_IRQ
                   /\ ~OEP_transfer_complete
  <2>1. \/ IN_ep' = IN_ep
        \/ \E m \in EpNum : IN_ep' = [IN_ep EXCEPT ![m].count = IN_ep[m].size]
    BY <1>11 DEF Driver, USB_common_handler, USB_receive_packet_IRQ, USB_suspend_IRQ,
       USB_suspend_acknowledge, IEP_interrupts, IEP_common_handler, IEP_disabled_IRQ,
       IEP_FIFO_empty_IRQ, OEP_interrupts, OEP_common_handler, USB_wake_up_IRQ
  <2> QED
    BY <1>3, <2>1
<1>12. CASE UNCHANGED vars
  BY <1>2, <1>12 DEF vars
<1> QED
  BY <1>5, <1>6, <1>7, <1>8, <1>9, <1>10, <1>11, <1>12 DEF Next

\* A halt of the HID endpoint ends with a bus reset and nothing else.
THEOREM HaltCorrect == Spec => HaltEndsWithReset
<1>1. TypeOK /\ [Next]_vars
        => [IN_ep[HID_IEP].STALL /\ ~IN_ep'[HID_IEP].STALL => <<"USBRST", 0>> \in calls]_vars
  <2>1. USB_reset_IRQ => <<"USBRST", 0>> \in calls
    BY DEF USB_reset_IRQ, Calling
  <2> QED
    BY <2>1, HaltKept
<1> QED
  BY <1>1, TypeCorrect, PTL DEF Spec, HaltEndsWithReset

=============================================================================
