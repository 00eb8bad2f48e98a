--------------------------- MODULE UsbDevice_proofs ---------------------------
(***************************************************************************)
(* Invariants of the device driver for every set of requests, every choice *)
(* of the events that wait for the driver and every FIFO depth: what the   *)
(* driver functions return, type correctness, the HID endpoint following   *)
(* the configuration, and the refinement of Chapter9.                      *)
(***************************************************************************)
EXTENDS UsbDevice, TLAPS

-----------------------------------------------------------------------------
(***************************************************************************)
(* What the driver functions of UsbEndpoint return: tables of endpoints    *)
(* again, and which fields of which endpoint they leave alone.  Every      *)
(* reply is well formed, and a reply acts on EP0 only.                     *)
(***************************************************************************)

INTable  == [EpNum -> INEndpoint]
OUTTable == [EpNum -> OUTEndpoint]

\* A transfer never gets larger than what the caller asked for.
LEMMA TransferSizeType ==
  ASSUME NEW in \in INTable, NEW n \in EpNum, NEW size \in Sizes
  PROVE  TransferSize(in, n, size) \in Sizes /\ TransferSize(in, n, size) <= size
BY DEF TransferSize, INTable, INEndpoint, EpNum, Sizes, HID_MPS, EP0_MPS

\* IN_transfer arms one endpoint and touches neither USBAEP nor is_used.
LEMMA IN_transferType ==
  ASSUME NEW in \in INTable, NEW n \in EpNum, NEW buffer \in Buffers, NEW size \in Sizes
  PROVE  /\ IN_transfer(in, n, buffer, size) \in INTable
         /\ \A m \in EpNum : IN_transfer(in, n, buffer, size)[m].USBAEP = in[m].USBAEP
         /\ \A m \in EpNum : IN_transfer(in, n, buffer, size)[m].is_used = in[m].is_used
         /\ \A m \in EpNum \ {n} : IN_transfer(in, n, buffer, size)[m] = in[m]
<1> DEFINE ep == [in[n] EXCEPT !.buffer = buffer, !.size = TransferSize(in, n, size),
                           !.count = 0, !.EPENA = TRUE]
<1>0. TransferSize(in, n, size) \in Sizes /\ 0 \in Sizes /\ TRUE \in BOOLEAN
  <2>1. TransferSize(in, n, size) \in Sizes
    BY TransferSizeType
  <2> QED
    BY <2>1 DEF Sizes
<1>1. in[n] \in INEndpoint
  BY DEF INTable
<1>2. ep \in INEndpoint
  BY Zenon, <1>1, <1>0 DEF INEndpoint
<1>4. ep.USBAEP = in[n].USBAEP /\ ep.is_used = in[n].is_used
  BY <1>1 DEF INEndpoint
<1>3. IN_transfer(in, n, buffer, size) = [in EXCEPT ![n] = ep]
  BY DEF IN_transfer
<1> HIDE DEF ep
<1>5. /\ IN_transfer(in, n, buffer, size) \in INTable /\ IN_transfer(in, n, buffer, size)[n] = ep
      /\ \A m \in EpNum \ {n} : IN_transfer(in, n, buffer, size)[m] = in[m]
  BY <1>2, <1>3 DEF INTable
<1> QED
  BY <1>4, <1>5

\* open_IEP activates one endpoint.
LEMMA open_IEPType ==
  ASSUME NEW in \in INTable, NEW n \in EpNum, NEW mps \in {0, HID_MPS, EP0_MPS}
  PROVE  /\ open_IEP(in, n, mps) \in INTable
         /\ open_IEP(in, n, mps)[n].USBAEP
         /\ \A m \in EpNum : open_IEP(in, n, mps)[m].is_used = in[m].is_used
         /\ \A m \in EpNum \ {n} : open_IEP(in, n, mps)[m] = in[m]
<1> DEFINE ep == [in[n] EXCEPT !.mps = mps, !.USBAEP = TRUE]
<1>0. TRUE \in BOOLEAN
  OBVIOUS
<1>1. in[n] \in INEndpoint
  BY DEF INTable
<1>2. ep \in INEndpoint
  BY Zenon, <1>1, <1>0 DEF INEndpoint
<1>4. ep.USBAEP = TRUE /\ ep.is_used = in[n].is_used
  BY <1>1 DEF INEndpoint
<1>3. open_IEP(in, n, mps) = [in EXCEPT ![n] = ep]
  BY DEF open_IEP
<1> HIDE DEF ep
<1>5. /\ open_IEP(in, n, mps) \in INTable /\ open_IEP(in, n, mps)[n] = ep
      /\ \A m \in EpNum \ {n} : open_IEP(in, n, mps)[m] = in[m]
  BY <1>2, <1>3 DEF INTable
<1> QED
  BY <1>4, <1>5

\* close_IEP deactivates one endpoint.
LEMMA close_IEPType ==
  ASSUME NEW in \in INTable, NEW n \in EpNum
  PROVE  /\ close_IEP(in, n) \in INTable
         /\ ~close_IEP(in, n)[n].USBAEP
         /\ \A m \in EpNum : close_IEP(in, n)[m].is_used = in[m].is_used
         /\ \A m \in EpNum \ {n} : close_IEP(in, n)[m] = in[m]
<1> DEFINE ep == [in[n] EXCEPT !.USBAEP = FALSE, !.EPDIS = in[n].EPDIS \/ in[n].EPENA,
                           !.EPENA = FALSE]
<1>0. {TRUE, FALSE, in[n].EPDIS \/ in[n].EPENA} \subseteq BOOLEAN
  OBVIOUS
<1>1. in[n] \in INEndpoint
  BY DEF INTable
<1>2. ep \in INEndpoint
  BY Zenon, <1>1, <1>0 DEF INEndpoint
<1>4. ep.USBAEP = FALSE /\ ep.is_used = in[n].is_used
  BY <1>1 DEF INEndpoint
<1>3. close_IEP(in, n) = [in EXCEPT ![n] = ep]
  BY DEF close_IEP
<1> HIDE DEF ep
<1>5. /\ close_IEP(in, n) \in INTable /\ close_IEP(in, n)[n] = ep
      /\ \A m \in EpNum \ {n} : close_IEP(in, n)[m] = in[m]
  BY <1>2, <1>3 DEF INTable
<1> QED
  BY <1>4, <1>5

\* Stalling and un-stalling an endpoint touch neither USBAEP nor is_used.
LEMMA stall_IEPType ==
  ASSUME NEW in \in INTable, NEW n \in EpNum
  PROVE  /\ stall_IEP(in, n) \in INTable
         /\ \A m \in EpNum : stall_IEP(in, n)[m].USBAEP = in[m].USBAEP
         /\ \A m \in EpNum : stall_IEP(in, n)[m].is_used = in[m].is_used
         /\ \A m \in EpNum \ {n} : stall_IEP(in, n)[m] = in[m]
<1> DEFINE ep == [in[n] EXCEPT !.is_stall = TRUE, !.STALL = TRUE,
                           !.EPDIS = (n = 0 \/ in[n].EPENA) /\ in[n].EPDIS]
<1>0. {TRUE, (n = 0 \/ in[n].EPENA) /\ in[n].EPDIS} \subseteq BOOLEAN
  OBVIOUS
<1>1. in[n] \in INEndpoint
  BY DEF INTable
<1>2. ep \in INEndpoint
  BY Zenon, <1>1, <1>0 DEF INEndpoint
<1>4. ep.USBAEP = in[n].USBAEP /\ ep.is_used = in[n].is_used
  BY <1>1 DEF INEndpoint
<1>3. stall_IEP(in, n) = [in EXCEPT ![n] = ep]
  BY DEF stall_IEP
<1> HIDE DEF ep
<1>5. /\ stall_IEP(in, n) \in INTable /\ stall_IEP(in, n)[n] = ep
      /\ \A m \in EpNum \ {n} : stall_IEP(in, n)[m] = in[m]
  BY <1>2, <1>3 DEF INTable
<1> QED
  BY <1>4, <1>5

LEMMA unstall_IEPType ==
  ASSUME NEW in \in INTable, NEW n \in EpNum
  PROVE  /\ unstall_IEP(in, n) \in INTable
         /\ \A m \in EpNum : unstall_IEP(in, n)[m].USBAEP = in[m].USBAEP
         /\ \A m \in EpNum : unstall_IEP(in, n)[m].is_used = in[m].is_used
         /\ \A m \in EpNum \ {n} : unstall_IEP(in, n)[m] = in[m]
<1> DEFINE ep == [in[n] EXCEPT !.is_stall = FALSE, !.STALL = FALSE]
<1>0. FALSE \in BOOLEAN
  OBVIOUS
<1>1. in[n] \in INEndpoint
  BY DEF INTable
<1>2. ep \in INEndpoint
  BY Zenon, <1>1, <1>0 DEF INEndpoint
<1>4. ep.USBAEP = in[n].USBAEP /\ ep.is_used = in[n].is_used
  BY <1>1 DEF INEndpoint
<1>3. unstall_IEP(in, n) = [in EXCEPT ![n] = ep]
  BY DEF unstall_IEP
<1> HIDE DEF ep
<1>5. /\ unstall_IEP(in, n) \in INTable /\ unstall_IEP(in, n)[n] = ep
      /\ \A m \in EpNum \ {n} : unstall_IEP(in, n)[m] = in[m]
  BY <1>2, <1>3 DEF INTable
<1> QED
  BY <1>4, <1>5

\* The functions on OUT endpoints return tables of OUT endpoints.
LEMMA OUTTypes ==
  ASSUME NEW out \in OUTTable, NEW n \in EpNum
  PROVE  /\ OUT_transfer(out, n) \in OUTTable
         /\ open_OEP(out, n) \in OUTTable
         /\ stall_OEP(out, n) \in OUTTable
         /\ unstall_OEP(out, n) \in OUTTable
<1>1. OUT_transfer(out, n) \in OUTTable /\ open_OEP(out, n) \in OUTTable
  BY DEF OUT_transfer, open_OEP, OUTTable, OUTEndpoint
<1>2. stall_OEP(out, n) \in OUTTable /\ unstall_OEP(out, n) \in OUTTable
  BY DEF stall_OEP, unstall_OEP, OUTTable, OUTEndpoint
<1> QED
  BY <1>1, <1>2

\* What a SETUP packet does to the two halves of EP0.
LEMMA SetupAccepted ==
  ASSUME NEW in \in INTable, NEW out \in OUTTable
  PROVE  /\ [in EXCEPT ![0] = [@ EXCEPT !.STALL = FALSE, !.EPENA = FALSE]] \in INTable
         /\ [out EXCEPT ![0] = [@ EXCEPT !.STALL = FALSE, !.EPENA = FALSE]] \in OUTTable
<1>1. \A e \in INEndpoint : [e EXCEPT !.STALL = FALSE, !.EPENA = FALSE] \in INEndpoint
  BY DEF INEndpoint
<1>2. \A e \in OUTEndpoint : [e EXCEPT !.STALL = FALSE, !.EPENA = FALSE] \in OUTEndpoint
  BY DEF OUTEndpoint
<1>3. 0 \in EpNum
  BY DEF EpNum
<1> DEFINE i == [in[0] EXCEPT !.STALL = FALSE, !.EPENA = FALSE]
           o == [out[0] EXCEPT !.STALL = FALSE, !.EPENA = FALSE]
<1>4. i \in INEndpoint /\ o \in OUTEndpoint
  BY <1>1, <1>2, <1>3 DEF INTable, OUTTable
<1> HIDE DEF i, o
<1>5. [in EXCEPT ![0] = i] \in INTable /\ [out EXCEPT ![0] = o] \in OUTTable
  BY <1>4 DEF INTable, OUTTable
<1> QED
  BY <1>5 DEF i, o

\* Clearing one flag.
LEMMA FlagsType ==
  ASSUME NEW n \in EpNum
  PROVE  /\ \A in \in INTable : /\ [in EXCEPT ![n].EPENA = FALSE] \in INTable
                              /\ [in EXCEPT ![n].EPDIS = FALSE] \in INTable
         /\ \A out \in OUTTable : [out EXCEPT ![n].EPENA = FALSE] \in OUTTable
<1>1. ASSUME NEW in \in INTable
      PROVE  /\ [in EXCEPT ![n].EPENA = FALSE] \in INTable
             /\ [in EXCEPT ![n].EPDIS = FALSE] \in INTable
  <2>1. \A ep \in INEndpoint : /\ [ep EXCEPT !.EPENA = FALSE] \in INEndpoint
                               /\ [ep EXCEPT !.EPDIS = FALSE] \in INEndpoint
    BY Zenon DEF INEndpoint
  <2> QED
    BY <2>1 DEF INTable
<1>2. ASSUME NEW out \in OUTTable
      PROVE  [out EXCEPT ![n].EPENA = FALSE] \in OUTTable
  <2>1. \A ep \in OUTEndpoint : [ep EXCEPT !.EPENA = FALSE] \in OUTEndpoint
    BY Zenon DEF OUTEndpoint
  <2> QED
    BY <2>1 DEF OUTTable
<1> QED
  BY <1>1, <1>2

\* The marks of an open endpoint.
LEMMA UsedType ==
  ASSUME NEW n \in EpNum
  PROVE  /\ \A in \in INTable : [in EXCEPT ![n].is_used = TRUE] \in INTable
         /\ \A out \in OUTTable : [out EXCEPT ![n].is_used = TRUE] \in OUTTable
<1>1. \A ep \in INEndpoint : [ep EXCEPT !.is_used = TRUE] \in INEndpoint
  BY Zenon DEF INEndpoint
<1>2. \A ep \in OUTEndpoint : [ep EXCEPT !.is_used = TRUE] \in OUTEndpoint
  BY Zenon DEF OUTEndpoint
<1> QED
  BY <1>1, <1>2 DEF INTable, OUTTable

\* What a bus reset does to every endpoint.
LEMMA ResetType ==
  ASSUME NEW in \in INTable, NEW out \in OUTTable
  PROVE  /\ [n \in EpNum |-> [in[n] EXCEPT !.STALL = FALSE]] \in INTable
         /\ [n \in EpNum |-> [out[n] EXCEPT !.STALL = FALSE, !.EPENA = FALSE]] \in OUTTable
<1>1. \A ep \in INEndpoint : [ep EXCEPT !.STALL = FALSE] \in INEndpoint
  BY Zenon DEF INEndpoint
<1>2. \A ep \in OUTEndpoint : [ep EXCEPT !.STALL = FALSE, !.EPENA = FALSE] \in OUTEndpoint
  BY Zenon DEF OUTEndpoint
<1> QED
  BY <1>1, <1>2 DEF INTable, OUTTable

\* A transfer whose data have all been copied.
LEMMA CountType ==
  ASSUME NEW in \in INTable, NEW n \in EpNum
  PROVE  [in EXCEPT ![n].count = in[n].size] \in INTable
BY DEF INTable, INEndpoint

\* What is left to send of a transfer, if that is anything, fits a size.
LEMMA LeftToSend ==
  ASSUME NEW in \in INTable, NEW n \in EpNum, in[n].size - in[n].count > in[n].mps
  PROVE  in[n].size - in[n].count \in Sizes /\ in[n].buffer \in Buffers
<1>1. /\ in[n].size \in Sizes /\ in[n].count \in Sizes /\ in[n].buffer \in Buffers
      /\ in[n].mps \in {0, HID_MPS, EP0_MPS}
  BY DEF INTable, INEndpoint
<1>2. ASSUME NEW a \in Sizes, NEW b \in Sizes, NEW m \in Nat, a - b > m
      PROVE  a - b \in Sizes
  <2>1. a \in 0..255 /\ b \in 0..255
    BY DEF Sizes
  <2>2. a - b \in 0..255
    BY <1>2, <2>1
  <2> QED
    BY <2>2 DEF Sizes
<1>3. {0, HID_MPS, EP0_MPS} \subseteq Nat
  BY DEF HID_MPS, EP0_MPS
<1> QED
  BY <1>1, <1>2, <1>3

\* The endpoints start as tables of closed endpoints.
LEMMA InitialTypes == InitialIN \in INTable /\ InitialOUT \in OUTTable
BY DEF InitialIN, InitialOUT, INTable, OUTTable, INEndpoint, OUTEndpoint, Buffers, Sizes

-----------------------------------------------------------------------------
(* Replies *)

Reply == [kind : {"data", "status", "stall", "stall_in", "stall_out", "none"},
          buffer : Buffers, size : Sizes]

\* The replies without data.
LEMMA PlainReplies == {Status, Stall, StallIN, StallOUT, NoReply} \subseteq Reply
BY DEF Status, Stall, StallIN, StallOUT, NoReply, Reply, Buffers, Sizes

\* A reply with data.
LEMMA DataReply ==
  ASSUME NEW buffer \in Buffers, NEW size \in Sizes
  PROVE  Data(buffer, size) \in Reply
BY DEF Data, Reply

\* Buffers of a few bytes.
LEMMA SmallReplies ==
  /\ \A b \in Variables \cup {StackVariable} : Data(b, 1) \in Reply /\ Data(b, 2) \in Reply
<1>1. 1 \in Sizes /\ 2 \in Sizes
  BY DEF Sizes
<1>2. Variables \cup {StackVariable} \subseteq Buffers
  BY DEF Buffers
<1> QED
  BY <1>1, <1>2, DataReply

\* A descriptor cut to what the host asked for is a reply.
LEMMA DescriptorReply ==
  ASSUME NEW d \in Descriptors, NEW length \in Nat
  PROVE  Data(d, Minimum(DescriptorSize[d], length)) \in Reply
<1>1. DescriptorSize[d] \in Sizes
  BY DEF DescriptorSize, Descriptors, Sizes
<1>2. Minimum(DescriptorSize[d], length) \in Sizes
  BY <1>1 DEF Minimum, Sizes
<1>3. d \in Buffers
  BY DEF Buffers
<1> QED
  BY <1>2, <1>3, DataReply

\* A wValue names a descriptor or none.
LEMMA NamedDescriptors ==
  ASSUME NEW value \in Nat
  PROVE  /\ DeviceDescriptor(value) \in Descriptors \cup {"NULL"}
         /\ HIDDescriptor(value) \in Descriptors \cup {"NULL"}
<1>1. StringDescriptor(Low(value)) \in Descriptors \cup {"NULL"}
  BY DEF StringDescriptor, Descriptors
<1>2. HIDDescriptor(value) \in Descriptors \cup {"NULL"}
  BY DEF HIDDescriptor, Descriptors
<1>3. {"device", "config"} \subseteq Descriptors
  BY DEF Descriptors
<1> QED
  BY <1>1, <1>2, <1>3 DEF DeviceDescriptor

\* The numbers of a header.
LEMMA HeaderNumbers ==
  ASSUME NEW h \in Header
  PROVE  h.value \in Nat /\ h.index \in Nat /\ h.length \in Nat
<1>1. h.value \in Words /\ h.index \in Words /\ h.length \in Words
  BY Zenon DEF Header
<1>2. Words \subseteq Nat
  BY DEF Words
<1> QED
  BY <1>1, <1>2

\* What the class replies.
LEMMA HID_setupReply ==
  ASSUME NEW state, NEW h \in Header
  PROVE  HID_setup(state, h) \in Reply
<1>1. h.value \in Nat /\ h.length \in Nat
  BY HeaderNumbers
<1>2. HIDDescriptor(h.value) # "NULL" =>
        Data(HIDDescriptor(h.value),
             Minimum(DescriptorSize[HIDDescriptor(h.value)], h.length)) \in Reply
  BY <1>1, NamedDescriptors, DescriptorReply
<1>3. {"protocol", "idle", "alt_setting", StackVariable} \subseteq Variables \cup {StackVariable}
  BY DEF Variables
<1>4. /\ Data("protocol", 1) \in Reply /\ Data("idle", 1) \in Reply
      /\ Data("alt_setting", 1) \in Reply /\ Data(StackVariable, 2) \in Reply
  BY <1>3, SmallReplies
<1> QED
  BY <1>2, <1>4, PlainReplies, Zenon DEF HID_setup

\* A reply leaves a table of endpoints, none of which it opens, closes, marks as
\* used or forgets, and touches EP0 only.
LEMMA ReplyINType ==
  ASSUME NEW in \in INTable, NEW r \in Reply
  PROVE  /\ ReplyIN(in, r) \in INTable
         /\ \A m \in EpNum : /\ ReplyIN(in, r)[m].USBAEP = in[m].USBAEP
                             /\ ReplyIN(in, r)[m].is_used = in[m].is_used
         /\ \A m \in EpNum \ {0} : ReplyIN(in, r)[m] = in[m]
<1>1. 0 \in EpNum /\ r.buffer \in Buffers /\ r.size \in Sizes
  BY DEF EpNum, Reply
<1>2. CASE r.kind \in {"data", "status"}
  <2>1. ReplyIN(in, r) = IN_transfer(in, 0, r.buffer, r.size)
    BY <1>2 DEF ReplyIN
  <2> QED
    BY <1>1, <2>1, IN_transferType
<1>3. CASE r.kind \in {"stall", "stall_in"}
  <2>1. ReplyIN(in, r) = stall_IEP(in, 0)
    BY <1>3 DEF ReplyIN
  <2> QED
    BY <1>1, <2>1, stall_IEPType
<1>4. CASE r.kind \notin {"data", "status", "stall", "stall_in"}
  <2>1. ReplyIN(in, r) = in
    BY <1>4 DEF ReplyIN
  <2> QED
    BY <2>1
<1> QED
  BY <1>2, <1>3, <1>4

\* The other parts of a reply have their types too.
LEMMA ReplyTypes ==
  ASSUME NEW out \in OUTTable, NEW mask \in SUBSET EpNum, NEW r \in Reply
  PROVE  /\ ReplyOUT(out, r) \in OUTTable
         /\ ReplyMask(mask, r) \in SUBSET EpNum
         /\ ReplyState(r) \in {"DATA_IN", "STATUS_IN", "SETUP"}
<1>1. 0 \in EpNum
  BY DEF EpNum
<1> QED
  BY <1>1, OUTTypes DEF ReplyOUT, ReplyMask, ReplyState, IN_transfer_mask

-----------------------------------------------------------------------------
(* The steps of the driver. *)

\* The packets the host sends are headers.
LEMMA PacketsAreHeaders == Packets \subseteq Header
<1>1. {0} \subseteq Words
  BY DEF Words
<1>2. ZeroHeader \in Header
  BY <1>1 DEF ZeroHeader, Header, Commands
<1> QED
  BY <1>2, RequestsAssumption DEF Packets

-----------------------------------------------------------------------------
(* Type correctness *)

LEMMA TypeInit == Init => TypeOK
<1>1. InitialIN \in INTable /\ InitialOUT \in OUTTable
  BY InitialTypes
<1> SUFFICES ASSUME Init PROVE TypeOK
  OBVIOUS
<1>2. HandleOK
  <2>1. remote_wakeup \in BOOLEAN
    BY Zenon DEF Init
  <2>2. dev_config \in 0..MAX_CONFIGURATION_COUNT
    BY DEF Init, MAX_CONFIGURATION_COUNT
  <2> QED
    BY <2>1, <2>2 DEF Init, HandleOK, DevStates
<1>5. ControlOK /\ HostOK
  BY DEF Init, ControlOK, HostOK, EP0States, Stages, Packets
<1>3. EndpointsOK
  BY <1>1 DEF Init, EndpointsOK, INTable, OUTTable
<1>4. CoreOK /\ calls \subseteq Calls
  BY DEF Init, CoreOK
<1> QED
  BY <1>2, <1>3, <1>4, <1>5 DEF TypeOK

\* The host and the core keep the types.
LEMMA TypeBusEvent == TypeOK /\ BusEvent => TypeOK'
<1> SUFFICES ASSUME TypeOK, BusEvent PROVE TypeOK'
  OBVIOUS
<1> USE DEF TypeOK, HandleOK, ControlOK, CoreOK, HostOK, driverVars, handleVars, controlVars, epVars
<1>1. CASE BusReset
  BY <1>1 DEF BusReset, EndpointsOK, Stages, GlobalInts
<1>2. CASE Enumerated
  BY <1>2 DEF Enumerated, EndpointsOK, GlobalInts
<1>3. CASE BusSuspend
  BY <1>3 DEF BusSuspend, EndpointsOK, GlobalInts
<1>4. CASE BusResume
  BY <1>4 DEF BusResume, EndpointsOK, GlobalInts
<1>5. CASE HostSetup
  <2>1. IN_ep' \in INTable /\ OUT_ep' \in OUTTable
    BY <1>5, SetupAccepted DEF HostSetup, EndpointsOK, INTable, OUTTable
  <2>2. PICK h \in Requests :
          /\ rx' = rx \o <<[status |-> "SETUP", packet |-> h], [status |-> "SETUP_DONE", packet |-> h]>>
          /\ req' = h
          /\ stage' = FirstStage(h)
    BY <1>5 DEF HostSetup
  <2>3. rx' \in Seq(RxEntries)
    <3>1. \A s \in {"SETUP", "SETUP_DONE"} : [status |-> s, packet |-> h] \in RxEntries
      BY DEF RxEntries, Packets
    <3> QED
      BY <2>2, <3>1
  <2>4. req' \in Packets /\ stage' \in Stages
    BY <2>2 DEF Packets, Stages, FirstStage
  <2> QED
    BY <1>5, <2>1, <2>3, <2>4 DEF HostSetup, EndpointsOK, INTable, OUTTable
<1> QED
  BY <1>1, <1>2, <1>3, <1>4, <1>5 DEF BusEvent

\* An IN transaction, and what the host does around it.
LEMMA TypeCore == TypeOK /\ Core => TypeOK'
<1> SUFFICES ASSUME TypeOK, Core PROVE TypeOK'
  OBVIOUS
<1> USE DEF driverVars, handleVars, controlVars, epVars, coreVars, hostVars
<1>1. ASSUME NEW n \in EpNum, Send(n), stage' \in Stages PROVE TypeOK'
  <2>1. IN_ep' \in INTable
    BY <1>1, FlagsType DEF Send, TypeOK, EndpointsOK, INTable
  <2>2. fifo' \in [EpNum -> Seq(Buffers)]
    <3>1. fifo[n] # <<>> => Tail(fifo[n]) \in Seq(Buffers)
      BY DEF TypeOK, CoreOK
    <3> QED
      BY <1>1, <3>1 DEF Send, CanSend, TypeOK, CoreOK
  <2>3. DIEPINT' \in [EpNum -> SUBSET {"XFRC", "EPDISD"}]
    BY <1>1 DEF Send, TypeOK, CoreOK
  <2> QED
    BY <1>1, <2>1, <2>2, <2>3 DEF Send, TypeOK, HandleOK, ControlOK, EndpointsOK, CoreOK, HostOK,
       INTable
<1>2. 0 \in EpNum /\ 1 \in EpNum
  BY DEF EpNum
<1>3. CASE HostReadsData
  BY <1>1, <1>2, <1>3 DEF HostReadsData, Stages
<1>4. CASE HostReadsStatus
  BY <1>1, <1>2, <1>4 DEF HostReadsStatus, Stages
<1>5. CASE HostReadsReport
  BY <1>1, <1>2, <1>5 DEF HostReadsReport, TypeOK, HostOK
<1>6. CASE HostSendsStatus
  <2>1. OUT_ep' \in OUTTable
    BY <1>2, <1>6, FlagsType DEF HostSendsStatus, TypeOK, EndpointsOK, OUTTable
  <2>2. rx' \in Seq(RxEntries)
    <3>1. [status |-> "OUT_DONE", packet |-> req] \in RxEntries
      BY DEF RxEntries, TypeOK, HostOK
    <3> QED
      BY <1>6, <3>1 DEF HostSendsStatus, TypeOK, CoreOK
  <2> QED
    BY <1>6, <2>1, <2>2 DEF HostSendsStatus, TypeOK, HandleOK, ControlOK, EndpointsOK, CoreOK,
       HostOK, OUTTable, Stages
<1>7. CASE HostSeesStall
  BY <1>7 DEF HostSeesStall, TypeOK, HandleOK, ControlOK, EndpointsOK, CoreOK, HostOK, Stages
<1>8. CASE HostAborts
  BY <1>8 DEF HostAborts, TypeOK, HandleOK, ControlOK, EndpointsOK, CoreOK, HostOK, Stages
<1>9. CASE EndpointDisabled
  <2> PICK n \in EpNum :
        /\ IN_ep' = [IN_ep EXCEPT ![n].EPDIS = FALSE]
        /\ DIEPINT' = [DIEPINT EXCEPT ![n] = @ \cup {"EPDISD"}]
    BY <1>9 DEF EndpointDisabled
  <2>1. IN_ep' \in INTable
    BY FlagsType DEF TypeOK, EndpointsOK, INTable
  <2>2. DIEPINT' \in [EpNum -> SUBSET {"XFRC", "EPDISD"}]
    BY DEF TypeOK, CoreOK
  <2> QED
    BY <1>9, <2>1, <2>2 DEF EndpointDisabled, TypeOK, HandleOK, ControlOK, EndpointsOK, CoreOK,
       HostOK, INTable
<1> QED
  BY <1>3, <1>4, <1>5, <1>6, <1>7, <1>8, <1>9 DEF Core

-----------------------------------------------------------------------------
(* Replies *)

\* The replies of the device, and of an endpoint to GET_STATUS.
LEMMA DeviceReplies ==
  ASSUME NEW h \in Header
  PROVE  /\ get_device_status(h) \in Reply
         /\ clear_device_feature(h) \in Reply
         /\ set_device_feature(h) \in Reply
         /\ get_device_descriptor(h) \in Reply
         /\ get_device_configuration(h) \in Reply
         /\ get_dendpoint_status(h) \in Reply
<1>1. Variables \subseteq Variables \cup {StackVariable}
  OBVIOUS
<1>2. {"dev_config_status", "dev_default_config", "dev_config", "ep_status", "ep_status_halted"}
        \subseteq Variables
  BY DEF Variables
<1>3. /\ Data("dev_config_status", 2) \in Reply
      /\ Data("dev_default_config", 1) \in Reply
      /\ Data("dev_config", 1) \in Reply
      /\ Data("ep_status", 2) \in Reply
      /\ Data("ep_status_halted", 2) \in Reply
  BY <1>1, <1>2, SmallReplies
<1>4. get_device_status(h) \in Reply
  BY <1>3, PlainReplies, Zenon DEF get_device_status
<1>5. clear_device_feature(h) \in Reply /\ set_device_feature(h) \in Reply
  BY PlainReplies, Zenon DEF clear_device_feature, set_device_feature
<1>6. get_device_configuration(h) \in Reply
  BY <1>3, PlainReplies, Zenon DEF get_device_configuration
<1>7. get_dendpoint_status(h) \in Reply
  BY <1>3, PlainReplies, Zenon DEF get_dendpoint_status
<1>8. get_device_descriptor(h) \in Reply
  <2> DEFINE d == DeviceDescriptor(h.value)
  <2>1. d # "NULL" => Data(d, Minimum(DescriptorSize[d], h.length)) \in Reply
    BY HeaderNumbers, NamedDescriptors, DescriptorReply
  <2> QED
    BY <2>1, PlainReplies, Zenon DEF get_device_descriptor
<1> QED
  BY <1>4, <1>5, <1>6, <1>7, <1>8

\* The endpoint HID_IEP in a table: open, and marked as used.
SameHID(in, other) ==
  /\ in[HID_IEP].USBAEP = other[HID_IEP].USBAEP
  /\ in[HID_IEP].is_used = other[HID_IEP].is_used

\* An answer keeps the types of what it changes and leaves the HID endpoint alone.
LEMMA AnswerType ==
  ASSUME DIEPEMPMSK \subseteq EpNum, NEW r \in Reply, NEW in \in INTable, NEW out \in OUTTable,
         Answer(r, in, out)
  PROVE  /\ ep0_state' \in EP0States
         /\ IN_ep' \in INTable /\ SameHID(IN_ep', in)
         /\ OUT_ep' \in OUTTable
         /\ DIEPEMPMSK' \subseteq EpNum
<1>1. HID_IEP \in EpNum
  BY DEF EpNum, HID_IEP
<1> QED
  BY <1>1, ReplyINType, ReplyTypes DEF Answer, SameHID, EP0States

\* Opening and closing the HID endpoint.
LEMMA HIDTypes ==
  ASSUME NEW in \in INTable
  PROVE  /\ HID_init(in) \in INTable
         /\ HID_init(in)[HID_IEP].USBAEP /\ HID_init(in)[HID_IEP].is_used
         /\ HID_deinit(in) \in INTable
         /\ ~HID_deinit(in)[HID_IEP].USBAEP /\ ~HID_deinit(in)[HID_IEP].is_used
<1>1. HID_IEP \in EpNum /\ HID_MPS \in {0, HID_MPS, EP0_MPS}
  BY DEF EpNum, HID_IEP
<1>2. TRUE \in BOOLEAN /\ FALSE \in BOOLEAN
  OBVIOUS
<1> DEFINE o == open_IEP(in, HID_IEP, HID_MPS)
           c == close_IEP(in, HID_IEP)
           opened == [o[HID_IEP] EXCEPT !.is_used = TRUE]
           closed == [c[HID_IEP] EXCEPT !.is_used = FALSE]
<1>3. o \in INTable /\ o[HID_IEP].USBAEP
  BY <1>1, open_IEPType
<1>4. c \in INTable /\ ~c[HID_IEP].USBAEP
  BY <1>1, close_IEPType
<1>5. HID_init(in) = [o EXCEPT ![HID_IEP] = opened]
  BY DEF HID_init
<1>6. HID_deinit(in) = [c EXCEPT ![HID_IEP] = closed]
  BY DEF HID_deinit
<1> HIDE DEF o, c
<1>7. o[HID_IEP] \in INEndpoint /\ c[HID_IEP] \in INEndpoint
  BY <1>1, <1>3, <1>4 DEF INTable
<1>8. opened \in INEndpoint /\ closed \in INEndpoint
  BY Zenon, <1>2, <1>7 DEF INEndpoint
<1>9. opened.is_used = TRUE /\ opened.USBAEP = o[HID_IEP].USBAEP
  BY <1>7 DEF INEndpoint
<1>10. closed.is_used = FALSE /\ closed.USBAEP = c[HID_IEP].USBAEP
  BY <1>7 DEF INEndpoint
<1> HIDE DEF opened, closed
<1>11. HID_init(in) \in INTable /\ HID_init(in)[HID_IEP] = opened
  BY <1>1, <1>3, <1>5, <1>8 DEF INTable
<1>12. HID_deinit(in) \in INTable /\ HID_deinit(in)[HID_IEP] = closed
  BY <1>1, <1>4, <1>6, <1>8 DEF INTable
<1> QED
  BY <1>3, <1>4, <1>9, <1>10, <1>11, <1>12

-----------------------------------------------------------------------------
(* The handlers keep the types. *)

\* The end of a setup stage: what it leaves alone, then what each kind of request does.
LEMMA TypeRequest ==
  ASSUME TypeOK, NEW h \in Packets,
         DeviceRequest(h) \/ InterfaceRequest(h) \/ EndpointRequest(h) \/ OtherRequest(h)
  PROVE  /\ HandleOK' /\ ep0_state' \in EP0States /\ EndpointsOK' /\ DAD' \in 0..127
<1> USE DEF handleVars
<1> DEFINE Kept == /\ HandleOK' /\ DAINTMSK' = DAINTMSK /\ DAD' \in 0..127
           Answered0 == /\ ep0_state' \in EP0States
                        /\ IN_ep' \in INTable /\ OUT_ep' \in OUTTable
                        /\ DIEPEMPMSK' \subseteq EpNum
<1>1. /\ h \in Header /\ h.value \in Nat
  BY PacketsAreHeaders, HeaderNumbers
<1>2. /\ DIEPEMPMSK \subseteq EpNum /\ DAINTMSK \subseteq {0, 1, 4, 16}
      /\ IN_ep \in INTable /\ OUT_ep \in OUTTable
  BY DEF TypeOK, EndpointsOK, INTable, OUTTable
<1>3. /\ DAD \in 0..127
      /\ HandleOK
  BY DEF TypeOK, CoreOK
<1>4. ASSUME Answered0, DAINTMSK' \subseteq {0, 1, 4, 16} PROVE EndpointsOK'
  BY <1>4 DEF EndpointsOK, INTable, OUTTable
<1>5. ASSUME NEW r \in Reply, AnswerOnly(r) PROVE Kept /\ Answered0
  <2>1. Answered0
    BY <1>2, <1>5, AnswerType DEF AnswerOnly
  <2> QED
    BY <1>3, <1>5, <2>1 DEF AnswerOnly, HandleOK
<1>6. CASE DeviceRequest(h)
  <2>1. ASSUME NEW r \in Reply, NEW b \in BOOLEAN, ChangeRemoteWakeup(r, b) PROVE Kept /\ Answered0
    <3>1. Answered0
      BY <1>2, <2>1, AnswerType DEF ChangeRemoteWakeup
    <3> QED
      BY <1>3, <2>1, <3>1 DEF ChangeRemoteWakeup, HandleOK
  <2>2. ASSUME set_device_address(h) PROVE Kept /\ Answered0
    <3>1. CASE AcceptsAddress(h)
      <4>1. Answered0
        BY <1>2, <2>2, <3>1, AnswerType, PlainReplies DEF set_device_address
      <4>2. h.value % 128 \in 0..127
        BY <1>1
      <4>3. AddressState(h) \in DevStates
        BY DEF AddressState, DevStates
      <4> QED
        BY <1>3, <2>2, <3>1, <4>1, <4>2, <4>3 DEF set_device_address, HandleOK
    <3>2. CASE ~AcceptsAddress(h)
      BY <1>5, <2>2, <3>2, PlainReplies DEF set_device_address
    <3> QED
      BY <3>1, <3>2
  <2>3. ASSUME set_device_configuration(h)
        PROVE  /\ HandleOK' /\ DAINTMSK' \subseteq {0, 1, 4, 16} /\ DAD' \in 0..127
               /\ Answered0
    <3> DEFINE config == Low(h.value)
               Good == /\ HandleOK' /\ DAINTMSK' \subseteq {0, 1, 4, 16} /\ DAD' \in 0..127
                       /\ Answered0
    <3>1. config \in Nat
      BY <1>1 DEF Low
    <3> HIDE DEF config
    <3>2. ASSUME NEW in \in INTable, Configure(in, config), ~RejectsConfiguration(config)
          PROVE  Good
      <4>1. Answered0
        BY <1>2, <3>2, AnswerType, PlainReplies, HIDTypes DEF Configure
      <4>2. DAINTMSK' \subseteq {0, 1, 4, 16}
        BY <1>2, <3>2 DEF Configure, open_IEP_mask, HID_IEP
      <4>3. config \in 0..MAX_CONFIGURATION_COUNT
        BY <3>1, <3>2 DEF RejectsConfiguration, MAX_CONFIGURATION_COUNT
      <4> QED
        BY <1>3, <3>2, <4>1, <4>2, <4>3 DEF Configure, HandleOK, DevStates
    <3>3. ASSUME NEW r \in Reply, NEW state \in DevStates, NEW c \in 0..MAX_CONFIGURATION_COUNT,
                 Unconfigure(r, state, c)
          PROVE  Good
      <4>1. Answered0
        BY <1>2, <3>3, AnswerType, HIDTypes DEF Unconfigure
      <4>2. DAINTMSK' \subseteq {0, 1, 4, 16}
        BY <1>2, <3>3 DEF Unconfigure, close_IEP_mask
      <4> QED
        BY <1>3, <3>3, <4>1, <4>2 DEF Unconfigure, HandleOK, DevStates
    <3>4. \A r \in {Stall, Status} : AnswerOnly(r) => Good
      BY <1>2, <1>5, PlainReplies
    <3>5. HID_deinit(IN_ep) \in INTable
      BY <1>2, HIDTypes
    <3>6. CASE RejectsConfiguration(config)
      BY <2>3, <3>4, <3>6 DEF set_device_configuration, config
    <3>7. CASE ~RejectsConfiguration(config) /\ dev_state = "ADDRESSED"
      BY <1>2, <2>3, <3>2, <3>4, <3>7 DEF set_device_configuration, config
    <3>8. CASE ~RejectsConfiguration(config) /\ dev_state = "CONFIGURED"
      <4>1. CASE config = 0
        <5>1. Unconfigure(Status, "ADDRESSED", config)
          BY <2>3, <3>8, <4>1, Zenon DEF set_device_configuration, config
        <5>2. config \in 0..MAX_CONFIGURATION_COUNT
          BY <4>1 DEF MAX_CONFIGURATION_COUNT
        <5> QED
          BY <3>3, <5>1, <5>2, PlainReplies DEF DevStates
      <4>2. CASE config # 0
        <5>1. Configure(HID_deinit(IN_ep), config) \/ AnswerOnly(Status)
          BY <2>3, <3>8, <4>2, Zenon DEF set_device_configuration, config
        <5> QED
          BY <3>2, <3>4, <3>5, <3>8, <5>1
      <4> QED
        BY <4>1, <4>2
    <3>9. CASE ~RejectsConfiguration(config) /\ dev_state \notin {"ADDRESSED", "CONFIGURED"}
      <4>1. Unconfigure(Stall, dev_state, dev_config)
        BY <2>3, <3>9, Zenon DEF set_device_configuration, config
      <4> QED
        BY <1>3, <3>3, <4>1, PlainReplies DEF HandleOK
    <3> QED
      BY <3>6, <3>7, <3>8, <3>9
  <2>4. \/ \E r \in Reply : AnswerOnly(r)
        \/ \E r \in Reply, b \in BOOLEAN : ChangeRemoteWakeup(r, b)
        \/ set_device_address(h)
        \/ set_device_configuration(h)
    BY <1>1, <1>6, DeviceReplies, PlainReplies, Zenon DEF DeviceRequest
  <2> QED
    BY <1>2, <1>4, <1>5, <2>1, <2>2, <2>3, <2>4
<1>7. CASE InterfaceRequest(h)
  <2> DEFINE r == IF RejectsInterface(h) THEN Stall ELSE HID_setup(dev_state, h)
  <2>1. r \in Reply
    BY <1>1, HID_setupReply, PlainReplies
  <2>2. \A t \in INTable, q \in Reply : ReplyIN(t, q) \in INTable
    BY ReplyINType
  <2>3. ReplyState(r) \in EP0States /\ ReplyOUT(OUT_ep, r) \in OUTTable
        /\ ReplyMask(DIEPEMPMSK, r) \in SUBSET EpNum
    BY <1>2, <2>1, ReplyTypes DEF EP0States
  <2>4. /\ IN_ep' \in {ReplyIN(ReplyIN(IN_ep, r), Status), ReplyIN(IN_ep, r)}
        /\ ep0_state' \in {"STATUS_IN", ReplyState(r)}
        /\ OUT_ep' = ReplyOUT(OUT_ep, r) /\ DIEPEMPMSK' = ReplyMask(DIEPEMPMSK, r)
        /\ DAINTMSK' = DAINTMSK /\ DAD' = DAD /\ hid_state' = hid_state
        /\ UNCHANGED handleVars
    BY <1>7, Zenon DEF InterfaceRequest, r
  <2> HIDE DEF r
  <2>5. Answered0
    BY <1>2, <2>1, <2>2, <2>3, <2>4, PlainReplies DEF EP0States
  <2> QED
    BY <1>2, <1>3, <1>4, <2>4, <2>5 DEF HandleOK
<1>8. CASE EndpointRequest(h)
  <2>1. h.recipiant = "ENDPOINT" /\ DAINTMSK' = DAINTMSK /\ DAD' = DAD /\ hid_state' = hid_state
        /\ UNCHANGED handleVars
    BY <1>8 DEF EndpointRequest
  <2>2. EpOf(Address(h)) \in EpNum
    BY <2>1, RequestsAssumption DEF Packets, ZeroHeader, Address
  <2>3. HaltIN(Address(h)) \in INTable /\ HaltOUT(Address(h)) \in OUTTable
    BY <1>2, <2>2, stall_IEPType, OUTTypes DEF HaltIN, HaltOUT
  <2>4. unstall_IEP(IN_ep, 0) \in INTable /\ unstall_OEP(OUT_ep, 0) \in OUTTable
    BY <1>2, unstall_IEPType, OUTTypes DEF EpNum
  <2>5. \E q \in Reply, in \in INTable, out \in OUTTable : Answer(q, in, out)
    <3>1. /\ Status \in Reply /\ Stall \in Reply /\ StallIN \in Reply /\ NoReply \in Reply
          /\ get_dendpoint_status(h) \in Reply /\ HID_setup(dev_state, h) \in Reply
      BY <1>1, PlainReplies, DeviceReplies, HID_setupReply
    <3>2. CASE set_endpoin_feature(h)
      BY <1>2, <2>3, <3>1, <3>2, Zenon DEF set_endpoin_feature
    <3>3. CASE clear_endpoint_feature(h)
      BY <1>2, <2>3, <2>4, <3>1, <3>3, Zenon DEF clear_endpoint_feature
    <3>4. \/ set_endpoin_feature(h) \/ clear_endpoint_feature(h)
          \/ \E q \in Reply : Answer(q, IN_ep, OUT_ep)
      BY <1>8, <3>1, Zenon DEF EndpointRequest
    <3> QED
      BY <1>2, <3>2, <3>3, <3>4
  <2>6. Answered0
    BY <1>2, <2>5, AnswerType
  <2> QED
    BY <1>2, <1>3, <1>4, <2>1, <2>6 DEF HandleOK
<1>9. CASE OtherRequest(h)
  BY <1>2, <1>4, <1>5, <1>9, PlainReplies DEF OtherRequest
<1> QED
  BY <1>6, <1>7, <1>8, <1>9

\* What the handlers that do not answer a request do to the endpoints.
LEMMA TypeEndpointSteps ==
  ASSUME EndpointsOK
  PROVE  /\ USB_reset_IRQ => EndpointsOK'
         /\ USB_enumeration_done_IRQ => EndpointsOK'
         /\ IEP_transfer_complete_IRQ => EndpointsOK' /\ ep0_state' \in {ep0_state, "STATUS_OUT"}
         /\ IEP_FIFO_empty_IRQ => EndpointsOK'
         /\ OEP_transfer_complete => EndpointsOK' /\ ep0_state' \in {ep0_state, "STATUS_IN"}
<1> DEFINE Tables == IN_ep' \in INTable /\ OUT_ep' \in OUTTable
<1>1. /\ DIEPEMPMSK \subseteq EpNum /\ DAINTMSK \subseteq {0, 1, 4, 16}
      /\ IN_ep \in INTable /\ OUT_ep \in OUTTable
  BY DEF EndpointsOK, INTable, OUTTable
<1>2. ASSUME Tables, DIEPEMPMSK' \subseteq EpNum, DAINTMSK' \subseteq {0, 1, 4, 16} PROVE EndpointsOK'
  BY <1>2 DEF EndpointsOK, INTable, OUTTable
<1>3. 0 \in EpNum /\ "NULL" \in Buffers /\ 0 \in Sizes /\ EP0_MPS \in {0, HID_MPS, EP0_MPS}
  BY DEF EpNum, Buffers, Sizes
<1>4. ASSUME USB_reset_IRQ PROVE EndpointsOK'
  <2>1. Tables
    BY <1>1, <1>4, ResetType DEF USB_reset_IRQ
  <2> QED
    BY <1>1, <1>2, <1>4, <2>1 DEF USB_reset_IRQ
<1>5. ASSUME USB_enumeration_done_IRQ PROVE EndpointsOK'
  <2>1. IN_ep' \in INTable
    <3> DEFINE o == open_IEP(HID_deinit(IN_ep), 0, EP0_MPS)
    <3>1. o \in INTable
      BY <1>1, <1>3, HIDTypes, open_IEPType
    <3>2. IN_ep' = [o EXCEPT ![0].is_used = TRUE]
      BY <1>5 DEF USB_enumeration_done_IRQ
    <3> HIDE DEF o
    <3> QED
      BY Zenon, <1>3, <3>1, <3>2, UsedType
  <2>2. OUT_ep' \in OUTTable
    <3> DEFINE o == open_OEP(OUT_ep, 0)
    <3>1. o \in OUTTable
      BY <1>1, <1>3, OUTTypes
    <3>2. OUT_ep' = [o EXCEPT ![0].is_used = TRUE]
      BY <1>5 DEF USB_enumeration_done_IRQ
    <3> HIDE DEF o
    <3> QED
      BY Zenon, <1>3, <3>1, <3>2, UsedType
  <2>3. DAINTMSK' \subseteq {0, 1, 4, 16}
    BY <1>1, <1>5 DEF USB_enumeration_done_IRQ, open_IEP_mask, open_OEP_mask, close_IEP_mask
  <2> QED
    BY <1>1, <1>2, <1>5, <2>1, <2>2, <2>3 DEF USB_enumeration_done_IRQ
<1>6. ASSUME IEP_transfer_complete_IRQ PROVE EndpointsOK' /\ ep0_state' \in {ep0_state, "STATUS_OUT"}
  <2> DEFINE left == IN_ep[0].size - IN_ep[0].count
  <2> PICK n \in EpNum : IEP_transfer_complete_IRQ!(n)
    BY <1>6 DEF IEP_transfer_complete_IRQ
  <2>1. /\ DAINTMSK' = DAINTMSK /\ DIEPEMPMSK' \subseteq EpNum
        /\ ep0_state' \in {ep0_state, "STATUS_OUT"}
        /\ OUT_ep' \in {OUT_ep, OUT_transfer(OUT_ep, 0)}
    BY <1>1, <1>3 DEF controlVars
  <2>2. IN_ep' \in INTable
    <3>1. CASE InDataStage(n) /\ left > IN_ep[0].mps
      <4>1. IN_ep' = IN_transfer(IN_ep, 0, IN_ep[0].buffer, left)
        BY <3>1
      <4>2. IN_ep[0].buffer \in Buffers /\ left \in Sizes
        BY <1>1, <1>3, <3>1, LeftToSend
      <4> QED
        BY <1>1, <1>3, <4>1, <4>2, IN_transferType
    <3>2. CASE ~(InDataStage(n) /\ left > IN_ep[0].mps)
      <4>1. IN_ep' \in {IN_ep, IN_transfer(IN_ep, 0, "NULL", 0), stall_IEP(IN_ep, 0)}
        BY <3>2, Zenon
      <4> QED
        BY <1>1, <1>3, <4>1, IN_transferType, stall_IEPType
    <3> QED
      BY <3>1, <3>2
  <2>3. OUT_ep' \in OUTTable
    BY <1>1, <1>3, <2>1, OUTTypes
  <2> QED
    BY <1>1, <1>2, <2>1, <2>2, <2>3
<1>7. ASSUME IEP_FIFO_empty_IRQ PROVE EndpointsOK'
  <2> PICK n \in EpNum : IEP_FIFO_empty_IRQ!(n)
    BY <1>7 DEF IEP_FIFO_empty_IRQ
  <2>1. IN_ep' \in {IN_ep, [IN_ep EXCEPT ![n].count = IN_ep[n].size]}
    OBVIOUS
  <2>2. IN_ep' \in INTable
    BY <1>1, <2>1, CountType
  <2>3. DIEPEMPMSK' \subseteq EpNum /\ UNCHANGED <<OUT_ep, DAINTMSK>>
    BY <1>1
  <2> QED
    BY <1>1, <1>2, <2>2, <2>3
<1>8. ASSUME OEP_transfer_complete PROVE EndpointsOK' /\ ep0_state' \in {ep0_state, "STATUS_IN"}
  <2>1. IN_ep' \in {IN_ep, IN_transfer(IN_ep, 0, "NULL", 0)} /\ ep0_state' \in {ep0_state, "STATUS_IN"}
    BY <1>8 DEF OEP_transfer_complete
  <2>2. IN_ep' \in INTable
    BY <1>1, <1>3, <2>1, IN_transferType
  <2> QED
    BY <1>1, <1>2, <1>8, <2>1, <2>2 DEF OEP_transfer_complete
<1> QED
  BY <1>4, <1>5, <1>6, <1>7, <1>8

\* The calls a handler adds are calls.
LEMMA CallsType ==
  ASSUME TypeOK
  PROVE  /\ Raised \X {0} \subseteq Calls
         /\ \A n \in EpNum : {<<"IEP", n>>, <<"XFRC", n>>, <<"EPDISD", n>>, <<"TXFE", n>>} \subseteq Calls
         /\ {<<"USBSUSP_ACK", 0>>, <<"OEP", 0>>, <<"OUT_XFRC", 0>>, <<"STUP", 0>>} \subseteq Calls
<1>1. Raised \subseteq GlobalCalls
  BY DEF Raised, GlobalCalls, TypeOK, CoreOK, GlobalInts
<1>2. Raised \X {0} \subseteq GlobalCalls \X {0}
  BY <1>1
<1>3. GlobalCalls \X {0} \subseteq Calls /\ IEPCalls \X EpNum \subseteq Calls
  BY DEF Calls
<1>4. /\ \A c \in GlobalCalls : <<c, 0>> \in Calls
      /\ \A c \in IEPCalls, n \in EpNum : <<c, n>> \in Calls
  BY <1>3
<1>5. \A c \in {"USBSUSP_ACK", "OEP", "OUT_XFRC", "STUP"} : <<c, 0>> \in Calls
  BY <1>4 DEF GlobalCalls
<1>6. \A n \in EpNum, c \in {"IEP", "XFRC", "EPDISD", "TXFE"} : <<c, n>> \in Calls
  BY <1>4 DEF IEPCalls
<1> QED
  BY <1>2, <1>3, <1>5, <1>6

\* GRXSTSP is popped only while the receive FIFO has an entry: what the handler
\* saw when it took its snapshot is still there when it comes to it.
PacketWaits == <<"RXFLVL", 0>> \in calls => rx # <<>>

\* The driver keeps the types.
LEMMA TypeDriver == TypeOK /\ PacketWaits /\ Driver => TypeOK'
<1> SUFFICES ASSUME TypeOK, PacketWaits, Driver PROVE TypeOK'
  OBVIOUS
<1> USE DEF driverVars, handleVars, controlVars, epVars, coreVars, hostVars
<1> DEFINE Parts == HandleOK' /\ ControlOK' /\ EndpointsOK' /\ CoreOK' /\ HostOK' /\ calls' \subseteq Calls
<1>1. HandleOK /\ ControlOK /\ EndpointsOK /\ CoreOK /\ HostOK /\ calls \subseteq Calls
  BY DEF TypeOK
<1>2. Parts => TypeOK'
  BY DEF TypeOK
<1>3. ASSUME UNCHANGED hostVars PROVE HostOK'
  BY <1>1, <1>3 DEF HostOK
<1>4. ASSUME UNCHANGED <<handleVars, hid_state>> PROVE HandleOK'
  BY <1>1, <1>4 DEF HandleOK
<1>5. ASSUME UNCHANGED controlVars PROVE ControlOK'
  BY <1>1, <1>5 DEF ControlOK
<1>6. ASSUME UNCHANGED epVars PROVE EndpointsOK'
  BY <1>1, <1>6 DEF EndpointsOK
<1>7. ASSUME UNCHANGED coreVars PROVE CoreOK'
  BY <1>1, <1>7 DEF CoreOK
<1>8. CASE USB_common_handler
  BY <1>2, <1>3, <1>4, <1>5, <1>6, <1>7, <1>8, CallsType DEF USB_common_handler
<1>9. CASE USB_receive_packet_IRQ
  <2>1. rx # <<>> => Head(rx) \in RxEntries /\ Tail(rx) \in Seq(RxEntries)
    BY <1>1 DEF CoreOK
  <2>2. rx # <<>>
    BY <1>9 DEF USB_receive_packet_IRQ, Calling, PacketWaits
  <2>3. ControlOK'
    BY <1>1, <1>9, <2>1, <2>2 DEF USB_receive_packet_IRQ, ControlOK, RxEntries
  <2>4. DOEPINT' \subseteq {"XFRC", "STUP"}
    BY <1>1, <1>9, Zenon DEF USB_receive_packet_IRQ, CoreOK
  <2>5. CoreOK'
    BY <1>1, <1>9, <2>1, <2>2, <2>4 DEF USB_receive_packet_IRQ, CoreOK
  <2> QED
    BY <1>1, <1>2, <1>3, <1>4, <1>6, <1>9, <2>3, <2>5 DEF USB_receive_packet_IRQ, Done
<1>10. CASE USB_suspend_IRQ
  <2>1. HandleOK'
    BY <1>1, <1>10 DEF USB_suspend_IRQ, HandleOK, DevStates
  <2>2. calls' \subseteq Calls
    BY <1>1, <1>10, CallsType DEF USB_suspend_IRQ
  <2> QED
    BY <1>2, <1>3, <1>5, <1>6, <1>7, <1>10, <2>1, <2>2 DEF USB_suspend_IRQ
<1>11. CASE USB_suspend_acknowledge
  <2>1. CoreOK'
    BY <1>1, <1>11 DEF USB_suspend_acknowledge, CoreOK, Acknowledge
  <2> QED
    BY <1>1, <1>2, <1>3, <1>4, <1>5, <1>6, <1>11, <2>1 DEF USB_suspend_acknowledge, Done
<1>12. CASE USB_reset_IRQ
  <2>1. CoreOK'
    <3>1. flush_TX_FIFOS \in [EpNum -> Seq(Buffers)]
      BY DEF flush_TX_FIFOS
    <3>2. [n \in EpNum |-> {}] \in [EpNum -> SUBSET {"XFRC", "EPDISD"}] /\ 0 \in 0..127
      OBVIOUS
    <3> QED
      BY <1>1, <1>12, <3>1, <3>2 DEF USB_reset_IRQ, CoreOK, Acknowledge
  <2> QED
    BY <1>1, <1>2, <1>3, <1>4, <1>5, <1>12, <2>1, TypeEndpointSteps DEF USB_reset_IRQ, Done
<1>13. CASE USB_enumeration_done_IRQ
  <2>1. HandleOK' /\ ControlOK'
    <3>1. remote_wakeup' \in BOOLEAN
      BY <1>13, Zenon DEF USB_enumeration_done_IRQ
    <3>2. dev_config' \in 0..MAX_CONFIGURATION_COUNT
      BY <1>13 DEF USB_enumeration_done_IRQ, MAX_CONFIGURATION_COUNT
    <3> QED
      BY <1>1, <1>13, <3>1, <3>2 DEF USB_enumeration_done_IRQ, HandleOK, ControlOK, DevStates, EP0States
  <2>2. CoreOK'
    BY <1>1, <1>13 DEF USB_enumeration_done_IRQ, CoreOK, Acknowledge
  <2> QED
    BY <1>1, <1>2, <1>3, <1>13, <2>1, <2>2, TypeEndpointSteps DEF USB_enumeration_done_IRQ, Done
<1>14. CASE USB_wake_up_IRQ
  <2>1. HandleOK'
    BY <1>1, <1>14 DEF USB_wake_up_IRQ, HandleOK, BaseState
  <2>2. CoreOK'
    BY <1>1, <1>14 DEF USB_wake_up_IRQ, CoreOK, Acknowledge
  <2> QED
    BY <1>1, <1>2, <1>3, <1>5, <1>6, <1>14, <2>1, <2>2 DEF USB_wake_up_IRQ, Done
<1>15. CASE IEP_interrupts
  <2>1. calls' \subseteq Calls
    BY <1>1, <1>15, CallsType DEF IEP_interrupts
  <2> QED
    BY <1>2, <1>3, <1>4, <1>5, <1>6, <1>7, <1>15, <2>1 DEF IEP_interrupts
<1>16. CASE IEP_common_handler
  <2> PICK n \in EpNum : IEP_common_handler!(n)
    BY <1>16 DEF IEP_common_handler
  <2>1. ({"XFRC", "EPDISD"} \cap DIEPINT[n]) \X {n} \subseteq {<<"XFRC", n>>, <<"EPDISD", n>>}
    OBVIOUS
  <2>2. \A c \in calls' : c \in calls \/ c \in {<<"XFRC", n>>, <<"EPDISD", n>>, <<"TXFE", n>>}
    BY <2>1
  <2>3. {<<"XFRC", n>>, <<"EPDISD", n>>, <<"TXFE", n>>} \subseteq Calls
    BY <1>1, CallsType
  <2>4. calls' \subseteq Calls
    BY <1>1, <2>2, <2>3, Zenon
  <2> QED
    BY <1>2, <1>3, <1>4, <1>5, <1>6, <1>7, <2>4
<1>17. CASE IEP_transfer_complete_IRQ
  <2> PICK n \in EpNum : IEP_transfer_complete_IRQ!(n)
    BY <1>17 DEF IEP_transfer_complete_IRQ
  <2>1. EndpointsOK' /\ ep0_state' \in {ep0_state, "STATUS_OUT"}
    BY <1>1, <1>17, TypeEndpointSteps
  <2>2. ControlOK'
    BY <1>1, <2>1 DEF ControlOK, EP0States
  <2>3. HandleOK'
    BY <1>1 DEF HandleOK, HID_in_transfer
  <2>4. CoreOK'
    BY <1>1 DEF CoreOK
  <2> QED
    BY <1>1, <1>2, <1>3, <2>1, <2>2, <2>3, <2>4 DEF Done
<1>18. CASE IEP_disabled_IRQ
  <2> PICK n \in EpNum : IEP_disabled_IRQ!(n)
    BY <1>18 DEF IEP_disabled_IRQ
  <2>1. CoreOK'
    BY <1>1 DEF CoreOK, flush_TX_FIFO
  <2> QED
    BY <1>1, <1>2, <1>3, <1>4, <1>5, <1>6, <2>1 DEF Done
<1>19. CASE IEP_FIFO_empty_IRQ
  <2> PICK n \in EpNum : IEP_FIFO_empty_IRQ!(n)
    BY <1>19 DEF IEP_FIFO_empty_IRQ
  <2>1. IN_ep[n].buffer \in Buffers
    BY <1>1 DEF EndpointsOK, INEndpoint
  <2>2. CoreOK'
    BY <1>1, <2>1 DEF CoreOK
  <2> QED
    BY <1>1, <1>2, <1>3, <1>4, <1>5, <1>19, <2>2, TypeEndpointSteps DEF Done
<1>20. CASE OEP_interrupts
  <2>1. calls' \subseteq Calls
    BY <1>1, <1>20, CallsType DEF OEP_interrupts
  <2> QED
    BY <1>2, <1>3, <1>4, <1>5, <1>6, <1>7, <1>20, <2>1 DEF OEP_interrupts
<1>21. CASE OEP_common_handler
  <2>1. calls' \subseteq Calls
    BY <1>1, <1>21, CallsType DEF OEP_common_handler
  <2> QED
    BY <1>2, <1>3, <1>4, <1>5, <1>6, <1>7, <1>21, <2>1 DEF OEP_common_handler
<1>22. CASE OEP_transfer_complete
  <2>1. ControlOK'
    BY <1>1, <1>22, TypeEndpointSteps DEF OEP_transfer_complete, ControlOK, EP0States
  <2>2. CoreOK'
    BY <1>1, <1>22 DEF OEP_transfer_complete, CoreOK
  <2> QED
    BY <1>1, <1>2, <1>3, <1>4, <1>22, <2>1, <2>2, TypeEndpointSteps DEF OEP_transfer_complete, Done
<1>23. CASE OEP_setup_done
  <2>1. DeviceRequest(setup) \/ InterfaceRequest(setup) \/ EndpointRequest(setup) \/ OtherRequest(setup)
    BY <1>23 DEF OEP_setup_done
  <2>2. /\ HandleOK' /\ ep0_state' \in EP0States /\ EndpointsOK' /\ DAD' \in 0..127
    BY <1>1, <2>1, TypeRequest DEF ControlOK
  <2>3. ControlOK'
    BY <1>1, <1>23, <2>2 DEF OEP_setup_done, ControlOK
  <2>4. CoreOK'
    BY <1>1, <1>23, <2>2 DEF OEP_setup_done, CoreOK
  <2> QED
    BY <1>1, <1>2, <1>3, <1>23, <2>2, <2>3, <2>4 DEF OEP_setup_done, Done
<1> QED
  BY <1>8, <1>9, <1>10, <1>11, <1>12, <1>13, <1>14, <1>15, <1>16, <1>17, <1>18, <1>19, <1>20,
     <1>21, <1>22, <1>23 DEF Driver

\* A report arms the HID endpoint, which stays open and used, or not.
LEMMA ReportTypes ==
  ASSUME TypeOK, send_HID_report
  PROVE  /\ IN_ep' \in INTable /\ SameHID(IN_ep', IN_ep)
         /\ DIEPEMPMSK' \subseteq EpNum
<1>1. /\ HID_IEP \in EpNum /\ "report" \in Buffers /\ 8 \in Sizes
      /\ IN_ep \in INTable /\ DIEPEMPMSK \subseteq EpNum
  BY DEF EpNum, HID_IEP, Buffers, Sizes, TypeOK, EndpointsOK, INTable
<1>2. /\ IN_ep' = IN_transfer(IN_ep, HID_IEP, "report", 8)
      /\ DIEPEMPMSK' = IN_transfer_mask(DIEPEMPMSK, HID_IEP, 8)
  BY DEF send_HID_report
<1>3. IN_ep' \in INTable /\ SameHID(IN_ep', IN_ep)
  BY <1>1, <1>2, IN_transferType DEF SameHID
<1>4. DIEPEMPMSK' \subseteq EpNum
  BY <1>1, <1>2 DEF IN_transfer_mask
<1> QED
  BY <1>3, <1>4

LEMMA TypeReport == TypeOK /\ send_HID_report => TypeOK'
<1> SUFFICES ASSUME TypeOK, send_HID_report PROVE TypeOK'
  OBVIOUS
<1>1. EndpointsOK'
  BY ReportTypes DEF send_HID_report, TypeOK, EndpointsOK, INTable, OUTTable
<1> QED
  BY <1>1 DEF send_HID_report, handleVars, controlVars, coreVars, hostVars, TypeOK, HandleOK,
     ControlOK, CoreOK, HostOK

\* A pass starts with an entry in the receive FIFO, and the handler comes to it
\* before anything else takes one.
LEMMA PacketWaitsStep == TypeOK /\ PacketWaits /\ Next => PacketWaits'
<1> SUFFICES ASSUME TypeOK, PacketWaits, Next PROVE PacketWaits'
  OBVIOUS
<1> USE DEF driverVars, coreVars, PacketWaits
<1>1. rx \in Seq(RxEntries)
  BY DEF TypeOK, CoreOK
<1>2. CASE BusEvent
  <2>1. CASE HostSetup
    <3>1. PICK h \in Requests :
            rx' = rx \o <<[status |-> "SETUP", packet |-> h], [status |-> "SETUP_DONE", packet |-> h]>>
      BY <2>1 DEF HostSetup
    <3>2. \A s \in {"SETUP", "SETUP_DONE"} : [status |-> s, packet |-> h] \in RxEntries
      BY DEF RxEntries, Packets
    <3>3. rx' # <<>>
      BY <1>1, <3>1, <3>2
    <3> QED
      BY <2>1, <3>3 DEF HostSetup
  <2> QED
    BY <1>2, <2>1 DEF BusEvent, BusReset, Enumerated, BusSuspend, BusResume
<1>3. CASE Core
  <2>1. CASE HostSendsStatus
    <3>1. rx' = Append(rx, [status |-> "OUT_DONE", packet |-> req])
      BY <2>1 DEF HostSendsStatus
    <3> QED
      BY <1>1, <3>1
  <2> QED
    BY <1>3, <2>1 DEF Core, Send, HostReadsData, HostReadsStatus, HostReadsReport,
       HostSeesStall, HostAborts, EndpointDisabled
<1>4. CASE Driver
  <2>1. CASE USB_common_handler
    BY <2>1 DEF USB_common_handler, Raised, GlobalInts, TypeOK, CoreOK
  <2>2. CASE USB_receive_packet_IRQ
    BY <2>2 DEF USB_receive_packet_IRQ, Done
  <2> DEFINE Kept == rx' = rx /\ (<<"RXFLVL", 0>> \in calls' => <<"RXFLVL", 0>> \in calls)
  <2>3. ASSUME NEW c, Done(c), rx' = rx PROVE Kept
    BY <2>3 DEF Done
  <2>4. CASE USB_suspend_IRQ
    BY <2>4 DEF USB_suspend_IRQ
  <2>5. CASE IEP_interrupts
    BY <2>5 DEF IEP_interrupts
  <2>6. CASE IEP_common_handler
    <3> PICK n \in EpNum : IEP_common_handler!(n)
      BY <2>6 DEF IEP_common_handler
    <3>1. <<"RXFLVL", 0>> \notin ({"XFRC", "EPDISD"} \cap DIEPINT[n]) \X {n}
      OBVIOUS
    <3> QED
      BY <3>1
  <2>7. CASE OEP_interrupts
    BY <2>7 DEF OEP_interrupts
  <2>8. CASE OEP_common_handler
    BY <2>8 DEF OEP_common_handler
  <2>9. CASE USB_suspend_acknowledge \/ USB_reset_IRQ \/ USB_enumeration_done_IRQ \/ USB_wake_up_IRQ
    BY <2>3, <2>9 DEF USB_suspend_acknowledge, USB_reset_IRQ, USB_enumeration_done_IRQ, USB_wake_up_IRQ
  <2>10. CASE IEP_transfer_complete_IRQ \/ IEP_disabled_IRQ \/ IEP_FIFO_empty_IRQ
    BY <2>3, <2>10 DEF IEP_transfer_complete_IRQ, IEP_disabled_IRQ, IEP_FIFO_empty_IRQ
  <2>11. CASE OEP_transfer_complete \/ OEP_setup_done
    BY <2>3, <2>11 DEF OEP_transfer_complete, OEP_setup_done
  <2> QED
    BY <1>4, <2>1, <2>2, <2>4, <2>5, <2>6, <2>7, <2>8, <2>9, <2>10, <2>11 DEF Driver
<1>5. CASE send_HID_report
  BY <1>5 DEF send_HID_report
<1> QED
  BY <1>2, <1>3, <1>4, <1>5 DEF Next

\* Every variable keeps its type, and the receive FIFO is never popped empty.
THEOREM TypeCorrect == Spec => []TypeOK /\ []PacketWaits
<1> DEFINE Inv == TypeOK /\ PacketWaits
<1>1. Init => Inv
  BY TypeInit DEF Init, PacketWaits
<1>2. Inv /\ [Next]_vars => Inv'
  <2> SUFFICES ASSUME Inv, [Next]_vars PROVE Inv'
    OBVIOUS
  <2>1. CASE Next
    BY <2>1, TypeBusEvent, TypeCore, TypeDriver, TypeReport, PacketWaitsStep DEF Next
  <2>2. CASE UNCHANGED vars
    BY <2>2 DEF vars, handleVars, controlVars, epVars, coreVars, hostVars, TypeOK, HandleOK,
       ControlOK, EndpointsOK, CoreOK, HostOK, PacketWaits
  <2> QED
    BY <2>1, <2>2
<1> QED
  BY <1>1, <1>2, PTL DEF Spec

-----------------------------------------------------------------------------
(***************************************************************************)
(* The HID endpoint follows the configuration of the device, provided that *)
(* the host leaves the driver the time to handle the end of a reset, a     *)
(* suspend and a resume before the next of them.  Resets, requests, aborts *)
(* and polls may come at any time.                                         *)
(*                                                                         *)
(* What could break it is a request that reaches a driver which still      *)
(* takes the device to be asleep: SET_ADDRESS and SET_CONFIGURATION then   *)
(* act on the state SUSPENDED instead of the one that is to be restored.   *)
(* So the invariant is about the requests on their way: while the bus      *)
(* sleeps there are none, and after a resume the first pass of the handler *)
(* wakes the device up before a setup stage can have ended.                *)
(***************************************************************************)

\* The events the host leaves time for.
Unhurried == {"enumeration", "suspend", "resume"} \subseteq Prompt

\* No setup stage has ended and waits for the driver.
OEPCalls == {<<"OEPINT", 0>>, <<"OEP", 0>>, <<"OUT_XFRC", 0>>, <<"STUP", 0>>}
NoRequest == DOEPINT = {} /\ calls \cap OEPCalls = {}

\* Before the first reset nothing happens: the interrupts of EP0 are masked.
Unconnected ==
  /\ rx = <<>> /\ DAINTMSK = {} /\ DOEPINT = {}
  /\ \/ bus = "off" /\ GINTSTS = {} /\ calls = {}
     \/ bus = "reset" /\ GINTSTS = {"USBRST"} /\ calls = {}
     \/ bus = "reset" /\ GINTSTS \subseteq {"USBRST"} /\ calls = {<<"USBRST", 0>>}

\* The driver is about to handle the interrupt, in this pass or in the next.
Due(c) == IF calls = {} THEN c \in GINTSTS ELSE <<c, 0>> \in calls

\* The next entry the driver pops is not the end of a setup stage.
NothingToEnd ==
  calls = {} \/ <<"RXFLVL", 0>> \in calls =>
    IF rx = <<>> THEN stage = "idle" ELSE Head(rx).status = "SETUP"

\* The driver takes the device to be asleep, but the bus is awake.
WakingUp ==
  \/ bus = "reset" /\ rx = <<>>
  \/ (Due("WKUINT") \/ Due("ENUMDNE")) /\ NothingToEnd

Booting == 16 \notin DAINTMSK => Unconnected
IdleBus == bus \in {"reset", "suspended"} => stage = "idle"
Asleep  == bus = "suspended" => rx = <<>> /\ NoRequest
Rising  == bus # "suspended" /\ dev_state = "SUSPENDED" => WakingUp /\ NoRequest

SleepInv == Booting /\ IdleBus /\ Asleep /\ Rising

-----------------------------------------------------------------------------
(* SleepInv is an invariant. *)

LEMMA SleepInit == Init => SleepInv
BY DEF Init, SleepInv, Booting, IdleBus, Asleep, Rising, Unconnected, NoRequest

\* When the driver is done, every interrupt that can reach it has been handled.
LEMMA QuietMeans ==
  ASSUME Quiet, Booting, bus # "off"
  PROVE  calls = {} /\ GINTSTS = {} /\ rx = <<>> /\ NoRequest /\ 16 \in DAINTMSK
<1>1. calls = {} /\ GINTSTS = {} /\ rx = <<>> /\ (DOEPINT = {} \/ 16 \notin DAINTMSK)
  BY DEF Quiet, Raised
<1>2. 16 \in DAINTMSK
  BY <1>1 DEF Booting, Unconnected
<1> QED
  BY <1>1, <1>2 DEF NoRequest

LEMMA SleepBusEvent ==
  ASSUME TypeOK, SleepInv, Unhurried, BusEvent
  PROVE  SleepInv'
<1> USE DEF driverVars, handleVars, controlVars, epVars
<1>1. CASE BusReset
  <2>1. Booting'
    BY <1>1 DEF BusReset, SleepInv, Booting, Unconnected
  <2>2. IdleBus' /\ Asleep'
    BY <1>1 DEF BusReset, IdleBus, Asleep
  <2>3. Rising'
    BY <1>1 DEF BusReset, SleepInv, IdleBus, Asleep, Rising, WakingUp, Due, NothingToEnd, NoRequest
  <2> QED
    BY <2>1, <2>2, <2>3 DEF SleepInv
<1>2. CASE Enumerated
  <2>1. Quiet
    BY <1>2 DEF Enumerated, May, Unhurried
  <2>2. calls = {} /\ rx = <<>> /\ NoRequest /\ 16 \in DAINTMSK
    BY <1>2, <2>1, QuietMeans DEF SleepInv, Enumerated
  <2>3. stage = "idle" /\ "ENUMDNE" \in GINTSTS'
    BY <1>2 DEF Enumerated, SleepInv, IdleBus
  <2> QED
    BY <1>2, <2>2, <2>3 DEF Enumerated, SleepInv, Booting, IdleBus, Asleep, Rising, WakingUp, Due,
       NothingToEnd, NoRequest
<1>3. CASE BusSuspend
  <2>1. Quiet
    BY <1>3 DEF BusSuspend, May, Unhurried
  <2>2. calls = {} /\ rx = <<>> /\ NoRequest /\ 16 \in DAINTMSK
    BY <1>3, <2>1, QuietMeans DEF SleepInv, BusSuspend
  <2> QED
    BY <1>3, <2>2 DEF BusSuspend, SleepInv, Booting, IdleBus, Asleep, Rising, NoRequest
<1>4. CASE BusResume
  <2>1. Quiet
    BY <1>4 DEF BusResume, May, Unhurried
  <2>2. calls = {} /\ rx = <<>> /\ NoRequest /\ 16 \in DAINTMSK
    BY <1>4, <2>1, QuietMeans DEF SleepInv, BusResume
  <2>3. stage = "idle" /\ "WKUINT" \in GINTSTS'
    BY <1>4 DEF BusResume, SleepInv, IdleBus
  <2> QED
    BY <1>4, <2>2, <2>3 DEF BusResume, SleepInv, Booting, IdleBus, Asleep, Rising, WakingUp, Due,
       NothingToEnd, NoRequest
<1>5. CASE HostSetup
  <2>1. PICK h \in Requests :
          rx' = rx \o <<[status |-> "SETUP", packet |-> h], [status |-> "SETUP_DONE", packet |-> h]>>
    BY <1>5 DEF HostSetup
  <2>2. rx' # <<>> /\ Head(rx').status = IF rx = <<>> THEN "SETUP" ELSE Head(rx).status
    <3>1. \A s \in {"SETUP", "SETUP_DONE"} : [status |-> s, packet |-> h] \in RxEntries
      BY DEF RxEntries, Packets
    <3>2. rx \in Seq(RxEntries)
      BY DEF TypeOK, CoreOK
    <3> QED
      BY <2>1, <3>1, <3>2
  <2>3. bus = "active" /\ bus' = "active"
    BY <1>5 DEF HostSetup
  <2>4. Rising'
    BY <1>5, <2>2, <2>3 DEF HostSetup, SleepInv, Rising, WakingUp, Due, NothingToEnd, NoRequest
  <2> QED
    BY <1>5, <2>3, <2>4 DEF HostSetup, SleepInv, Booting, Unconnected, IdleBus, Asleep
<1> QED
  BY <1>1, <1>2, <1>3, <1>4, <1>5 DEF BusEvent

LEMMA SleepCore ==
  ASSUME TypeOK, SleepInv, Core
  PROVE  SleepInv'
<1> USE DEF driverVars, handleVars, controlVars, epVars, coreVars, hostVars
<1>1. /\ UNCHANGED <<dev_state, calls, GINTSTS, DOEPINT, DAINTMSK, bus>>
      /\ bus \in {"reset", "suspended"} => stage' = stage
      /\ rx' = rx \/ HostSendsStatus
  BY DEF Core, HostReadsData, HostReadsStatus, HostReadsReport, Send, HostSendsStatus,
     HostSeesStall, HostAborts, EndpointDisabled
<1>2. ASSUME HostSendsStatus
      PROVE  /\ bus = "active" /\ stage # "idle"
             /\ rx' # <<>> /\ (rx # <<>> => Head(rx') = Head(rx))
  <2>1. rx \in Seq(RxEntries) /\ [status |-> "OUT_DONE", packet |-> req] \in RxEntries
    BY DEF RxEntries, TypeOK, CoreOK, HostOK
  <2>2. rx' = Append(rx, [status |-> "OUT_DONE", packet |-> req])
    BY <1>2 DEF HostSendsStatus
  <2> QED
    BY <1>2, <2>1, <2>2 DEF HostSendsStatus
<1>3. stage' # stage => bus = "active" /\ stage # "idle"
  BY DEF Core, HostReadsData, HostReadsStatus, HostReadsReport, HostSendsStatus,
     HostSeesStall, HostAborts, EndpointDisabled
<1>4. bus = "active" => 16 \in DAINTMSK
  BY DEF SleepInv, Booting, Unconnected
<1>5. Booting' /\ IdleBus' /\ Asleep'
  BY <1>1, <1>2, <1>4 DEF SleepInv, Booting, Unconnected, IdleBus, Asleep, NoRequest
<1>6. Rising'
  BY <1>1, <1>2, <1>3 DEF SleepInv, Rising, WakingUp, Due, NothingToEnd, NoRequest
<1> QED
  BY <1>5, <1>6 DEF SleepInv

\* A report touches the HID endpoint and nothing that SleepInv speaks of.
LEMMA SleepReport ==
  ASSUME SleepInv, send_HID_report
  PROVE  SleepInv'
BY DEF send_HID_report, handleVars, coreVars, hostVars, SleepInv, Booting, Unconnected, IdleBus,
   Asleep, Rising, WakingUp, Due, NothingToEnd, NoRequest

\* A call c of a pass, other than the wake-up, the end of a reset and the one that
\* takes from the receive FIFO, puts nothing in the way of the device's awakening.
LEMMA SleepCall ==
  ASSUME SleepInv, NEW c \in calls, c \notin {<<"WKUINT", 0>>, <<"ENUMDNE", 0>>},
         calls \ {c} \subseteq calls',
         <<"RXFLVL", 0>> \in calls' => <<"RXFLVL", 0>> \in calls,
         NoRequest => NoRequest',
         UNCHANGED <<dev_state, rx, hostVars>>, DAINTMSK \subseteq DAINTMSK',
         16 \in DAINTMSK
  PROVE  SleepInv'
<1> USE DEF hostVars
<1>1. Booting' /\ IdleBus' /\ Asleep'
  BY DEF SleepInv, Booting, IdleBus, Asleep
<1>2. ASSUME bus # "suspended", dev_state = "SUSPENDED" PROVE WakingUp' /\ NoRequest'
  <2>1. WakingUp /\ NoRequest'
    BY <1>2 DEF SleepInv, Rising
  <2>2. CASE bus = "reset" /\ rx = <<>>
    BY <2>1, <2>2 DEF WakingUp
  <2>3. CASE (Due("WKUINT") \/ Due("ENUMDNE")) /\ NothingToEnd
    <3>1. calls # {} /\ calls' # {} /\ (Due("WKUINT")' \/ Due("ENUMDNE")')
      BY <2>3 DEF Due
    <3>2. NothingToEnd'
      BY <2>3, <3>1 DEF NothingToEnd
    <3> QED
      BY <2>1, <3>1, <3>2 DEF WakingUp
  <2> QED
    BY <2>1, <2>2, <2>3 DEF WakingUp
<1> QED
  BY <1>1, <1>2 DEF SleepInv, Rising

\* Before the first reset is handled there is no other call to make.
LEMMA FirstCall ==
  ASSUME SleepInv, Driver, 16 \notin DAINTMSK
  PROVE  USB_common_handler \/ USB_reset_IRQ
<1>1. calls \subseteq {<<"USBRST", 0>>}
  BY DEF SleepInv, Booting, Unconnected
<1>2. \A c : Calling(c) => c = <<"USBRST", 0>>
  BY <1>1 DEF Calling
<1>3. /\ ~USB_receive_packet_IRQ /\ ~USB_suspend_IRQ /\ ~USB_suspend_acknowledge
      /\ ~USB_enumeration_done_IRQ /\ ~USB_wake_up_IRQ
      /\ ~IEP_interrupts /\ ~OEP_interrupts /\ ~OEP_common_handler
      /\ ~OEP_transfer_complete /\ ~OEP_setup_done
  BY <1>2 DEF USB_receive_packet_IRQ, USB_suspend_IRQ, USB_suspend_acknowledge,
     USB_enumeration_done_IRQ, USB_wake_up_IRQ, IEP_interrupts, OEP_interrupts,
     OEP_common_handler, OEP_transfer_complete, OEP_setup_done
<1>4. ~IEP_common_handler /\ ~IEP_transfer_complete_IRQ /\ ~IEP_disabled_IRQ /\ ~IEP_FIFO_empty_IRQ
  BY <1>2 DEF IEP_common_handler, IEP_transfer_complete_IRQ, IEP_disabled_IRQ, IEP_FIFO_empty_IRQ
<1> QED
  BY <1>3, <1>4 DEF Driver

\* A request leaves the device awake.
LEMMA RequestState ==
  ASSUME NEW h, dev_state # "SUSPENDED",
         DeviceRequest(h) \/ InterfaceRequest(h) \/ EndpointRequest(h) \/ OtherRequest(h)
  PROVE  dev_state' # "SUSPENDED" /\ DAINTMSK' \in {DAINTMSK, open_IEP_mask(DAINTMSK, HID_IEP),
                                                   close_IEP_mask(DAINTMSK, HID_IEP)}
<1> USE DEF handleVars
<1>1. CASE InterfaceRequest(h) \/ EndpointRequest(h) \/ OtherRequest(h)
  BY <1>1 DEF InterfaceRequest, EndpointRequest, OtherRequest, AnswerOnly
<1>2. CASE DeviceRequest(h)
  <2>1. \/ \E r : AnswerOnly(r)
        \/ \E r, b : ChangeRemoteWakeup(r, b)
        \/ set_device_address(h)
        \/ set_device_configuration(h)
    BY <1>2, Zenon DEF DeviceRequest
  <2>2. CASE (\E r : AnswerOnly(r)) \/ (\E r, b : ChangeRemoteWakeup(r, b))
    BY <2>2 DEF AnswerOnly, ChangeRemoteWakeup
  <2>3. CASE set_device_address(h)
    BY <2>3 DEF set_device_address, AddressState, AnswerOnly
  <2>4. CASE set_device_configuration(h)
    <3>1. \/ \E r : AnswerOnly(r)
          \/ \E in : Configure(in, Low(h.value))
          \/ \E r, c : Unconfigure(r, "ADDRESSED", c)
          \/ \E r, c : Unconfigure(r, dev_state, c)
      BY <2>4, Zenon DEF set_device_configuration
    <3> QED
      BY <3>1 DEF AnswerOnly, Configure, Unconfigure
  <2> QED
    BY <2>1, <2>2, <2>3, <2>4
<1> QED
  BY <1>1, <1>2

LEMMA SleepDriver ==
  ASSUME TypeOK, PacketWaits, SleepInv, Driver
  PROVE  SleepInv'
<1> USE DEF driverVars, handleVars, controlVars, epVars, coreVars, hostVars
<1>1. CASE USB_common_handler
  <2>1. calls = {} /\ calls' = Raised \X {0}
        /\ UNCHANGED <<dev_state, DAINTMSK, DOEPINT, GINTSTS, rx, bus, stage>>
    BY <1>1 DEF USB_common_handler
  <2>2. Raised \subseteq {"RXFLVL", "IEPINT", "OEPINT"} \cup GINTSTS /\ GINTSTS \subseteq Raised
        /\ GINTSTS \subseteq GlobalInts
        /\ ("RXFLVL" \in Raised <=> rx # <<>>) /\ ("OEPINT" \in Raised => DOEPINT # {})
        /\ ("IEPINT" \in Raised => DAINTMSK # {})
    BY DEF Raised, TypeOK, CoreOK, GlobalInts
  <2>3. Booting'
    <3>1. CASE 16 \in DAINTMSK
      BY <2>1, <3>1 DEF Booting
    <3>2. CASE 16 \notin DAINTMSK
      <4>1. Raised = GINTSTS /\ rx = <<>> /\ DAINTMSK = {} /\ DOEPINT = {}
        BY <2>2, <3>2 DEF SleepInv, Booting, Unconnected
      <4>2. \/ bus = "off" /\ GINTSTS = {}
            \/ bus = "reset" /\ GINTSTS = {"USBRST"}
        BY <2>1, <3>2 DEF SleepInv, Booting, Unconnected
      <4>3. \/ bus = "off" /\ GINTSTS = {} /\ calls' = {}
            \/ bus = "reset" /\ GINTSTS = {"USBRST"} /\ calls' = {<<"USBRST", 0>>}
        BY <2>1, <4>1, <4>2
      <4> QED
        BY <2>1, <4>1, <4>3 DEF Booting, Unconnected
    <3> QED
      BY <3>1, <3>2
  <2>4. NoRequest => NoRequest'
    BY <2>1, <2>2 DEF NoRequest, OEPCalls, GlobalInts
  <2>5. WakingUp => WakingUp'
    BY <2>1, <2>2 DEF WakingUp, Due, NothingToEnd, GlobalInts
  <2> QED
    BY <2>1, <2>3, <2>4, <2>5 DEF SleepInv, IdleBus, Asleep, Rising
<1>2. ASSUME NEW c \in calls, c \notin {<<"WKUINT", 0>>, <<"ENUMDNE", 0>>, <<"RXFLVL", 0>>},
             calls' = calls \ {c}, NoRequest => DOEPINT' = {},
             UNCHANGED <<dev_state, rx, hostVars, DAINTMSK>>, 16 \in DAINTMSK
      PROVE  SleepInv'
  BY <1>2, SleepCall DEF NoRequest
<1>3. CASE USB_reset_IRQ
  <2> DEFINE c == <<"USBRST", 0>>
  <2>1. /\ c \in calls /\ calls' = calls \ {c} /\ DOEPINT' = {}
        /\ UNCHANGED <<dev_state, rx, hostVars>> /\ DAINTMSK' = DAINTMSK \cup {0, 16}
    BY <1>3 DEF USB_reset_IRQ, Calling, Done
  <2>2. CASE 16 \in DAINTMSK
    BY <2>1, <2>2, SleepCall DEF NoRequest
  <2>3. CASE 16 \notin DAINTMSK
    <3>1. rx = <<>> /\ bus = "reset" /\ calls = {c}
      BY <2>1, <2>3 DEF SleepInv, Booting, Unconnected
    <3> QED
      BY <2>1, <3>1 DEF SleepInv, Booting, IdleBus, Asleep, Rising, WakingUp, NoRequest, OEPCalls
  <2> QED
    BY <2>2, <2>3
<1>4. CASE 16 \in DAINTMSK
  <2>1. CASE USB_receive_packet_IRQ
    <3>1. <<"RXFLVL", 0>> \in calls /\ calls' = calls \ {<<"RXFLVL", 0>>}
      BY <2>1 DEF USB_receive_packet_IRQ, Calling, Done
    <3>2. Head(rx).status = "SETUP" => DOEPINT' = DOEPINT
      BY <2>1, Zenon DEF USB_receive_packet_IRQ
    <3>3. UNCHANGED <<dev_state, DAINTMSK, GINTSTS, hostVars>>
      BY <2>1 DEF USB_receive_packet_IRQ
    <3>4. rx # <<>>
      BY <3>1 DEF PacketWaits
    <3>5. ASSUME bus # "suspended", dev_state = "SUSPENDED" PROVE WakingUp' /\ NoRequest'
      <4>1. (Due("WKUINT") \/ Due("ENUMDNE")) /\ NothingToEnd /\ NoRequest
        BY <3>4, <3>5 DEF SleepInv, Rising, WakingUp
      <4>2. Head(rx).status = "SETUP"
        BY <3>1, <3>4, <4>1 DEF NothingToEnd
      <4>3. NoRequest'
        BY <3>1, <3>2, <4>1, <4>2 DEF NoRequest
      <4>4. calls # {} /\ (Due("WKUINT")' \/ Due("ENUMDNE")') /\ calls' # {}
        BY <3>1, <4>1 DEF Due
      <4> QED
        BY <3>1, <4>3, <4>4 DEF WakingUp, NothingToEnd
    <3> QED
      BY <1>4, <3>3, <3>4, <3>5 DEF SleepInv, Booting, IdleBus, Asleep, Rising
  <2>2. CASE USB_suspend_IRQ
    <3> DEFINE c == <<"USBSUSP", 0>>
    <3>1. /\ c \in calls /\ calls' = (calls \ {c}) \cup {<<"USBSUSP_ACK", 0>>}
          /\ UNCHANGED <<DOEPINT, rx, hostVars, DAINTMSK>>
      BY <2>2 DEF USB_suspend_IRQ, Calling
    <3>2. NoRequest => NoRequest'
      BY <3>1 DEF NoRequest, OEPCalls
    <3>3. CASE bus = "suspended"
      BY <1>4, <3>1, <3>2, <3>3 DEF SleepInv, Booting, IdleBus, Asleep, Rising
    <3>4. CASE bus # "suspended"
      <4>1. dev_state' = dev_state
        BY <2>2, <3>4 DEF USB_suspend_IRQ
      <4> QED
        BY <1>4, <3>1, <3>2, <4>1, SleepCall
    <3> QED
      BY <3>3, <3>4
  <2>3. CASE USB_suspend_acknowledge
    BY <1>2, <1>4, <2>3 DEF USB_suspend_acknowledge, Calling, Done, NoRequest
  <2>4. CASE USB_enumeration_done_IRQ
    <3>1. 16 \in DAINTMSK'
      BY <1>4, <2>4 DEF USB_enumeration_done_IRQ, open_IEP_mask, open_OEP_mask, close_IEP_mask, HID_IEP
    <3> QED
      BY <2>4, <3>1 DEF USB_enumeration_done_IRQ, Done, SleepInv, Booting, IdleBus, Asleep, Rising, NoRequest
  <2>5. CASE USB_wake_up_IRQ
    <3>1. dev_state' # "SUSPENDED"
      BY <2>5 DEF USB_wake_up_IRQ, BaseState, TypeOK, HandleOK
    <3> QED
      BY <1>4, <2>5, <3>1 DEF USB_wake_up_IRQ, Done, SleepInv, Booting, IdleBus, Asleep, Rising, NoRequest
  <2>6. CASE IEP_interrupts
    <3> DEFINE c == <<"IEPINT", 0>>
    <3>1. /\ c \in calls /\ calls \ {c} \subseteq calls'
          /\ <<"RXFLVL", 0>> \in calls' => <<"RXFLVL", 0>> \in calls
          /\ NoRequest => NoRequest'
      BY <2>6 DEF IEP_interrupts, Calling, NoRequest, OEPCalls
    <3> QED
      BY <1>4, <2>6, <3>1, SleepCall DEF IEP_interrupts
  <2>7. CASE IEP_common_handler
    <3> PICK n \in EpNum : IEP_common_handler!(n)
      BY <2>7 DEF IEP_common_handler
    <3> DEFINE c == <<"IEP", n>>
    <3>1. \A d \in calls' : d \in calls \/ d \in {<<"XFRC", n>>, <<"EPDISD", n>>, <<"TXFE", n>>}
      OBVIOUS
    <3>2. /\ c \in calls /\ calls \ {c} \subseteq calls'
          /\ <<"RXFLVL", 0>> \in calls' => <<"RXFLVL", 0>> \in calls
          /\ NoRequest => NoRequest'
      BY <3>1 DEF Calling, NoRequest, OEPCalls
    <3> QED
      BY <1>4, <3>2, SleepCall
  <2>8. CASE IEP_transfer_complete_IRQ
    BY <1>2, <1>4, <2>8 DEF IEP_transfer_complete_IRQ, Calling, Done, NoRequest
  <2>9. CASE IEP_disabled_IRQ \/ IEP_FIFO_empty_IRQ
    BY <1>2, <1>4, <2>9 DEF IEP_disabled_IRQ, IEP_FIFO_empty_IRQ, Calling, Done, NoRequest
  <2>10. ASSUME NEW c \in OEPCalls, c \in calls, UNCHANGED <<dev_state, hostVars, DAINTMSK>>
         PROVE  SleepInv'
    BY <1>4, <2>10 DEF SleepInv, Booting, IdleBus, Asleep, Rising, NoRequest
  <2>11. CASE OEP_interrupts \/ OEP_common_handler \/ OEP_transfer_complete
    BY <2>10, <2>11 DEF OEP_interrupts, OEP_common_handler, OEP_transfer_complete, Calling, OEPCalls
  <2>12. CASE OEP_setup_done
    <3>1. <<"STUP", 0>> \in calls /\ UNCHANGED hostVars
      BY <2>12 DEF OEP_setup_done, Calling
    <3>2. ~NoRequest
      BY <3>1 DEF NoRequest, OEPCalls
    <3>3. bus # "suspended" /\ dev_state # "SUSPENDED"
      BY <3>2 DEF SleepInv, Asleep, Rising
    <3>4. dev_state' # "SUSPENDED" /\ 16 \in DAINTMSK'
      BY <1>4, <2>12, <3>3, RequestState DEF OEP_setup_done, open_IEP_mask, close_IEP_mask, HID_IEP
    <3> QED
      BY <3>1, <3>3, <3>4 DEF SleepInv, Booting, IdleBus, Asleep, Rising
  <2> QED
    BY <1>1, <1>3, <2>1, <2>2, <2>3, <2>4, <2>5, <2>6, <2>7, <2>8, <2>9, <2>11, <2>12 DEF Driver
<1> QED
  BY <1>1, <1>3, <1>4, FirstCall

-----------------------------------------------------------------------------
(* The configuration and the HID endpoint change together. *)

\* Nothing that EndpointFollowsConfiguration speaks of changes.
Kept ==
  /\ SameHID(IN_ep', IN_ep) /\ (HID_IEP \in DAINTMSK' <=> HID_IEP \in DAINTMSK)
  /\ dev_config' = dev_config /\ BaseState' = BaseState

\* The device stays configured, or not configured, and its endpoint as it was.
Standing ==
  /\ SameHID(IN_ep', IN_ep) /\ (HID_IEP \in DAINTMSK' <=> HID_IEP \in DAINTMSK)
  /\ dev_config' = dev_config
  /\ BaseState' = "CONFIGURED" <=> BaseState = "CONFIGURED"

LEMMA KeptStands == Kept => Standing
BY DEF Kept, Standing

LEMMA StandingConfiguration ==
  EndpointFollowsConfiguration /\ Standing => EndpointFollowsConfiguration'
BY DEF EndpointFollowsConfiguration, Standing, SameHID

\* Changes of single fields of an endpoint that leave it open, or closed.
LEMMA FieldsKept ==
  ASSUME NEW in \in INTable, NEW n \in EpNum
  PROVE  /\ SameHID([in EXCEPT ![n].EPENA = FALSE], in)
         /\ SameHID([in EXCEPT ![n].EPDIS = FALSE], in)
         /\ SameHID([in EXCEPT ![n].count = in[n].size], in)
         /\ SameHID([in EXCEPT ![0] = [@ EXCEPT !.STALL = FALSE, !.EPENA = FALSE]], in)
         /\ SameHID([m \in EpNum |-> [in[m] EXCEPT !.STALL = FALSE]], in)
<1>1. 0 \in EpNum /\ HID_IEP \in EpNum /\ HID_IEP # 0
  BY DEF EpNum, HID_IEP
<1> QED
  BY <1>1 DEF SameHID, INTable, INEndpoint

\* The host and the core open and close no endpoint.
LEMMA ConfigurationOutside ==
  ASSUME TypeOK, BusEvent \/ Core
  PROVE  Kept
<1> USE DEF driverVars, handleVars, controlVars, epVars, coreVars, hostVars
<1>1. IN_ep \in INTable /\ SameHID(IN_ep, IN_ep)
  BY DEF TypeOK, EndpointsOK, INTable, SameHID
<1>2. UNCHANGED <<dev_state, dev_old_state, dev_config, DAINTMSK>>
  BY DEF BusEvent, BusReset, Enumerated, BusSuspend, BusResume, HostSetup, Core, HostReadsData,
     HostReadsStatus, HostReadsReport, Send, HostSendsStatus, HostSeesStall, HostAborts, EndpointDisabled
<1>3. SameHID(IN_ep', IN_ep)
  <2>1. ASSUME NEW n \in EpNum, Send(n) PROVE SameHID(IN_ep', IN_ep)
    <3>1. IN_ep' = [IN_ep EXCEPT ![n].EPENA = FALSE]
      BY <2>1 DEF Send
    <3> QED
      BY <1>1, <2>1, <3>1, FieldsKept, Zenon
  <2>2. CASE HostReadsData \/ HostReadsStatus \/ HostReadsReport
    <3>1. 0 \in EpNum /\ 1 \in EpNum
      BY DEF EpNum
    <3> QED
      BY <2>1, <2>2, <3>1 DEF HostReadsData, HostReadsStatus, HostReadsReport
  <2>3. CASE EndpointDisabled
    <3>1. PICK n \in EpNum : IN_ep' = [IN_ep EXCEPT ![n].EPDIS = FALSE]
      BY <2>3 DEF EndpointDisabled
    <3> QED
      BY <1>1, <3>1, FieldsKept, Zenon
  <2>4. CASE HostSetup
    <3>1. IN_ep' = [IN_ep EXCEPT ![0] = [@ EXCEPT !.STALL = FALSE, !.EPENA = FALSE]]
      BY <2>4 DEF HostSetup
    <3>2. 0 \in EpNum
      BY DEF EpNum
    <3> QED
      BY <1>1, <3>1, <3>2, FieldsKept, Zenon
  <2>5. CASE BusReset \/ Enumerated \/ BusSuspend \/ BusResume
    BY <1>1, <2>5 DEF BusReset, Enumerated, BusSuspend, BusResume
  <2>6. CASE HostSendsStatus \/ HostSeesStall \/ HostAborts
    BY <1>1, <2>6 DEF HostSendsStatus, HostSeesStall, HostAborts
  <2> QED
    BY <2>2, <2>3, <2>4, <2>5, <2>6 DEF BusEvent, Core
<1> QED
  BY <1>2, <1>3 DEF Kept, BaseState

\* A report arms the HID endpoint without opening it.
LEMMA ConfigurationReport ==
  ASSUME TypeOK, send_HID_report
  PROVE  Kept
BY ReportTypes DEF send_HID_report, handleVars, Kept, BaseState

\* Nor does the driver, except at the end of a reset and in answer to a request.
LEMMA ConfigurationInside ==
  ASSUME TypeOK, Driver, ~USB_enumeration_done_IRQ, ~OEP_setup_done
  PROVE  Kept
<1> USE DEF driverVars, handleVars, controlVars, epVars, coreVars, hostVars
<1>1. IN_ep \in INTable /\ SameHID(IN_ep, IN_ep)
  BY DEF TypeOK, EndpointsOK, INTable, SameHID
<1>2. BaseState' = BaseState
  <2>1. CASE USB_suspend_IRQ \/ USB_wake_up_IRQ
    BY <2>1 DEF USB_suspend_IRQ, USB_wake_up_IRQ, BaseState, TypeOK, HandleOK
  <2> QED
    BY <2>1 DEF BaseState, Driver, USB_common_handler, USB_receive_packet_IRQ,
       USB_suspend_acknowledge, USB_reset_IRQ, IEP_interrupts, IEP_common_handler,
       IEP_transfer_complete_IRQ, IEP_disabled_IRQ, IEP_FIFO_empty_IRQ, OEP_interrupts,
       OEP_common_handler, OEP_transfer_complete
<1>3. dev_config' = dev_config /\ DAINTMSK' \in {DAINTMSK, DAINTMSK \cup {0, 16}}
  BY DEF Driver, USB_common_handler, USB_receive_packet_IRQ, USB_suspend_IRQ, USB_wake_up_IRQ,
     USB_suspend_acknowledge, USB_reset_IRQ, IEP_interrupts, IEP_common_handler,
     IEP_transfer_complete_IRQ, IEP_disabled_IRQ, IEP_FIFO_empty_IRQ, OEP_interrupts,
     OEP_common_handler, OEP_transfer_complete
<1>4. SameHID(IN_ep', IN_ep)
  <2>1. HID_IEP \in EpNum /\ HID_IEP # 0 /\ 0 \in EpNum
    BY DEF HID_IEP, EpNum
  <2>2. \A buffer \in Buffers, size \in Sizes : SameHID(IN_transfer(IN_ep, 0, buffer, size), IN_ep)
    BY <1>1, <2>1, IN_transferType DEF SameHID
  <2>3. "NULL" \in Buffers /\ 0 \in Sizes
    BY DEF Buffers, Sizes
  <2>4. CASE USB_reset_IRQ
    BY <1>1, <2>1, <2>4, FieldsKept DEF USB_reset_IRQ
  <2>5. CASE IEP_transfer_complete_IRQ
    <3> DEFINE left == IN_ep[0].size - IN_ep[0].count
    <3> PICK n \in EpNum : IEP_transfer_complete_IRQ!(n)
      BY <2>5 DEF IEP_transfer_complete_IRQ
    <3>1. SameHID(stall_IEP(IN_ep, 0), IN_ep)
      BY <1>1, <2>1, stall_IEPType DEF SameHID
    <3>2. CASE InDataStage(n) /\ left > IN_ep[0].mps
      <4>1. IN_ep' = IN_transfer(IN_ep, 0, IN_ep[0].buffer, left)
        BY <3>2
      <4>2. IN_ep[0].buffer \in Buffers /\ left \in Sizes
        BY <1>1, <2>1, <3>2, LeftToSend
      <4> QED
        BY <2>2, <4>1, <4>2
    <3>3. CASE ~(InDataStage(n) /\ left > IN_ep[0].mps)
      <4>1. IN_ep' \in {IN_ep, IN_transfer(IN_ep, 0, "NULL", 0), stall_IEP(IN_ep, 0)}
        BY <3>3, Zenon
      <4> QED
        BY <1>1, <2>2, <2>3, <3>1, <4>1
    <3> QED
      BY <3>2, <3>3
  <2>6. CASE IEP_FIFO_empty_IRQ
    <3> PICK n \in EpNum : IEP_FIFO_empty_IRQ!(n)
      BY <2>6 DEF IEP_FIFO_empty_IRQ
    <3>1. IN_ep' \in {IN_ep, [IN_ep EXCEPT ![n].count = IN_ep[n].size]}
      OBVIOUS
    <3> QED
      BY <1>1, <3>1, FieldsKept
  <2>7. CASE OEP_transfer_complete
    <3>1. IN_ep' \in {IN_ep, IN_transfer(IN_ep, 0, "NULL", 0)}
      BY <2>7 DEF OEP_transfer_complete
    <3> QED
      BY <1>1, <2>2, <2>3, <3>1
  <2> QED
    BY <1>1, <2>4, <2>5, <2>6, <2>7 DEF Driver, USB_common_handler, USB_receive_packet_IRQ,
       USB_suspend_IRQ, USB_wake_up_IRQ, USB_suspend_acknowledge, IEP_interrupts,
       IEP_common_handler, IEP_disabled_IRQ, OEP_interrupts, OEP_common_handler
<1>5. HID_IEP \in DAINTMSK' <=> HID_IEP \in DAINTMSK
  BY <1>3 DEF HID_IEP
<1> QED
  BY <1>2, <1>3, <1>4, <1>5, Zenon DEF Kept

\* At the end of a reset the device is in Default and the endpoint is closed.
LEMMA ConfigurationReset ==
  ASSUME TypeOK, USB_enumeration_done_IRQ
  PROVE  EndpointFollowsConfiguration'
<1> DEFINE o == open_IEP(HID_deinit(IN_ep), 0, EP0_MPS)
<1>1. 0 \in EpNum /\ HID_IEP \in EpNum /\ HID_IEP # 0 /\ EP0_MPS \in {0, HID_MPS, EP0_MPS}
  BY DEF EpNum, HID_IEP
<1>2. IN_ep \in INTable
  BY DEF TypeOK, EndpointsOK, INTable
<1>3. o \in INTable /\ ~o[HID_IEP].USBAEP /\ ~o[HID_IEP].is_used
  <2> DEFINE d == HID_deinit(IN_ep)
  <2>1. d \in INTable /\ ~d[HID_IEP].USBAEP /\ ~d[HID_IEP].is_used
    BY <1>2, HIDTypes
  <2> HIDE DEF d
  <2>2. /\ open_IEP(d, 0, EP0_MPS) \in INTable
        /\ open_IEP(d, 0, EP0_MPS)[HID_IEP] = d[HID_IEP]
    BY <1>1, <2>1, open_IEPType
  <2> QED
    BY <2>1, <2>2 DEF d
<1>4. IN_ep' = [o EXCEPT ![0].is_used = TRUE]
  BY DEF USB_enumeration_done_IRQ
<1> HIDE DEF o
<1>5. ~IN_ep'[HID_IEP].USBAEP /\ ~IN_ep'[HID_IEP].is_used
  BY <1>1, <1>3, <1>4 DEF INTable
<1>6. HID_IEP \notin DAINTMSK' /\ dev_config' = 0 /\ BaseState' = "DEFAULT"
  BY <1>1 DEF USB_enumeration_done_IRQ, open_IEP_mask, open_OEP_mask, close_IEP_mask, BaseState, HID_IEP
<1> QED
  BY <1>5, <1>6 DEF EndpointFollowsConfiguration

\* An answer that starts from a table whose HID endpoint is as it was.
LEMMA AnswerKeeps ==
  ASSUME TypeOK, NEW r \in Reply, NEW in \in INTable, NEW out \in OUTTable,
         SameHID(in, IN_ep), Answer(r, in, out),
         UNCHANGED <<dev_state, dev_old_state, dev_config, DAINTMSK>>
  PROVE  Kept
<1>1. SameHID(IN_ep', in)
  BY AnswerType DEF TypeOK, EndpointsOK
<1>2. SameHID(IN_ep', IN_ep)
  BY <1>1 DEF SameHID
<1>3. BaseState' = BaseState
  BY DEF BaseState
<1> QED
  BY <1>2, <1>3, Zenon DEF Kept

\* A request to a device that is awake leaves the endpoint as it was, or opens or
\* closes it with the configuration.
LEMMA StandingRequest ==
  ASSUME TypeOK, dev_config = 1 <=> BaseState = "CONFIGURED", dev_state # "SUSPENDED",
         NEW h \in Packets,
         DeviceRequest(h) \/ InterfaceRequest(h) \/ EndpointRequest(h) \/ OtherRequest(h)
  PROVE  Standing \/ EndpointFollowsConfiguration'
<1> USE DEF handleVars
<1>1. /\ h \in Header /\ h.value \in Nat
  BY PacketsAreHeaders, HeaderNumbers
<1>2. /\ IN_ep \in INTable /\ OUT_ep \in OUTTable /\ SameHID(IN_ep, IN_ep)
      /\ DIEPEMPMSK \subseteq EpNum /\ HandleOK
  BY DEF TypeOK, EndpointsOK, INTable, OUTTable, SameHID
<1>3. HID_IEP \in EpNum /\ HID_IEP # 0 /\ 0 \in EpNum
  BY DEF EpNum, HID_IEP
<1>4. dev_config = 1 <=> dev_state = "CONFIGURED"
  BY DEF BaseState
<1>5. ASSUME NEW r \in Reply, AnswerOnly(r) PROVE Standing
  BY <1>2, <1>5, AnswerKeeps, KeptStands DEF AnswerOnly
<1>6. CASE DeviceRequest(h)
  <2>1. CASE \E r \in Reply, b \in BOOLEAN : ChangeRemoteWakeup(r, b)
    BY <1>2, <2>1, AnswerKeeps, KeptStands DEF ChangeRemoteWakeup
  <2>2. CASE set_device_address(h)
    <3>1. CASE AcceptsAddress(h)
      <4>1. Answer(Status, IN_ep, OUT_ep) /\ dev_state # "CONFIGURED"
            /\ dev_state' \in {"DEFAULT", "ADDRESSED"}
            /\ UNCHANGED <<dev_config, DAINTMSK>>
        BY <2>2, <3>1 DEF set_device_address, AcceptsAddress, AddressState
      <4>2. SameHID(IN_ep', IN_ep)
        BY <1>2, <4>1, AnswerType, PlainReplies
      <4> QED
        BY <4>1, <4>2 DEF Standing, BaseState
    <3>2. CASE ~AcceptsAddress(h)
      BY <1>5, <2>2, <3>2, PlainReplies DEF set_device_address
    <3> QED
      BY <3>1, <3>2
  <2>3. CASE set_device_configuration(h)
    <3> DEFINE config == Low(h.value)
    <3>1. config \in Nat
      BY <1>1 DEF Low
    <3> HIDE DEF config
    <3>2. ASSUME NEW in \in INTable, Configure(in, config), ~RejectsConfiguration(config), config # 0
          PROVE  EndpointFollowsConfiguration'
      <4>1. SameHID(IN_ep', HID_init(in))
        BY <1>2, <3>2, HIDTypes, AnswerType, PlainReplies DEF Configure
      <4>2. IN_ep'[HID_IEP].USBAEP /\ IN_ep'[HID_IEP].is_used
        BY <3>2, <4>1, HIDTypes DEF SameHID
      <4>3. dev_config' = 1 /\ HID_IEP \in DAINTMSK' /\ dev_state' = "CONFIGURED"
        BY <3>1, <3>2 DEF Configure, RejectsConfiguration, MAX_CONFIGURATION_COUNT, open_IEP_mask
      <4> QED
        BY <4>2, <4>3 DEF EndpointFollowsConfiguration, BaseState
    <3>3. ASSUME NEW r \in Reply, NEW state \in {"DEFAULT", "ADDRESSED"}, NEW c, c # 1,
                 Unconfigure(r, state, c)
          PROVE  EndpointFollowsConfiguration'
      <4>1. SameHID(IN_ep', HID_deinit(IN_ep))
        BY <1>2, <3>3, HIDTypes, AnswerType DEF Unconfigure
      <4>2. ~IN_ep'[HID_IEP].USBAEP /\ ~IN_ep'[HID_IEP].is_used
        BY <1>2, <4>1, HIDTypes DEF SameHID
      <4>3. dev_config' # 1 /\ HID_IEP \notin DAINTMSK' /\ dev_state' = state
        BY <3>3 DEF Unconfigure, close_IEP_mask
      <4> QED
        BY <4>2, <4>3 DEF EndpointFollowsConfiguration, BaseState
    <3>4. \A r \in {Stall, Status} : AnswerOnly(r) => Standing
      BY <1>5, PlainReplies
    <3>5. HID_deinit(IN_ep) \in INTable
      BY <1>2, HIDTypes
    <3>6. CASE RejectsConfiguration(config)
      BY <2>3, <3>4, <3>6 DEF set_device_configuration, config
    <3>7. CASE ~RejectsConfiguration(config) /\ dev_state = "ADDRESSED"
      BY <1>2, <2>3, <3>2, <3>4, <3>7 DEF set_device_configuration, config
    <3>8. CASE ~RejectsConfiguration(config) /\ dev_state = "CONFIGURED"
      <4>1. CASE config = 0
        <5>1. Unconfigure(Status, "ADDRESSED", config)
          BY <2>3, <3>8, <4>1, Zenon DEF set_device_configuration, config
        <5> QED
          BY <3>3, <4>1, <5>1, PlainReplies
      <4>2. CASE config # 0
        <5>1. Configure(HID_deinit(IN_ep), config) \/ AnswerOnly(Status)
          BY <2>3, <3>8, <4>2, Zenon DEF set_device_configuration, config
        <5> QED
          BY <3>2, <3>4, <3>5, <3>8, <4>2, <5>1
      <4> QED
        BY <4>1, <4>2
    <3>9. CASE ~RejectsConfiguration(config) /\ dev_state \notin {"ADDRESSED", "CONFIGURED"}
      <4>1. Unconfigure(Stall, dev_state, dev_config)
        BY <2>3, <3>9, Zenon DEF set_device_configuration, config
      <4>2. dev_state = "DEFAULT" /\ dev_config # 1
        BY <1>2, <1>4, <3>9 DEF HandleOK, DevStates
      <4> QED
        BY <3>3, <4>1, <4>2, PlainReplies
    <3> QED
      BY <3>6, <3>7, <3>8, <3>9
  <2>4. \/ \E r \in Reply : AnswerOnly(r)
        \/ \E r \in Reply, b \in BOOLEAN : ChangeRemoteWakeup(r, b)
        \/ set_device_address(h)
        \/ set_device_configuration(h)
    BY <1>1, <1>6, DeviceReplies, PlainReplies, Zenon DEF DeviceRequest
  <2> QED
    BY <1>5, <2>1, <2>2, <2>3, <2>4
<1>7. CASE InterfaceRequest(h)
  <2> DEFINE r == IF RejectsInterface(h) THEN Stall ELSE HID_setup(dev_state, h)
  <2>1. r \in Reply /\ Status \in Reply
    BY <1>1, HID_setupReply, PlainReplies
  <2>2. \A t \in INTable, q \in Reply : ReplyIN(t, q) \in INTable /\ SameHID(ReplyIN(t, q), t)
    BY <1>3, ReplyINType DEF SameHID
  <2>3. /\ IN_ep' \in {ReplyIN(ReplyIN(IN_ep, r), Status), ReplyIN(IN_ep, r)}
        /\ UNCHANGED <<dev_state, dev_old_state, dev_config, DAINTMSK>>
    BY <1>7, Zenon DEF InterfaceRequest, r
  <2> HIDE DEF r
  <2>4. SameHID(IN_ep', IN_ep)
    BY <1>2, <2>1, <2>2, <2>3 DEF SameHID
  <2>5. BaseState' = BaseState
    BY <2>3 DEF BaseState
  <2> QED
    BY <2>3, <2>4, <2>5, Zenon DEF Standing
<1>8. CASE EndpointRequest(h)
  <2> DEFINE a == Address(h)
  <2>1. h.recipiant = "ENDPOINT" /\ UNCHANGED <<dev_state, dev_old_state, dev_config, DAINTMSK>>
    BY <1>8 DEF EndpointRequest
  <2>2. EpOf(a) \in EpNum
    BY <2>1, RequestsAssumption DEF Packets, ZeroHeader, Address
  <2>3. /\ HaltIN(a) \in INTable /\ HaltOUT(a) \in OUTTable
        /\ SameHID(HaltIN(a), IN_ep)
    BY <1>2, <1>3, <2>2, stall_IEPType, OUTTypes DEF HaltIN, HaltOUT, SameHID
  <2>4. /\ unstall_IEP(IN_ep, 0) \in INTable /\ unstall_OEP(OUT_ep, 0) \in OUTTable
        /\ SameHID(unstall_IEP(IN_ep, 0), IN_ep)
    BY <1>2, <1>3, unstall_IEPType, OUTTypes DEF SameHID
  <2>5. \E q \in Reply, in \in INTable, out \in OUTTable : SameHID(in, IN_ep) /\ Answer(q, in, out)
    <3>1. /\ Status \in Reply /\ Stall \in Reply /\ StallIN \in Reply /\ NoReply \in Reply
          /\ get_dendpoint_status(h) \in Reply /\ HID_setup(dev_state, h) \in Reply
      BY <1>1, PlainReplies, DeviceReplies, HID_setupReply
    <3>2. CASE set_endpoin_feature(h)
      BY <1>2, <2>3, <3>1, <3>2, Zenon DEF set_endpoin_feature
    <3>3. CASE clear_endpoint_feature(h)
      BY <1>2, <2>3, <2>4, <3>1, <3>3, Zenon DEF clear_endpoint_feature
    <3>4. \/ set_endpoin_feature(h) \/ clear_endpoint_feature(h)
          \/ \E q \in Reply : Answer(q, IN_ep, OUT_ep)
      BY <1>8, <3>1, Zenon DEF EndpointRequest
    <3> QED
      BY <1>2, <3>2, <3>3, <3>4
  <2> QED
    BY <2>1, <2>5, AnswerKeeps, KeptStands
<1>9. CASE OtherRequest(h)
  BY <1>5, <1>9, PlainReplies DEF OtherRequest
<1> QED
  BY <1>6, <1>7, <1>8, <1>9

LEMMA ConfigurationRequest ==
  ASSUME TypeOK, EndpointFollowsConfiguration, dev_state # "SUSPENDED", NEW h \in Packets,
         DeviceRequest(h) \/ InterfaceRequest(h) \/ EndpointRequest(h) \/ OtherRequest(h)
  PROVE  EndpointFollowsConfiguration'
<1>1. dev_config = 1 <=> BaseState = "CONFIGURED"
  BY DEF EndpointFollowsConfiguration
<1> QED
  BY <1>1, StandingRequest, StandingConfiguration

\* A setup stage that has ended finds the device awake.
LEMMA AwakeForRequests ==
  ASSUME SleepInv, <<"STUP", 0>> \in calls
  PROVE  dev_state # "SUSPENDED"
<1>1. ~NoRequest
  BY DEF NoRequest, OEPCalls
<1> QED
  BY <1>1 DEF SleepInv, Asleep, Rising

\* A step leaves the endpoint as it was, or puts it where the configuration wants it.
LEMMA ConfigurationOutcome ==
  ASSUME TypeOK, SleepInv, dev_config = 1 <=> BaseState = "CONFIGURED", [Next]_vars
  PROVE  Standing \/ EndpointFollowsConfiguration'
<1>1. CASE BusEvent \/ Core
  BY <1>1, ConfigurationOutside, KeptStands
<1>2. CASE USB_enumeration_done_IRQ
  BY <1>2, ConfigurationReset
<1>3. CASE OEP_setup_done
  <2>1. dev_state # "SUSPENDED"
    BY <1>3, AwakeForRequests DEF OEP_setup_done, Calling
  <2>2. setup \in Packets
    BY DEF TypeOK, ControlOK
  <2> QED
    BY <1>3, <2>1, <2>2, StandingRequest DEF OEP_setup_done
<1>4. CASE UNCHANGED vars
  BY <1>4 DEF vars, handleVars, epVars, Standing, SameHID, BaseState
<1> QED
  BY <1>1, <1>2, <1>3, <1>4, ConfigurationInside, ConfigurationReport, KeptStands DEF Next

LEMMA ConfigurationStep ==
  ASSUME TypeOK, SleepInv, EndpointFollowsConfiguration, [Next]_vars
  PROVE  EndpointFollowsConfiguration'
<1>1. dev_config = 1 <=> BaseState = "CONFIGURED"
  BY DEF EndpointFollowsConfiguration
<1> QED
  BY <1>1, ConfigurationOutcome, StandingConfiguration

\* Requests and the receive FIFO leave a sleeping device alone, and the driver
\* wakes the device up before the first request after a resume.
THEOREM SleepCorrect == ASSUME Unhurried PROVE Spec => []SleepInv
<1>1. TypeOK /\ PacketWaits /\ SleepInv /\ [Next]_vars => SleepInv'
  <2> SUFFICES ASSUME TypeOK, PacketWaits, SleepInv, [Next]_vars PROVE SleepInv'
    OBVIOUS
  <2>1. CASE UNCHANGED vars
    BY <2>1 DEF vars, handleVars, controlVars, epVars, coreVars, hostVars, SleepInv, Booting,
       Unconnected, IdleBus, Asleep, Rising, WakingUp, Due, NothingToEnd, NoRequest
  <2> QED
    BY <2>1, SleepBusEvent, SleepCore, SleepDriver, SleepReport DEF Next
<1> QED
  BY <1>1, SleepInit, TypeCorrect, PTL DEF Spec

\* The HID endpoint is open, used and enabled exactly while a configuration is
\* selected, for every set of requests and every FIFO, provided the host leaves
\* the driver the time to see a reset end, a suspend and a resume.
THEOREM ConfigurationCorrect == ASSUME Unhurried PROVE Spec => []EndpointFollowsConfiguration
<1>1. Init => EndpointFollowsConfiguration
  BY DEF Init, EndpointFollowsConfiguration, BaseState, InitialIN, EpNum, HID_IEP
<1>2. TypeOK /\ SleepInv /\ EndpointFollowsConfiguration /\ [Next]_vars
        => EndpointFollowsConfiguration'
  BY ConfigurationStep
<1> QED
  BY <1>1, <1>2, TypeCorrect, SleepCorrect, PTL DEF Spec

-----------------------------------------------------------------------------
(***************************************************************************)
(* The driver implements Chapter9, under the same assumption and with the  *)
(* same invariant: every step is a step of a device as the host knows it,  *)
(* or one the host does not see.                                           *)
(***************************************************************************)

\* What the host sees of the device stays as it is.
Unseen == UNCHANGED <<BaseState, dev_state = "SUSPENDED", IN_ep[HID_IEP].USBAEP>>

LEMMA UnseenIsStutter == Unseen => [Device9!Next9]_Device9!vars9
BY DEF Unseen, Device9!vars9

LEMMA KeptIsUnseen == Kept /\ dev_state' = dev_state => Unseen
BY DEF Kept, Unseen, SameHID

\* The host, the core, a report, and the handlers other than those of the end of a reset, a
\* suspend, a resume and a request.
LEMMA UnseenSteps ==
  ASSUME TypeOK,
         \/ BusEvent \/ Core \/ send_HID_report
         \/ /\ Driver /\ ~USB_enumeration_done_IRQ /\ ~OEP_setup_done
            /\ ~USB_suspend_IRQ /\ ~USB_wake_up_IRQ
  PROVE  Unseen
<1> USE DEF driverVars, handleVars, coreVars, hostVars
<1>1. Kept
  BY ConfigurationOutside, ConfigurationInside, ConfigurationReport
<1>2. dev_state' = dev_state
  BY DEF BusEvent, BusReset, Enumerated, BusSuspend, BusResume, HostSetup, Core, HostReadsData,
     HostReadsStatus, HostReadsReport, Send, HostSendsStatus, HostSeesStall, HostAborts,
     EndpointDisabled, Driver, USB_common_handler, USB_receive_packet_IRQ,
     USB_suspend_acknowledge, USB_reset_IRQ, IEP_interrupts, IEP_common_handler,
     IEP_transfer_complete_IRQ, IEP_disabled_IRQ, IEP_FIFO_empty_IRQ, OEP_interrupts,
     OEP_common_handler, OEP_transfer_complete, send_HID_report
<1> QED
  BY <1>1, <1>2, KeptIsUnseen

\* Going to sleep and waking up.
LEMMA SleepSteps ==
  ASSUME TypeOK, USB_suspend_IRQ \/ USB_wake_up_IRQ
  PROVE  [Device9!Next9]_Device9!vars9
<1> USE DEF handleVars, epVars
<1>1. IN_ep' = IN_ep /\ BaseState' = BaseState
  BY DEF USB_suspend_IRQ, USB_wake_up_IRQ, BaseState, TypeOK, HandleOK
<1>2. CASE USB_suspend_IRQ
  <2>1. dev_state' \in {dev_state, "SUSPENDED"}
    BY <1>2 DEF USB_suspend_IRQ
  <2> QED
    BY <1>1, <2>1 DEF Device9!vars9, Device9!Next9, Device9!Suspend9
<1>3. CASE USB_wake_up_IRQ
  <2>1. dev_state' = BaseState /\ BaseState # "SUSPENDED"
    BY <1>3 DEF USB_wake_up_IRQ, BaseState, TypeOK, HandleOK
  <2>2. (dev_state = "SUSPENDED") \/ dev_state' = dev_state
    BY <2>1 DEF BaseState
  <2> QED
    BY <1>1, <2>1, <2>2 DEF Device9!vars9, Device9!Next9, Device9!Resume9
<1> QED
  BY <1>2, <1>3

\* A request to a device that is awake.
LEMMA RequestSteps ==
  ASSUME TypeOK, EndpointFollowsConfiguration, dev_state # "SUSPENDED", NEW h \in Packets,
         DeviceRequest(h) \/ InterfaceRequest(h) \/ EndpointRequest(h) \/ OtherRequest(h)
  PROVE  [Device9!Next9]_Device9!vars9
<1> USE DEF handleVars
<1>1. dev_state' # "SUSPENDED" /\ EndpointFollowsConfiguration'
  BY RequestState, ConfigurationRequest
<1>2. BaseState = dev_state /\ BaseState' = dev_state'
  BY <1>1 DEF BaseState
<1>3. /\ IN_ep[HID_IEP].USBAEP <=> dev_state = "CONFIGURED"
      /\ IN_ep'[HID_IEP].USBAEP <=> dev_state' = "CONFIGURED"
  BY <1>1, <1>2 DEF EndpointFollowsConfiguration
<1>4. IN_ep[HID_IEP].USBAEP \in BOOLEAN /\ IN_ep'[HID_IEP].USBAEP \in BOOLEAN
  <2>1. EndpointsOK /\ EndpointsOK'
    BY TypeRequest DEF TypeOK
  <2> QED
    BY <2>1 DEF EndpointsOK, INEndpoint, EpNum, HID_IEP
<1>5. \/ dev_state' = dev_state
      \/ dev_state # "CONFIGURED" /\ dev_state' \in {"DEFAULT", "ADDRESSED"}
      \/ dev_state = "ADDRESSED" /\ dev_state' = "CONFIGURED"
      \/ dev_state = "CONFIGURED" /\ dev_state' = "ADDRESSED"
  <2>1. CASE InterfaceRequest(h) \/ EndpointRequest(h) \/ OtherRequest(h)
    BY <2>1 DEF InterfaceRequest, EndpointRequest, OtherRequest, AnswerOnly
  <2>2. CASE DeviceRequest(h)
    <3>1. \/ \E r : AnswerOnly(r)
          \/ \E r, b : ChangeRemoteWakeup(r, b)
          \/ set_device_address(h)
          \/ set_device_configuration(h)
      BY <2>2, Zenon DEF DeviceRequest
    <3>2. CASE (\E r : AnswerOnly(r)) \/ (\E r, b : ChangeRemoteWakeup(r, b))
      BY <3>2 DEF AnswerOnly, ChangeRemoteWakeup
    <3>3. CASE set_device_address(h)
      BY <3>3 DEF set_device_address, AcceptsAddress, AddressState, AnswerOnly
    <3>4. CASE set_device_configuration(h)
      <4>1. \/ \E r : AnswerOnly(r)
            \/ dev_state \in {"ADDRESSED", "CONFIGURED"} /\ \E in : Configure(in, Low(h.value))
            \/ dev_state = "CONFIGURED" /\ \E r, c : Unconfigure(r, "ADDRESSED", c)
            \/ \E r, c : Unconfigure(r, dev_state, c)
        BY <3>4, Zenon DEF set_device_configuration
      <4> QED
        BY <4>1 DEF AnswerOnly, Configure, Unconfigure
    <3> QED
      BY <3>1, <3>2, <3>3, <3>4
  <2> QED
    BY <2>1, <2>2
<1> QED
  BY <1>1, <1>2, <1>3, <1>4, <1>5 DEF Device9!vars9, Device9!Next9, Device9!Address9,
     Device9!Configure9, Device9!Unconfigure9

\* The end of a reset.
LEMMA ResetSteps ==
  ASSUME TypeOK, USB_enumeration_done_IRQ
  PROVE  [Device9!Next9]_Device9!vars9
<1>1. dev_state' = "DEFAULT" /\ EndpointFollowsConfiguration'
  BY ConfigurationReset DEF USB_enumeration_done_IRQ
<1>2. BaseState' = "DEFAULT" /\ ~IN_ep'[HID_IEP].USBAEP
  BY <1>1 DEF BaseState, EndpointFollowsConfiguration
<1>3. IN_ep'[HID_IEP].USBAEP \in BOOLEAN
  <2>1. EndpointsOK'
    BY TypeEndpointSteps DEF TypeOK
  <2> QED
    BY <2>1 DEF EndpointsOK, INEndpoint, EpNum, HID_IEP
<1> QED
  BY <1>1, <1>2, <1>3 DEF Device9!Next9, Device9!Reset9

\* The driver is a device as chapter 9 of USB 2.0 describes it: it goes from one
\* visible state to another, and opens and closes its interrupt endpoint, only as
\* the host expects.
THEOREM Chapter9Correct == ASSUME Unhurried PROVE Spec => ImplementsChapter9
<1>1. Init => Device9!Init9
  <2>1. Init => BaseState = "DEFAULT" /\ (dev_state = "SUSPENDED") = FALSE
                /\ IN_ep[HID_IEP].USBAEP = FALSE
    BY DEF Init, BaseState, InitialIN, EpNum, HID_IEP
  <2> QED
    BY <2>1 DEF Device9!Init9
<1>2. TypeOK /\ SleepInv /\ EndpointFollowsConfiguration /\ [Next]_vars
        => [Device9!Next9]_Device9!vars9
  <2> SUFFICES ASSUME TypeOK, SleepInv, EndpointFollowsConfiguration, [Next]_vars
               PROVE  [Device9!Next9]_Device9!vars9
    OBVIOUS
  <2>1. CASE OEP_setup_done
    <3>1. <<"STUP", 0>> \in calls
      BY <2>1 DEF OEP_setup_done, Calling
    <3>2. dev_state # "SUSPENDED"
      BY <3>1, AwakeForRequests
    <3>3. setup \in Packets
      BY DEF TypeOK, ControlOK
    <3> QED
      BY <2>1, <3>2, <3>3, RequestSteps DEF OEP_setup_done
  <2>2. CASE UNCHANGED vars
    BY <2>2, UnseenIsStutter DEF vars, handleVars, epVars, Unseen, BaseState
  <2> QED
    BY <2>1, <2>2, ResetSteps, SleepSteps, UnseenSteps, UnseenIsStutter DEF Next
<1> QED
  BY <1>1, <1>2, TypeCorrect, SleepCorrect, ConfigurationCorrect, PTL DEF Spec, ImplementsChapter9, Device9!Spec9

=============================================================================
