----------------------------- MODULE UsbEndpoint -----------------------------
(***************************************************************************)
(* The endpoints of the USB core and the driver functions that act on one  *)
(* of them (src/src/usb/usb_int.c, "IO", "ep init" and "stall/un-stall").  *)
(*                                                                         *)
(* An endpoint is one record that joins the driver's EP_handle_t with the  *)
(* bits of DIEPCTL/DOEPCTL the driver reads or writes.  Every C function   *)
(* is an operator from a table of endpoints to a table of endpoints, so    *)
(* that a handler which calls several of them composes the operators.      *)
(*                                                                         *)
(* EPENA stands for "EPENA set and NAK cleared", the only combination in   *)
(* which the core moves data.  Transfer sizes are bytes; payloads are the  *)
(* names of the buffers they are taken from.                               *)
(***************************************************************************)
EXTENDS Naturals, Sequences

EpNum   == 0..1             \* the endpoints this device uses: EP0 and HID_IEP
HID_IEP == 1
EP0_MPS == 64
HID_MPS == 4

\* What the driver hands to IN_transfer: descriptors, variables, a variable on
\* the stack, the keyboard report.
Descriptors == {"device", "config", "lang_ID", "manufacturer", "product",
                "serial", "config_string", "interface", "report_desc", "hid_desc"}
Variables == {"dev_config_status", "dev_default_config", "dev_config",
              "ep_status", "ep_status_halted", "protocol", "idle", "alt_setting"}
StackVariable == "status"
Buffers == Descriptors \cup Variables \cup {StackVariable, "report", "NULL"}

Sizes == 0..255

INEndpoint ==
  [buffer : Buffers, size : Sizes, count : Sizes, mps : {0, HID_MPS, EP0_MPS},
   is_used : BOOLEAN, is_stall : BOOLEAN,
   USBAEP : BOOLEAN, EPENA : BOOLEAN, EPDIS : BOOLEAN, STALL : BOOLEAN]
OUTEndpoint ==
  [size : {0}, is_used : BOOLEAN, is_stall : BOOLEAN,
   USBAEP : BOOLEAN, EPENA : BOOLEAN, STALL : BOOLEAN]

\* The endpoints as config_USB leaves them.
InitialIN ==
  [n \in EpNum |-> [buffer |-> "NULL", size |-> 0, count |-> 0, mps |-> 0,
                    is_used |-> FALSE, is_stall |-> FALSE,
                    USBAEP |-> FALSE, EPENA |-> FALSE, EPDIS |-> FALSE, STALL |-> FALSE]]
InitialOUT ==
  [n \in EpNum |-> [size |-> 0, is_used |-> FALSE, is_stall |-> FALSE,
                    USBAEP |-> FALSE, EPENA |-> FALSE, STALL |-> FALSE]]

-----------------------------------------------------------------------------
(* Transfers *)

\* On EP0 a transfer is at most one packet.
TransferSize(in, n, size) ==
  IF n = 0 /\ size > in[n].mps THEN in[n].mps ELSE size

IN_transfer(in, n, buffer, size) ==
  [in EXCEPT ![n] = [@ EXCEPT !.buffer = buffer, !.size = TransferSize(in, n, size),
                              !.count = 0, !.EPENA = TRUE]]

\* The FIFO-empty interrupt is enabled for a transfer that carries data only.
IN_transfer_mask_Forgotten(mask, n, size) == mask
IN_transfer_mask(mask, n, size) == IF size > 0 THEN mask \cup {n} ELSE mask

\* The driver only ever arms EP0 with a zero size.
OUT_transfer_NotArmed(out, n) == [out EXCEPT ![n].size = 0]
OUT_transfer(out, n) == [out EXCEPT ![n] = [@ EXCEPT !.size = 0, !.EPENA = TRUE]]

-----------------------------------------------------------------------------
(* Opening and closing.  DAINTMSK holds the bit numbers of the enabled     *)
(* endpoint interrupts: n for IN endpoint n, 16 + n for OUT endpoint n.    *)

open_IEP_Unstalls(in, n, mps) ==
  [in EXCEPT ![n] = [@ EXCEPT !.mps = mps, !.USBAEP = TRUE, !.STALL = FALSE]]
open_IEP(in, n, mps) == [in EXCEPT ![n] = [@ EXCEPT !.mps = mps, !.USBAEP = TRUE]]
open_IEP_mask(mask, n) == mask \cup {n}

\* The mask the code sets is 0x10 << n: the bit of IN endpoint 4 + n.
open_OEP(out, n) == [out EXCEPT ![n].USBAEP = TRUE]
open_OEP_mask(mask, n) == mask \cup {4 + n}

\* SNAK and EPDIS stop a transfer in progress; the core then raises EPDISD.
close_IEP(in, n) ==
  [in EXCEPT ![n] = [@ EXCEPT !.USBAEP = FALSE,
                              !.EPDIS = in[n].EPDIS \/ in[n].EPENA,
                              !.EPENA = FALSE]]
close_IEP_mask(mask, n) == mask \ {n}

-----------------------------------------------------------------------------
(* Stalling.  The STUPCNT that start_OEP0 rewrites only tells the core how *)
(* many SETUP packets to accept; EP0 accepts them in every state.          *)

stall_IEP(in, n) ==
  [in EXCEPT ![n] = [@ EXCEPT !.is_stall = TRUE, !.STALL = TRUE,
                              !.EPDIS = (n = 0 \/ in[n].EPENA) /\ in[n].EPDIS]]
stall_OEP(out, n) == [out EXCEPT ![n] = [@ EXCEPT !.is_stall = TRUE, !.STALL = TRUE]]

unstall_IEP(in, n) == [in EXCEPT ![n] = [@ EXCEPT !.is_stall = FALSE, !.STALL = FALSE]]
unstall_OEP(out, n) == [out EXCEPT ![n] = [@ EXCEPT !.is_stall = FALSE, !.STALL = FALSE]]

=============================================================================
