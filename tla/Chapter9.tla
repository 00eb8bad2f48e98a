------------------------------ MODULE Chapter9 -------------------------------
(***************************************************************************)
(* What a USB device promises its host (chapter 9 of USB 2.0), reduced to  *)
(* what the host can rely on between requests: the visible device state,   *)
(* whether the device sleeps, and whether its interrupt endpoint is open.  *)
(* The driver of UsbDevice implements this specification.                  *)
(***************************************************************************)
VARIABLES state, asleep, endpoint

vars9 == <<state, asleep, endpoint>>

States9 == {"DEFAULT", "ADDRESSED", "CONFIGURED"}

Init9 == state = "DEFAULT" /\ asleep = FALSE /\ endpoint = FALSE

\* A bus reset, awake or asleep: back to Default with only endpoint 0.
Reset9 == state' = "DEFAULT" /\ asleep' = FALSE /\ endpoint' = FALSE

\* Requests are obeyed by a device that is awake, and configuring it needs an
\* address.
Address9 ==
  /\ ~asleep /\ state # "CONFIGURED"
  /\ state' \in {"DEFAULT", "ADDRESSED"}
  /\ UNCHANGED <<asleep, endpoint>>
Configure9 ==
  /\ ~asleep /\ state = "ADDRESSED"
  /\ state' = "CONFIGURED" /\ endpoint' = TRUE
  /\ UNCHANGED asleep
Unconfigure9 ==
  /\ ~asleep /\ state = "CONFIGURED"
  /\ state' = "ADDRESSED" /\ endpoint' = FALSE
  /\ UNCHANGED asleep

\* Sleeping and waking change nothing else.
Suspend9 == ~asleep /\ asleep' = TRUE /\ UNCHANGED <<state, endpoint>>
Resume9 == asleep /\ asleep' = FALSE /\ UNCHANGED <<state, endpoint>>

Next9 == Reset9 \/ Address9 \/ Configure9 \/ Unconfigure9 \/ Suspend9 \/ Resume9

Spec9 == Init9 /\ [][Next9]_vars9

=============================================================================
