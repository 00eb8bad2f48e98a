------------------------- MODULE FlashDriver_proofs -------------------------
(***************************************************************************)
(* The receptions of the flash driver store within their variables, for    *)
(* every timeout and whatever the flags do.                                *)
(*                                                                         *)
(* A reception takes its length from DLR, which the last transmission that *)
(* found the peripheral ready has written.  So the invariant counts: DLR   *)
(* is 1 only after the one transmission of a byte, and every transmission  *)
(* since then was refused.                                                 *)
(***************************************************************************)
EXTENDS FlashDriver, SequenceTheorems, TLAPS

\* The calls of an initialisation, of a chip whose QE bit is set or not.
Programs == {W25Q64_init(QE) : QE \in BOOLEAN}

\* The place of the one transmission of a byte, and the transmissions that have come
\* since when the call at place k is next.
WriteStatus == 12
Since(k) ==
  IF k <= 13 THEN 0 ELSE IF k = 14 THEN 1 ELSE IF k <= 16 THEN 2 ELSE IF k <= 18 THEN 3 ELSE 4

FlashTypeOK ==
  /\ i \in Nat /\ cnt \in Int /\ DLR \in {0, 1} /\ refusals \in Nat
  /\ at \in {"idle"} \cup TransmitWaits \cup ReceiveWaits
  /\ polled \in BOOLEAN /\ (polled = TRUE => at \in TransmitWaits)

\* The function that waits is the one that was called, and a transmission that waits
\* for more than the peripheral has written DLR.
Waits ==
  /\ at \in TransmitWaits => Head(script).function = "OSPI_transmit"
  /\ at \in ReceiveWaits => Head(script).function = "OSPI_test_receive"
  /\ at \in {"FTF_clear", "TCF_clear"} => DLR = Head(script).size

\* A reception takes DLR + 1 bytes.
Counted ==
  /\ at = "FTF_or_TCF" => i <= DLR /\ cnt = (DLR + 1 - i) % Byte
  /\ at = "TCF" => i <= DLR + 1

\* The calls to come are the rest of an initialisation, and DLR is left over from the
\* transmission of a byte only if all others since were refused.
LeftOver(s, k) ==
  /\ script = SubSeq(s, k, Len(s))
  /\ at # "idle" => k <= Len(s)
  /\ DLR = 1 => Len(s) = 19 /\ k >= WriteStatus /\ refusals >= Since(k)

FlashInv ==
  /\ FlashTypeOK /\ Waits /\ Counted
  /\ \E s \in Programs : \E k \in 1..(Len(s) + 1) : LeftOver(s, k)

-----------------------------------------------------------------------------
(* The calls. *)

Call == [function : {"OSPI_transmit", "OSPI_test_receive"}, size : {0, 1}, room : 0..3]

\* u is s followed by t.
IsJoin(u, s, t) ==
  /\ u \in Seq(Call) /\ Len(u) = Len(s) + Len(t)
  /\ \A j \in 1..Len(s) : u[j] = s[j]
  /\ \A j \in 1..Len(t) : u[Len(s) + j] = t[j]

LEMMA Joined == \A s, t \in Seq(Call) : IsJoin(s \o t, s, t)
BY ConcatProperties DEF IsJoin

\* What the proof needs of the k-th call of n.
CallAt(n, k, c) ==
  /\ c \in Call
  /\ c.size = 1 => n = 19 /\ k = WriteStatus
  /\ c.function = "OSPI_test_receive" => c.room >= 1 /\ c.size = 0
  /\ n = 19 /\ k = WriteStatus => c.function = "OSPI_transmit"
  /\ n = 19 /\ k > WriteStatus /\ c.function = "OSPI_test_receive" =>
       k \in {15, 17, 19} /\ (k # 19 => c.room >= 2)
  /\ n = 19 /\ k > WriteStatus /\ c.function = "OSPI_transmit" => k \in {13, 14, 16, 18}

LEMMA ProgramCalls ==
  ASSUME NEW s \in Programs
  PROVE  /\ s \in Seq(Call) /\ Len(s) \in {14, 19}
         /\ \A k \in 1..Len(s) : CallAt(Len(s), k, s[k])
<1>1. W25Q64_id \in Seq(Call) /\ Len(W25Q64_id) = 2
  BY DEF W25Q64_id, Call, Transmit, Receive
<1>1e. /\ W25Q64_id[1] = Transmit(0) /\ W25Q64_id[2] = Receive(1)
  BY DEF W25Q64_id, Call, Transmit, Receive
<1>2. W25Q64_stat \in Seq(Call) /\ Len(W25Q64_stat) = 6
  BY DEF W25Q64_stat, Call, Transmit, Receive
<1>2e. /\ W25Q64_stat[1] = Transmit(0) /\ W25Q64_stat[2] = Receive(3)
       /\ W25Q64_stat[3] = Transmit(0) /\ W25Q64_stat[4] = Receive(2)
       /\ W25Q64_stat[5] = Transmit(0) /\ W25Q64_stat[6] = Receive(1)
  BY DEF W25Q64_stat, Call, Transmit, Receive
<1>3. W25Q64_quad_enable \in Seq(Call) /\ Len(W25Q64_quad_enable) = 5
  BY DEF W25Q64_quad_enable, W25Q64_SR_write_enable, W25Q64_write_disable, Call, Transmit, Receive
<1>3e. /\ W25Q64_quad_enable[1] = Transmit(0) /\ W25Q64_quad_enable[2] = Receive(1)
       /\ W25Q64_quad_enable[3] = Transmit(0) /\ W25Q64_quad_enable[4] = Transmit(1)
       /\ W25Q64_quad_enable[5] = Transmit(0)
  BY DEF W25Q64_quad_enable, W25Q64_SR_write_enable, W25Q64_write_disable, Call, Transmit, Receive
<1> DEFINE first == W25Q64_id \o W25Q64_stat
           last == first \o W25Q64_quad_enable
<1>4. /\ first \in Seq(Call) /\ Len(first) = 8
      /\ \A n \in 1..2 : first[n] = W25Q64_id[n]
      /\ \A n \in 1..6 : first[2 + n] = W25Q64_stat[n]
  <2>1. IsJoin(first, W25Q64_id, W25Q64_stat)
    BY <1>1, <1>2, Joined, Zenon
  <2>2. /\ first \in Seq(Call) /\ Len(first) = 2 + 6
        /\ \A n \in 1..2 : first[n] = W25Q64_id[n]
        /\ \A n \in 1..6 : first[2 + n] = W25Q64_stat[n]
    BY <1>1, <1>2, <2>1, Zenon DEF IsJoin
  <2>3. 2 + 6 = 8
    OBVIOUS
  <2> QED
    BY <2>2, <2>3, Zenon
<1>5. /\ last \in Seq(Call) /\ Len(last) = 13
      /\ \A n \in 1..8 : last[n] = first[n]
      /\ \A n \in 1..5 : last[8 + n] = W25Q64_quad_enable[n]
  <2> HIDE DEF first
  <2>1. IsJoin(last, first, W25Q64_quad_enable)
    BY <1>3, <1>4, Joined, Zenon
  <2>2. /\ last \in Seq(Call) /\ Len(last) = 8 + 5
        /\ \A n \in 1..8 : last[n] = first[n]
        /\ \A n \in 1..5 : last[8 + n] = W25Q64_quad_enable[n]
    BY <1>3, <1>4, <2>1, Zenon DEF IsJoin
  <2>3. 8 + 5 = 13
    OBVIOUS
  <2> QED
    BY <2>2, <2>3, Zenon
<1>6. ASSUME s = first \o W25Q64_stat
      PROVE  s \in Seq(Call) /\ Len(s) = 14 /\ \A k \in 1..14 : CallAt(14, k, s[k])
  <2> HIDE DEF first
  <2>1. /\ s \in Seq(Call) /\ Len(s) = 14
        /\ \A n \in 1..8 : s[n] = first[n]
        /\ \A n \in 1..6 : s[8 + n] = W25Q64_stat[n]
    <3>1. IsJoin(s, first, W25Q64_stat)
      BY <1>2, <1>4, <1>6, Joined, Zenon
    <3> QED
      BY <1>2, <1>4, <3>1 DEF IsJoin
  <2>2. ASSUME NEW k \in 1..14 PROVE CallAt(14, k, s[k])
    <3>1. s[k] \in {Transmit(0), Receive(1), Receive(2), Receive(3)}
      <4>1. CASE k \in 1..2
        BY <1>1e, <1>4, <2>1, <4>1
      <4>2. CASE k \in 3..8
        <5>1. k - 2 \in 1..6 /\ k = 2 + (k - 2) /\ k \in 1..8
          BY <4>2
        <5> QED
          BY <1>2e, <1>4, <2>1, <5>1
      <4>3. CASE k \in 9..14
        <5>1. k - 8 \in 1..6 /\ k = 8 + (k - 8)
          BY <4>3
        <5> QED
          BY <1>2e, <2>1, <5>1
      <4> QED
        BY <2>2, <4>1, <4>2, <4>3
    <3> QED
      BY <3>1 DEF CallAt, Call, Transmit, Receive
  <2> QED
    BY <2>1, <2>2
<1>7. ASSUME s = last \o W25Q64_stat
      PROVE  s \in Seq(Call) /\ Len(s) = 19 /\ \A k \in 1..19 : CallAt(19, k, s[k])
  <2> HIDE DEF last, first
  <2>1. /\ s \in Seq(Call) /\ Len(s) = 19
        /\ \A n \in 1..13 : s[n] = last[n]
        /\ \A n \in 1..6 : s[13 + n] = W25Q64_stat[n]
    <3>1. IsJoin(s, last, W25Q64_stat)
      BY <1>2, <1>5, <1>7, Joined, Zenon
    <3> QED
      BY <1>2, <1>5, <3>1 DEF IsJoin
  <2>2. ASSUME NEW k \in 1..19 PROVE CallAt(19, k, s[k])
    <3>1. CASE k \in 1..8
      <4>1. s[k] \in {Transmit(0), Receive(1), Receive(2), Receive(3)}
        <5>a. k \in 1..13
          BY <3>1
        <5>0. s[k] = first[k]
          BY <1>5, <2>1, <3>1, <5>a, Zenon
        <5>1. CASE k \in 1..2
          BY <1>1e, <1>4, <5>0, <5>1
        <5>2. CASE k \in 3..8
          <6>1. k - 2 \in 1..6 /\ k = 2 + (k - 2)
            BY <5>2
          <6> QED
            BY <1>2e, <1>4, <5>0, <6>1
        <5> QED
          BY <3>1, <5>1, <5>2
      <4> QED
        BY <3>1, <4>1 DEF CallAt, Call, Transmit, Receive, WriteStatus
    <3>2. CASE k \in 9..13
      <4>1. k \in 1..13 /\ \E n \in 1..5 : k = 8 + n
        <5>1. k - 8 \in 1..5 /\ k = 8 + (k - 8) /\ k \in 1..13
          BY <3>2
        <5> QED
          BY <5>1, Zenon
      <4>2. PICK n \in 1..5 : k = 8 + n
        BY <4>1
      <4>2a. s[k] = W25Q64_quad_enable[n]
        BY <1>5, <2>1, <4>1, <4>2, Zenon
      <4>3. \/ k \in {9, 11, 13} /\ s[k] = Transmit(0)
            \/ k = 10 /\ s[k] = Receive(1)
            \/ k = 12 /\ s[k] = Transmit(1)
        <5>1. k = 9 \/ k = 10 \/ k = 11 \/ k = 12 \/ k = 13
          BY <3>2
        <5> QED
          BY <1>3e, <4>2, <4>2a, <5>1
      <4> QED
        BY <4>3 DEF CallAt, Call, Transmit, Receive, WriteStatus
    <3>3. CASE k \in 14..19
      <4>1. k - 13 \in 1..6 /\ k = 13 + (k - 13)
        BY <3>3
      <4>2. PICK n \in 1..6 : k = 13 + n
        BY <4>1, Zenon
      <4>2a. s[k] = W25Q64_stat[n]
        BY <2>1, <4>2, Zenon
      <4>3. \/ k \in {14, 16, 18} /\ s[k] = Transmit(0)
            \/ k = 15 /\ s[k] = Receive(3)
            \/ k = 17 /\ s[k] = Receive(2)
            \/ k = 19 /\ s[k] = Receive(1)
        <5>1. k = 14 \/ k = 15 \/ k = 16 \/ k = 17 \/ k = 18 \/ k = 19
          BY <3>3
        <5> QED
          BY <1>2e, <4>2, <4>2a, <5>1
      <4> QED
        BY <4>3 DEF CallAt, Call, Transmit, Receive, WriteStatus
    <3> QED
      BY <2>2, <3>1, <3>2, <3>3
  <2> QED
    BY <2>1, <2>2
<1>8. s = first \o W25Q64_stat \/ s = last \o W25Q64_stat
  <2>1. PICK QE \in BOOLEAN : s = W25Q64_init(QE)
    BY DEF Programs
  <2>2. first \o <<>> = first
    BY <1>4
  <2> QED
    BY <2>1, <2>2 DEF W25Q64_init
<1> HIDE DEF first, last
<1> QED
  BY <1>6, <1>7, <1>8

\* A call returns, and the next one is at the head.
LEMMA NextCall ==
  ASSUME NEW s \in Seq(Call), NEW k \in 1..(Len(s) + 1)
  PROVE  /\ SubSeq(s, k, Len(s)) # <<>> => k <= Len(s)
         /\ k <= Len(s) => /\ SubSeq(s, k, Len(s)) # <<>>
                           /\ Head(SubSeq(s, k, Len(s))) = s[k]
                           /\ Tail(SubSeq(s, k, Len(s))) = SubSeq(s, k + 1, Len(s))
<1>1. k \in Int /\ Len(s) \in Nat
  OBVIOUS
<1>2. ASSUME k > Len(s) PROVE SubSeq(s, k, Len(s)) = <<>>
  BY <1>1, <1>2, SubSeqEmpty
<1>3. ASSUME k <= Len(s)
      PROVE  /\ SubSeq(s, k, Len(s)) # <<>>
             /\ Head(SubSeq(s, k, Len(s))) = s[k]
             /\ Tail(SubSeq(s, k, Len(s))) = SubSeq(s, k + 1, Len(s))
  <2>1. k \in 1..Len(s) /\ Len(s) \in k..Len(s)
    BY <1>1, <1>3
  <2>2. /\ Head(SubSeq(s, k, Len(s))) = s[k]
        /\ Tail(SubSeq(s, k, Len(s))) = SubSeq(s, k + 1, Len(s))
    BY <2>1, HeadTailOfSubSeq
  <2>3. \A n \in k..Len(s) : s[n] \in Call
    BY <2>1
  <2>4. Len(SubSeq(s, k, Len(s))) = Len(s) - k + 1
    BY <1>1, <1>3, <2>3, SubSeqProperties
  <2>5. SubSeq(s, k, Len(s)) # <<>>
    <3>1. Len(<<>>) = 0
      OBVIOUS
    <3>2. Len(SubSeq(s, k, Len(s))) # 0
      BY <1>1, <1>3, <2>4
    <3> QED
      BY <3>1, <3>2, Zenon
  <2> QED
    BY <2>2, <2>5, Zenon
<1> QED
  BY <1>1, <1>2, <1>3

-----------------------------------------------------------------------------
(* The steps. *)

LEMMA CountDown ==
  /\ 1 % Byte \in Nat /\ 2 % Byte \in Nat
  /\ ((1 % Byte) + Byte - 1) % Byte = 0
  /\ ((2 % Byte) + Byte - 1) % Byte = 1 % Byte
BY FlashAssumption

LEMMA FlashInit == Init => FlashInv
<1> SUFFICES ASSUME Init PROVE FlashInv
  OBVIOUS
<1>1. script \in Programs
  BY Zenon DEF Init, Programs
<1>2. script \in Seq(Call) /\ Len(script) \in Nat \ {0}
  BY <1>1, ProgramCalls
<1>3. SubSeq(script, 1, Len(script)) = script
  BY <1>2
<1>0. at = "idle" /\ polled = FALSE /\ i = 0 /\ cnt = 0 /\ DLR = 0 /\ refusals = 0
  BY Zenon DEF Init
<1>4. LeftOver(script, 1) /\ 1 \in 1..(Len(script) + 1)
  BY <1>0, <1>2, <1>3 DEF LeftOver, Since
<1>5. FlashTypeOK
  <2>1. i \in Nat /\ cnt \in Int /\ DLR \in {0, 1} /\ refusals \in Nat
    BY <1>0
  <2>2. /\ at \in {"idle"} \cup TransmitWaits \cup ReceiveWaits
        /\ polled \in BOOLEAN /\ (polled = TRUE => at \in TransmitWaits)
    BY <1>0 DEF TransmitWaits, ReceiveWaits
  <2> QED
    BY <2>1, <2>2 DEF FlashTypeOK
<1>6. Waits /\ Counted
  BY <1>0 DEF Waits, Counted, TransmitWaits, ReceiveWaits
<1> QED
  BY <1>1, <1>4, <1>5, <1>6 DEF FlashInv

LEMMA FlashStep == FlashInv /\ [Next]_vars => FlashInv'
<1> SUFFICES ASSUME FlashInv, [Next]_vars PROVE FlashInv'
  OBVIOUS
<1>0. PICK s \in Programs : \E k \in 1..(Len(s) + 1) : LeftOver(s, k)
  BY DEF FlashInv
<1>k. PICK k \in 1..(Len(s) + 1) : LeftOver(s, k)
  BY <1>0
<1>a. FlashTypeOK /\ Waits /\ Counted
  BY DEF FlashInv
<1>g. s \in Seq(Call) /\ Len(s) \in {14, 19}
  BY ProgramCalls
<1> DEFINE Holds(n) == FlashTypeOK' /\ Waits' /\ Counted' /\ LeftOver(s, n)'
<1>b. Holds(k) => FlashInv'
  BY DEF FlashInv
<1>c. k + 1 \in 1..(Len(s) + 1) /\ Holds(k + 1) => FlashInv'
  BY DEF FlashInv
<1> DEFINE c == s[k]
<1>d. ASSUME k <= Len(s)
      PROVE  /\ CallAt(Len(s), k, c) /\ Head(script) = c /\ script # <<>>
             /\ Tail(script) = SubSeq(s, k + 1, Len(s)) /\ k + 1 \in 1..(Len(s) + 1)
  <2>1. k \in 1..Len(s)
    BY <1>g, <1>d
  <2>2. script = SubSeq(s, k, Len(s))
    BY <1>k DEF LeftOver
  <2>3. CallAt(Len(s), k, c)
    BY <2>1, ProgramCalls
  <2> HIDE DEF c
  <2>4. Head(script) = c /\ script # <<>> /\ Tail(script) = SubSeq(s, k + 1, Len(s))
    BY <1>g, <2>1, <2>2, NextCall DEF c
  <2> QED
    BY <1>g, <2>1, <2>3, <2>4
<1>e. at # "idle" => k <= Len(s)
  BY <1>k DEF LeftOver
<1>f. script # <<>> => k <= Len(s)
  BY <1>k, <1>g, NextCall DEF LeftOver
<1> HIDE DEF Holds, c
<1> USE DEF FlashTypeOK, TransmitWaits, ReceiveWaits, WriteStatus
<1>1. CASE SysTick \/ NotReady \/ StillTime \/ UNCHANGED vars
  <2>1. UNCHANGED <<script, at, i, cnt, DLR, refusals>>
    BY <1>1 DEF SysTick, NotReady, StillTime, vars
  <2>2. FlashTypeOK'
    BY <1>1, <1>a, <2>1 DEF SysTick, NotReady, StillTime, vars
  <2>3. Waits' /\ Counted'
    BY <1>a, <2>1 DEF Waits, Counted
  <2>4. LeftOver(s, k)'
    BY <1>k, <2>1 DEF LeftOver
  <2> QED
    BY <1>b, <2>2, <2>3, <2>4 DEF Holds
<1>2. CASE OSPI_transmit
  <2>1. FlashTypeOK' /\ Waits' /\ Counted'
    BY <1>2, <1>a DEF OSPI_transmit, Calls, Waits, Counted
  <2>2. LeftOver(s, k)'
    BY <1>2, <1>k, <1>f DEF OSPI_transmit, Calls, LeftOver
  <2> QED
    BY <1>b, <2>1, <2>2 DEF Holds
<1>3. CASE OSPI_test_receive
  <2>1. FlashTypeOK' /\ Waits' /\ Counted'
    BY <1>3, <1>a, CountDown DEF OSPI_test_receive, Calls, Waits, Counted
  <2>2. LeftOver(s, k)'
    BY <1>3, <1>k, <1>f DEF OSPI_test_receive, Calls, LeftOver
  <2> QED
    BY <1>b, <2>1, <2>2 DEF Holds
<1>4. CASE Program
  <2>1. CallAt(Len(s), k, c) /\ Head(script) = c
    BY <1>4, <1>d, <1>e DEF Program
  <2>2. LeftOver(s, k)'
    BY <1>4, <1>a, <1>e, <1>k, <2>1 DEF Program, LeftOver, CallAt, Call, Since
  <2>3. FlashTypeOK' /\ Waits' /\ Counted'
    BY <1>4, <1>a, <2>1 DEF Program, Waits, Counted, CallAt, Call
  <2> QED
    BY <1>b, <2>2, <2>3 DEF Holds
<1>5. CASE WriteByte
  <2>1. FlashTypeOK' /\ Waits' /\ Counted'
    BY <1>5, <1>a DEF WriteByte, Waits, Counted
  <2>2. LeftOver(s, k)'
    BY <1>5, <1>k, <1>e DEF WriteByte, LeftOver
  <2> QED
    BY <1>b, <2>1, <2>2 DEF Holds
<1>6. CASE ReadByte
  <2>1. LeftOver(s, k)'
    BY <1>6, <1>e, <1>k DEF ReadByte, LeftOver
  <2>2. /\ at = "FTF_or_TCF" /\ at' \in {"FTF_or_TCF", "TCF"} /\ i' = i + 1 /\ i <= DLR
        /\ cnt = (DLR + 1 - i) % Byte /\ cnt' = (cnt + Byte - 1) % Byte
        /\ cnt' = 0 => at' = "TCF"
        /\ UNCHANGED <<script, polled, DLR, refusals>>
    BY <1>6, <1>a DEF ReadByte, Counted
  <2>3. cnt' = (DLR + 1 - i') % Byte /\ (i = DLR => cnt' = 0) /\ cnt' \in Int
    <3>1. (DLR = 1 /\ i = 0) \/ i = DLR
      BY <1>a, <2>2
    <3>2. CASE i = DLR
      <4>1. DLR + 1 - i = 1 /\ DLR + 1 - i' = 0
        BY <1>a, <2>2, <3>2
      <4>2. cnt = 1 % Byte /\ cnt' = ((1 % Byte) + Byte - 1) % Byte
        BY <2>2, <4>1, Zenon
      <4>3. 0 % Byte = 0
        BY FlashAssumption
      <4> QED
        BY <4>1, <4>2, <4>3, CountDown
    <3>3. CASE DLR = 1 /\ i = 0
      <4>1. DLR + 1 - i = 2 /\ DLR + 1 - i' = 1
        BY <2>2, <3>3
      <4> QED
        BY <2>2, <3>3, <4>1, CountDown
    <3> QED
      BY <3>1, <3>2, <3>3
  <2>4. FlashTypeOK' /\ Waits' /\ Counted'
    <3> HIDE FlashAssumption
    <3>1. FlashTypeOK'
      BY <1>a, <2>2, <2>3
    <3>2. Waits'
      BY <1>a, <2>2 DEF Waits
    <3>3. Counted'
      BY <1>a, <2>2, <2>3 DEF Counted
    <3> QED
      BY <3>1, <3>2, <3>3
  <2> QED
    BY <1>b, <2>1, <2>4 DEF Holds
<1>7. ASSUME Received \/ Transmitted \/ GiveUp PROVE FlashInv'
  <2>1. at # "idle" /\ at' = "idle" /\ script' = Tail(script) /\ polled' = FALSE
    BY <1>7, <1>a DEF Received, Transmitted, GiveUp, Returns
  <2>2. /\ CallAt(Len(s), k, c) /\ Head(script) = c
        /\ Tail(script) = SubSeq(s, k + 1, Len(s)) /\ k + 1 \in 1..(Len(s) + 1)
    BY <1>d, <1>e, <2>1
  <2>3. /\ UNCHANGED <<i, cnt, DLR>>
        /\ refusals' = IF at = "BUSY" THEN refusals + 1 ELSE refusals
    BY <1>7 DEF Received, Transmitted, GiveUp
  <2>4. FlashTypeOK' /\ Waits' /\ Counted'
    <3>1. FlashTypeOK'
      <4>1. refusals \in Nat => refusals' \in Nat
        BY <2>3
      <4> QED
        BY <1>a, <2>1, <2>3, <4>1, Zenon
    <3>2. Waits' /\ Counted'
      BY <2>1 DEF Waits, Counted
    <3> QED
      BY <3>1, <3>2
  <2>5. DLR = 1 => Len(s) = 19 /\ k + 1 >= WriteStatus /\ refusals' >= Since(k + 1)
    <3> SUFFICES ASSUME DLR = 1
                 PROVE  Len(s) = 19 /\ k + 1 >= WriteStatus /\ refusals' >= Since(k + 1)
      OBVIOUS
    <3>1. Len(s) = 19 /\ k >= 12 /\ refusals >= Since(k) /\ k <= 19
      BY <1>e, <1>k, <2>1 DEF LeftOver
    <3>2. CASE at = "BUSY"
      BY <1>a, <2>2, <2>3, <3>1, <3>2 DEF Waits, CallAt, Since
    <3>3. CASE at \in {"FTF_clear", "TCF_clear"}
      <4>1. k = 12
        BY <1>a, <2>2, <3>3 DEF Waits, CallAt
      <4> QED
        BY <1>a, <2>3, <3>1, <4>1 DEF Since
    <3>4. CASE at \in ReceiveWaits
      BY <1>a, <2>2, <2>3, <3>1, <3>4 DEF Waits, CallAt, Since
    <3> QED
      BY <1>a, <2>1, <3>2, <3>3, <3>4
  <2>6. LeftOver(s, k + 1)'
    BY <2>1, <2>2, <2>3, <2>5 DEF LeftOver
  <2> QED
    BY <1>c, <2>2, <2>4, <2>6 DEF Holds
<1> QED
  BY <1>1, <1>2, <1>3, <1>4, <1>5, <1>6, <1>7 DEF Next, Code

\* Which transmission has set the length of a reception, along the initialisation, for
\* every timeout and every width of the counter.
THEOREM FlashCorrect == Spec => []FlashInv
BY FlashInit, FlashStep, PTL DEF Spec

\* A reception stores within its variable, unless four transmissions in a row have
\* found the peripheral busy.
THEOREM ReadsFit == Spec => []ReadFits
<1>1. FlashInv => ReadFits
  <2> SUFFICES ASSUME FlashInv, at \in ReceiveWaits, i > Head(script).room PROVE refusals >= 4
    BY DEF ReadFits
  <2>1. PICK s \in Programs : \E k \in 1..(Len(s) + 1) : LeftOver(s, k)
    BY DEF FlashInv
  <2>k. PICK k \in 1..(Len(s) + 1) : LeftOver(s, k)
    BY <2>1
  <2>a. s \in Seq(Call) /\ Len(s) \in {14, 19}
    BY ProgramCalls
  <2>2. FlashTypeOK /\ Waits /\ Counted
    BY DEF FlashInv
  <2>3. k \in 1..Len(s) /\ script = SubSeq(s, k, Len(s))
    BY <2>k, <2>a DEF LeftOver, ReceiveWaits
  <2>4. CallAt(Len(s), k, Head(script))
    BY <2>a, <2>3, ProgramCalls, NextCall
  <2>5. Head(script).function = "OSPI_test_receive" /\ i <= DLR + 1
    BY <2>2 DEF Waits, Counted, FlashTypeOK, ReceiveWaits
  <2>6. DLR = 1 /\ Head(script).room = 1
    BY <2>2, <2>4, <2>5 DEF CallAt, Call, FlashTypeOK
  <2>7. Len(s) = 19 /\ k >= WriteStatus /\ refusals >= Since(k)
    BY <2>k, <2>6 DEF LeftOver
  <2>8. k = 19
    BY <2>4, <2>5, <2>6, <2>7 DEF CallAt, WriteStatus
  <2> QED
    BY <2>7, <2>8 DEF Since
<1> QED
  BY <1>1, FlashCorrect, PTL

=============================================================================
