--------------------------- MODULE ClockTree_proofs ---------------------------
(***************************************************************************)
(* For every set of configurations and every crystal: the variables have   *)
(* their types, the frequency variables follow the tree, sys_clock_init    *)
(* does not return from a configuration that it cannot be done with, and   *)
(* the flash keeps up if the configurations leave it the margin.  The      *)
(* frequencies the drivers compute with follow the kernel clocks.          *)
(*                                                                         *)
(* The invariants say, for the steps of sys_clock_init from one on, what   *)
(* has been written for good: the tree and the variables are what the      *)
(* configuration makes of them, part by part.                              *)
(***************************************************************************)
EXTENDS KernelClocks, TLAPS

\* A rate that is divided is a rate, and no faster.
LEMMA Division ==
  ASSUME NEW x \in Nat, NEW d \in Nat \ {0}
  PROVE  x \div d \in Nat /\ x \div d <= x
OBVIOUS

\* The dividers behind the codes, and the shifts that sys_clock_init decodes them with.
LEMMA Dividers ==
  /\ \A x \in 0..15 : AHB_CLK_PRE[x] \in Nat \ {0}
  /\ \A x \in 0..7 : APB_CLK_PRE[x] \in Nat \ {0}
  /\ \A x \in 0..3 : HSI_DIV[x] \in Nat \ {0} /\ Pow2[x] = HSI_DIV[x]
BY DEF AHB_CLK_PRE, APB_CLK_PRE, HSI_DIV, Pow2

LEMMA ShiftAHBDivides ==
  ASSUME NEW f \in Nat, NEW x \in 0..15
  PROVE  ShiftAHB(f, x) = f \div AHB_CLK_PRE[x]
BY DEF ShiftAHB, AHB_CLK_PRE, Pow2

LEMMA ShiftAPBDivides ==
  ASSUME NEW f \in Nat, NEW x \in 0..7
  PROVE  ShiftAPB(f, x) = f \div APB_CLK_PRE[x]
BY DEF ShiftAPB, APB_CLK_PRE, Pow2

\* What is shifted is a rate.
LEMMA ShiftAHBType == \A f \in Nat, x \in 0..15 : ShiftAHB(f, x) \in Nat
BY ShiftAHBDivides, Dividers, Division

\* The same of the APB prescalers.
LEMMA ShiftAPBType == \A f \in Nat, x \in 0..7 : ShiftAPB(f, x) \in Nat
BY ShiftAPBDivides, Dividers, Division

\* With an AXI clock of half the system clock the tick is a millisecond.
LEMMA TickPeriod ==
  ASSUME NEW sys \in Nat, NEW axi \in Nat, sys = 2 * axi
  PROVE  (Ticks(sys) \div 2000) + 1 + 1 - (Ticks(axi) \div 1000) \in 1..2
BY DEF Ticks

-----------------------------------------------------------------------------
(* The invariant *)

\* The steps from one on, up to the next call.
Divided == Steps \ {"reset", "voltage", "oscillators"}
BeforeHsiLeft == Divided \ {"LSI", "LSE", "idle"}
BackOnHsi == {"disable_PLL3", "disable_PLL2", "disable_PLL1", "PLL3_disabled", "PLL2_disabled",
              "PLL1_disabled", "configure", "lock", "prescaled", "latency", "switch"}
Configured == {"lock", "prescaled", "latency", "switch", "switched", "LSI", "LSE", "idle"}
Prescaled == Configured \ {"lock"}
Latent == {"switch", "switched", "LSI", "LSE", "idle"}
Switched == {"switched", "LSI", "LSE", "idle"}

\* The voltage is the configured one, if that can be.
VoltageSet ==
  /\ pc = "reset" => VOS = CORE_VOS_3 /\ LATENCY = 3 /\ SWS = "HSI"
  /\ pc # "reset" => VOS = CORE_VOS_3 \cup config.CORE_VOS_level
  /\ pc \notin {"reset", "voltage"} => VOS = config.CORE_VOS_level

\* The divider of the HSI does not change while a PLL runs from it.
HsiDivided ==
  /\ HsiHeld => HSIDIV = config.HSI_div
  /\ pc \in Divided => HSIDIV = config.HSI_div

\* Only what is enabled is ever switched on, and the enabled PLLs stay on.
OnlyEnabled ==
  /\ \A o \in {"HSE", "CSI", "HSI48"} : o \in on \cup running => o \in config.enable
  /\ "LSE" \notin on \cup running
  /\ \A p \in 1..3 : Name[p] \in on \cup running => Enabled(p)
  /\ pc \in Configured \ {"idle"} => \A p \in 1..3 : Enabled(p) => Name[p] \in on

\* A PLL that is on runs from the configured source.
Sourced ==
  /\ on \cap PLLs # {} => PLL.src = config.PLL_src
  /\ \A p \in 1..3 : Name[p] \in running => config.PLL_src \in config.enable \cup {"HSI"}

\* What the registers hold from the step on that writes them.
RegistersSet ==
  /\ pc \in Configured => PLL = [src |-> config.PLL_src, pll |-> config.PLL]
  /\ pc \in Prescaled => PRE = [SYS |-> config.SYS_CLK_prescaler, AHB |-> config.AHB_prescaler,
                                APB |-> config.APB_prescaler]
  /\ pc \in Latent => LATENCY = config.FLASH_latency

\* As long as the system runs from PLL1, all of them hold what they were written.
SystemClock ==
  /\ SWS \in {"HSI", config.SYS_CLK_src}
  /\ pc \in BackOnHsi => SWS # "PLL1_P"
  /\ SWS = "PLL1_P" =>
       /\ "PLL1" \in on
       /\ PLL = [src |-> config.PLL_src, pll |-> config.PLL]
       /\ PRE = [SYS |-> config.SYS_CLK_prescaler, AHB |-> config.AHB_prescaler,
                 APB |-> config.APB_prescaler]
       /\ LATENCY = config.FLASH_latency

TreeInv == VoltageSet /\ HsiDivided /\ OnlyEnabled /\ Sourced /\ RegistersSet /\ SystemClock

\* What it takes to have come as far as a step: the conditions of Completes, one by one.
Reached ==
  /\ pc \in Prescaled => \A p \in 1..3 : Enabled(p) => config.PLL_src \in config.enable \cup {"HSI"}
  /\ pc \in Switched =>
       /\ config.SYS_CLK_src = "PLL1_P" => Enabled(1) /\ "P" \in config.PLL[1].outputs
       /\ config.SYS_CLK_src \in config.enable \cup {"HSI", "PLL1_P"}
  /\ pc = "idle" => "LSE" \notin config.enable

\* What the variables hold, as a function of the configuration.
ConfiguredInput(c) ==
  CASE c.PLL_src = "HSI" -> HsiRate \div HSI_DIV[c.HSI_div]
    [] c.PLL_src = "CSI" -> Constant.CSI
    [] OTHER -> c.HSE_freq
ConfiguredPll(c, o) ==
  LET p == PllOf[o]
  IN ((ConfiguredInput(c) \div c.PLL[1].M) * (c.PLL[p].N + 1)) \div (c.PLL[p][Divider[o]] + 1)
ConfiguredSource(c) ==
  CASE c.SYS_CLK_src = "HSI" -> HsiRate \div HSI_DIV[c.HSI_div]
    [] c.SYS_CLK_src = "CSI" -> Constant.CSI
    [] c.SYS_CLK_src = "HSE" -> c.HSE_freq
    [] OTHER -> ConfiguredPll(c, "PLL1_P")
ConfiguredSys(c) == ConfiguredSource(c) \div AHB_CLK_PRE[c.SYS_CLK_prescaler]
ConfiguredAhb(c) == ConfiguredSys(c) \div AHB_CLK_PRE[c.AHB_prescaler]
ConfiguredApb(c, n) == ConfiguredAhb(c) \div APB_CLK_PRE[c.APB_prescaler[n]]

DomainFrequencies == {"HSE", "SYS", "AHB", "APB1", "APB2", "APB3", "APB4"}
SourceWritten == config.SYS_CLK_src = "PLL1_P" => "P" \in config.PLL[1].outputs
VariablesSet ==
  /\ pc \in Divided => freq.HSE = config.HSE_freq
  /\ pc \in BeforeHsiLeft => freq.HSI = HsiRate \div HSI_DIV[config.HSI_div]
  /\ pc \in Configured => \A o \in Outputs :
       Divider[o] \in config.PLL[PllOf[o]].outputs => freq[o] = ConfiguredPll(config, o)
  /\ pc = "lock" /\ SourceWritten => freq.SYS = ConfiguredSource(config)
  /\ pc \in Prescaled /\ SourceWritten =>
       /\ freq.SYS = ConfiguredSys(config) /\ freq.AHB = ConfiguredAhb(config)
       /\ freq.APB1 = ConfiguredApb(config, 1) /\ freq.APB2 = ConfiguredApb(config, 2)
       /\ freq.APB3 = ConfiguredApb(config, 3) /\ freq.APB4 = ConfiguredApb(config, 4)
  /\ pc = "idle" => LOAD = (Ticks(freq.SYS) \div 2000) + 1

NeverDone == ~Completes(config) => pc # "idle"

\* The margin: the highest core voltage, once the level is ORed into that of reset;
\* a crystal that may run the system at latency zero, as it does while the latency is
\* rewritten; and from the PLL, an AXI clock that the configured latency allows for.
FlashMargins ==
  /\ HseRate <= MaxAxi(CORE_VOS_1, 0)
  /\ \A c \in Configurations :
       /\ CORE_VOS_3 \cup c.CORE_VOS_level = CORE_VOS_1
       /\ c.SYS_CLK_src = "PLL1_P" => /\ c.HSE_freq = HseRate
                                      /\ ConfiguredAhb(c) <= MaxAxi(CORE_VOS_1, c.FLASH_latency)

-----------------------------------------------------------------------------
(* Types *)

\* A rate that is multiplied is a rate.
LEMMA Product == ASSUME NEW a \in Nat, NEW b \in Nat PROVE a * b \in Nat
OBVIOUS

\* Levels that are ORed are a level.
LEMMA Voltages ==
  ASSUME NEW a \in {CORE_VOS_1, CORE_VOS_2, CORE_VOS_3}, NEW b \in {CORE_VOS_1, CORE_VOS_2, CORE_VOS_3}
  PROVE  a \cup b \in {CORE_VOS_1, CORE_VOS_2, CORE_VOS_3}
<1> USE DEF CORE_VOS_1, CORE_VOS_2, CORE_VOS_3
<1>1. CASE a = b
  BY <1>1
<1>2. CASE a = {0, 1} \/ b = {0, 1}
  BY <1>2
<1>3. CASE (a = {0} /\ b = {1}) \/ (a = {1} /\ b = {0})
  BY <1>3
<1> QED
  BY <1>1, <1>2, <1>3

\* The fixed rates are rates.
LEMMA RatesType == /\ HsiRate \in Nat /\ Constant.LSI \in Nat
                   /\ Constant.LSE \in Nat /\ Constant.CSI \in Nat
BY SMT DEF HsiRate, Constant

\* What is known of a configuration.
LEMMA ConfigurationType ==
  ASSUME NEW c \in Configurations
  PROVE  /\ c \in ConfigType
         /\ \A p \in 1..3 : c.PLL[p] \in PllConfigs /\ c.PLL[p].M \in Nat \ {0}
         /\ c.HSE_freq \in Nat /\ c.HSI_div \in 0..3 /\ c.FLASH_latency \in 0..4
         /\ c.PLL_src \in PllSources /\ c.SYS_CLK_src \in SystemSources
         /\ c.SYS_CLK_prescaler \in 0..15 /\ c.AHB_prescaler \in 0..15
         /\ c.APB_prescaler \in [1..4 -> 0..7] /\ c.RTC_HSE_prescaler \in 0..63
         /\ c.CORE_VOS_level \in {CORE_VOS_1, CORE_VOS_2, CORE_VOS_3}
         /\ c.enable \subseteq Oscillators
<1>1. c \in ConfigType
  BY SMT, ClockAssumption
<1>2. \A p \in 1..3 : c.PLL[p].M > 0
  BY SMT, ClockAssumption
<1>3. c.PLL \in [1..3 -> PllConfigs]
  BY SMT, <1>1 DEF ConfigType
<1>4. \A p \in 1..3 : c.PLL[p].M \in Nat \ {0}
  <2>1. \A p \in 1..3 : c.PLL[p] \in PllConfigs
    BY Zenon, <1>3
  <2>2. \A q \in PllConfigs : q.M \in 0..63
    BY SMT DEF PllConfigs
  <2>3. \A p \in 1..3 : c.PLL[p].M \in 0..63
    BY Zenon, <2>1, <2>2
  <2> QED
    BY SMT, <1>2, <2>3
<1>5. c.HSE_freq \in Nat /\ c.HSI_div \in 0..3 /\ c.FLASH_latency \in 0..4
  <2>1. c.HSE_freq \in 0..MaxHse /\ c.HSI_div \in 0..3 /\ c.FLASH_latency \in 0..4
    BY SMT, <1>1 DEF ConfigType
  <2>2. MaxHse \in Nat
    BY SMT DEF MaxHse
  <2> QED
    BY SMT, <2>1, <2>2
<1>6. c.PLL_src \in PllSources /\ c.SYS_CLK_src \in SystemSources /\ c.enable \subseteq Oscillators
  BY SMT, <1>1 DEF ConfigType
<1>7. /\ c.SYS_CLK_prescaler \in 0..15 /\ c.AHB_prescaler \in 0..15
      /\ c.APB_prescaler \in [1..4 -> 0..7] /\ c.RTC_HSE_prescaler \in 0..63
  BY SMT, <1>1 DEF ConfigType
<1>8. c.CORE_VOS_level \in {CORE_VOS_1, CORE_VOS_2, CORE_VOS_3}
  BY SMT, <1>1 DEF ConfigType
<1> QED
  BY SMT, <1>1, <1>3, <1>4, <1>5, <1>6, <1>7, <1>8

\* The multiplier and the dividers of a PLL, plus one.
LEMMA PllConfigType ==
  ASSUME NEW p \in PllConfigs, NEW d \in {"P", "Q", "R"}
  PROVE  p.N + 1 \in Nat /\ p[d] + 1 \in Nat \ {0}
<1>1. p.N \in 0..511 /\ p.P \in 0..127 /\ p.Q \in 0..127 /\ p.R \in 0..127
  BY SMT DEF PllConfigs
<1>2. p["P"] = p.P /\ p["Q"] = p.Q /\ p["R"] = p.R
  OBVIOUS
<1>3. p[d] \in 0..127
  <2>1. CASE d = "P"
    BY Zenon, <1>1, <1>2, <2>1
  <2>2. CASE d = "Q"
    BY Zenon, <1>1, <1>2, <2>2
  <2>3. CASE d = "R"
    BY Zenon, <1>1, <1>2, <2>3
  <2> QED
    BY <2>1, <2>2, <2>3
<1>4. p[d] + 1 \in Nat \ {0}
  BY SMT, <1>3
<1>5. p.N + 1 \in Nat
  BY SMT, <1>1
<1> QED
  BY Zenon, <1>4, <1>5

\* What the code computes of a PLL is a rate.
LEMMA PllFrequencyType ==
  ASSUME TypeOK, NEW o \in Outputs
  PROVE  PllFrequency(o) \in Nat
<1>1. Input \in Nat
  <2>1. freq.HSI \in Nat /\ freq.HSE \in Nat
    BY SMT DEF TypeOK, Frequencies
  <2> QED
    BY Zenon, <2>1, RatesType DEF Input
<1>2. PllOf[o] \in 1..3 /\ Divider[o] \in {"P", "Q", "R"}
  BY SMT DEF PllOf, Divider, Outputs
<1>3. config.PLL[PllOf[o]] \in PllConfigs /\ DividerM(PllOf[o]) \in Nat \ {0}
  BY SMT, <1>2, ConfigurationType DEF DividerM, TypeOK
<1>4. config.PLL[PllOf[o]].N + 1 \in Nat /\ config.PLL[PllOf[o]][Divider[o]] + 1 \in Nat \ {0}
  BY Zenon, <1>2, <1>3, PllConfigType
<1> QED
  BY SMT, <1>1, <1>3, <1>4, Division, Product DEF PllFrequency

\* The types, out of reset.
LEMMA TypeInit == Init => TypeOK
<1> SUFFICES ASSUME Init PROVE TypeOK
  OBVIOUS
<1>1. ResetPll \in PllConfigs
  BY SMT DEF ResetPll, PllConfigs
<1>2. PLL \in [src : PllSources, pll : [1..3 -> PllConfigs]]
  BY SMT, <1>1 DEF Init, PllSources
<1>3. PRE \in [SYS : 0..15, AHB : 0..15, APB : [1..4 -> 0..7]]
  BY SMT DEF Init
<1>4. freq \in [Frequencies -> Nat]
  BY SMT, RatesType DEF Init
<1>5. config \in Configurations /\ pc \in Steps /\ SWS \in SystemSources /\ HSIDIV \in 0..3
  BY SMT DEF Init, Steps, SystemSources
<1>6. on \subseteq Oscillators \cup PLLs /\ running \subseteq Oscillators \cup PLLs
  BY SMT DEF Init, Oscillators
<1>7. VOS \in {CORE_VOS_1, CORE_VOS_2, CORE_VOS_3} /\ LATENCY \in 0..4 /\ LOAD \in Nat
  BY SMT DEF Init
<1> QED
  BY <1>2, <1>3, <1>4, <1>5, <1>6, <1>7 DEF TypeOK

\* No step leaves the types.
LEMMA TypeStep ==
  ASSUME TypeOK, [Next]_vars
  PROVE  TypeOK'
<1> USE DEF TypeOK, Steps, Go, registers
<1>1. CASE UNCHANGED vars
  BY <1>1 DEF vars
<1>2. CASE sys_clock_init
  BY SMT, <1>2, ConfigurationType, Voltages DEF sys_clock_init, OrVoltage
<1>3. CASE StartOscillators
  BY SMT, <1>3, ConfigurationType DEF StartOscillators, Oscillators, PLLs
<1>4. CASE DivideHsi
  <2>1. HsiRate \div Pow2[config.HSI_div] \in Nat
    <3>1. Pow2[config.HSI_div] \in Nat \ {0}
      BY SMT, ConfigurationType, Dividers
    <3> QED
      BY SMT, <3>1, Division, RatesType
  <2> QED
    BY SMT, <1>4, <2>1, ConfigurationType DEF DivideHsi, Assign, Frequencies
<1>5. CASE BackToHSI
  BY SMT, <1>5 DEF BackToHSI, SystemSources
<1>6. CASE DisablePLLs
  BY SMT, <1>6 DEF DisablePLLs, DisablePll
<1>7. CASE ConfigurePLLs
  <2>1. freq' \in [Frequencies -> Nat]
    <3> DEFINE f == [s \in Frequencies |->
                       IF s \in Outputs /\ Divider[s] \in config.PLL[PllOf[s]].outputs
                       THEN PllFrequency(s) ELSE freq[s]]
    <3>1. f \in [Frequencies -> Nat]
      BY SMT, PllFrequencyType
    <3> HIDE DEF f
    <3>2. Undivided(f) \in Nat
      BY SMT, <3>1, ConfigurationType, RatesType DEF Undivided, SystemSources, Frequencies, Outputs, PllOf
    <3>3. freq' = [f EXCEPT !["SYS"] = Undivided(f)]
      BY Zenon, <1>7 DEF ConfigurePLLs, UpdatePllFrequencies, f
    <3>4. "SYS" \in Frequencies
      BY DEF Frequencies
    <3> QED
      BY Zenon, <3>1, <3>2, <3>3, <3>4
  <2>2. PLL' \in [src : PllSources, pll : [1..3 -> PllConfigs]]
    BY SMT, <1>7, ConfigurationType DEF ConfigurePLLs, ConfigType
  <2>3. on' \subseteq Oscillators \cup PLLs
    BY SMT, <1>7 DEF ConfigurePLLs, Name, PLLs
  <2> QED
    BY SMT, <1>7, <2>1, <2>2, <2>3 DEF ConfigurePLLs
<1>8. CASE ConfigureDomains
  <2>1. freq' \in [Frequencies -> Nat]
    <3> DEFINE sys == ShiftAHB(freq.SYS, config.SYS_CLK_prescaler)
               ahb == ShiftAHB(sys, config.AHB_prescaler)
               apb(n) == ShiftAPB(ahb, config.APB_prescaler[n])
    <3>1. freq.SYS \in Nat
      BY SMT DEF Frequencies
    <3>a. /\ config.SYS_CLK_prescaler \in 0..15 /\ config.AHB_prescaler \in 0..15
          /\ \A n \in 1..4 : config.APB_prescaler[n] \in 0..7
      BY SMT, ConfigurationType
    <3>2. sys \in Nat
      BY Zenon, <3>1, <3>a, ShiftAHBType
    <3> HIDE DEF sys
    <3>3. ahb \in Nat
      BY Zenon, <3>2, <3>a, ShiftAHBType
    <3> HIDE DEF ahb
    <3>4. \A n \in 1..4 : apb(n) \in Nat
      BY Zenon, <3>3, <3>a, ShiftAPBType
    <3> HIDE DEF apb
    <3>5. freq' = Assign([SYS |-> sys, AHB |-> ahb, APB1 |-> apb(1), APB2 |-> apb(2),
                          APB3 |-> apb(3), APB4 |-> apb(4)])
      BY Zenon, <1>8 DEF ConfigureDomains, UpdateDomainFrequencies, sys, ahb, apb
    <3> QED
      BY SMT, <3>2, <3>3, <3>4, <3>5 DEF Assign
  <2>2. PRE' \in [SYS : 0..15, AHB : 0..15, APB : [1..4 -> 0..7]]
    BY SMT, <1>8, ConfigurationType DEF ConfigureDomains
  <2> QED
    BY SMT, <1>8, <2>1, <2>2 DEF ConfigureDomains
<1>9. CASE ClearLatency \/ SetLatency
  BY SMT, <1>9, ConfigurationType DEF ClearLatency, SetLatency
<1>10. CASE SwitchClock
  BY SMT, <1>10, ConfigurationType DEF SwitchClock
<1>11. CASE ConfigureHsiLsi
  <2>1. HsiLeft \in Nat
    BY SMT DEF HsiLeft, Frequencies
  <2>2. freq' \in [Frequencies -> Nat]
    BY SMT, <1>11, <2>1 DEF ConfigureHsiLsi, Assign
  <2>3. on' \subseteq Oscillators \cup PLLs
    BY Zenon, <1>11 DEF ConfigureHsiLsi, Oscillators
  <2> QED
    BY SMT, <1>11, <2>2, <2>3 DEF ConfigureHsiLsi
<1>12. CASE ConfigureBackup
  BY SMT, <1>12 DEF ConfigureBackup
<1>13. CASE Finish
  <2>1. LOAD' \in Nat
    <3>1. freq.SYS \in Nat
      BY SMT DEF Frequencies
    <3>2. Ticks(freq.SYS) \in Nat
      BY SMT, <3>1 DEF Ticks
    <3> QED
      BY SMT, <1>13, <3>2 DEF Finish
  <2>2. RtcFrequency \in Nat
    <3>1. freq.RTC \in Nat /\ freq.HSE \in Nat
      BY SMT DEF Frequencies
    <3> QED
      <4>1. CASE config.RTC_HSE_prescaler < 2
        BY Zenon, <3>1, <4>1, RatesType DEF RtcFrequency
      <4>2. CASE ~(config.RTC_HSE_prescaler < 2)
        <5>1. freq.HSE \div config.RTC_HSE_prescaler \in Nat
          <6>1. config.RTC_HSE_prescaler \in Nat \ {0}
            BY SMT, <4>2, ConfigurationType
          <6> QED
            BY SMT, <3>1, <6>1, Division
        <5> QED
          BY Zenon, <3>1, <4>2, <5>1, RatesType DEF RtcFrequency
      <4> QED
        BY <4>1, <4>2
  <2>3. PerFrequency(freq) \in Nat
    <3>1. freq.HSI \in Nat /\ freq.HSE \in Nat
      BY SMT DEF Frequencies
    <3> QED
      BY Zenon, <3>1, RatesType DEF PerFrequency
  <2> QED
    BY SMT, <1>13, <2>1, <2>2, <2>3 DEF Finish, Assign
<1>14. CASE Hardware
  BY SMT, <1>14 DEF Hardware, Starts, Stops
<1>15. CASE Sleep
  BY SMT, <1>15 DEF Sleep, Oscillators, SystemSources
<1> QED
  BY <1>1, <1>2, <1>3, <1>4, <1>5, <1>6, <1>7, <1>8, <1>9, <1>10, <1>11, <1>12, <1>13, <1>14, <1>15
     DEF Next, Code

-----------------------------------------------------------------------------
(* The tree *)

\* The tree invariant, out of reset.
LEMMA TreeInit == Init /\ TypeOK => TreeInv
BY SMT DEF Init, TypeOK, TreeInv, VoltageSet, HsiDivided, HsiHeld, Divided, OnlyEnabled, Name, PLLs,
   Sourced, RegistersSet, SystemClock, BackOnHsi, Configured, Prescaled, Latent, Steps

\* Nothing but the call writes the voltage, which then stays.
LEMMA VoltageStep ==
  ASSUME TypeOK, VoltageSet, [Next]_vars
  PROVE  VoltageSet'
<1> USE DEF Go, registers, Steps, VoltageSet, CORE_VOS_3
<1>1. CASE UNCHANGED vars
  BY SMT, <1>1 DEF vars
<1>2. CASE sys_clock_init
  BY SMT, <1>2 DEF sys_clock_init, OrVoltage
<1>3. CASE StartOscillators
  BY SMT, <1>3 DEF StartOscillators
<1>4. CASE DivideHsi
  BY SMT, <1>4 DEF DivideHsi
<1>5. CASE BackToHSI
  BY SMT, <1>5 DEF BackToHSI
<1>6. CASE DisablePLLs
  BY SMT, <1>6 DEF DisablePLLs, DisablePll
<1>7. CASE ConfigurePLLs
  BY SMT, <1>7 DEF ConfigurePLLs
<1>8. CASE ConfigureDomains
  BY SMT, <1>8 DEF ConfigureDomains
<1>9. CASE ClearLatency
  BY SMT, <1>9 DEF ClearLatency
<1>10. CASE SetLatency
  BY SMT, <1>10 DEF SetLatency
<1>11. CASE SwitchClock
  BY SMT, <1>11 DEF SwitchClock
<1>12. CASE ConfigureHsiLsi
  BY SMT, <1>12 DEF ConfigureHsiLsi
<1>13. CASE ConfigureBackup
  BY SMT, <1>13 DEF ConfigureBackup
<1>14. CASE Finish
  BY SMT, <1>14 DEF Finish
<1>15. CASE Hardware
  BY SMT, <1>15 DEF Hardware, Starts, Stops
<1>16. CASE Sleep
  BY SMT, <1>16 DEF Sleep
<1> QED
  BY <1>1, <1>2, <1>3, <1>4, <1>5, <1>6, <1>7, <1>8, <1>9, <1>10, <1>11, <1>12, <1>13, <1>14, <1>15, <1>16
     DEF Next, Code

\* Between the reset of HSIDIV and its write no PLL runs from the HSI, or it is held.
LEMMA HsiDividedStep ==
  ASSUME TypeOK, HsiDivided, SystemClock, [Next]_vars
  PROVE  HsiDivided'
<1> USE DEF Go, registers, Steps, HsiDivided, HsiHeld, Divided
<1>1. CASE UNCHANGED vars
  BY SMT, <1>1 DEF vars
<1>2. CASE sys_clock_init
  BY SMT, <1>2 DEF sys_clock_init
<1>3. CASE StartOscillators
  <2>1. HSIDIV' = IF HsiHeld THEN HSIDIV ELSE 0
    BY SMT, <1>3 DEF StartOscillators
  <2>2. HsiHeld' => HsiHeld
    BY Zenon, <1>3 DEF StartOscillators, SystemClock, PLLs, Oscillators
  <2>3. pc' \notin Divided
    BY SMT, <1>3 DEF StartOscillators
  <2> QED
    BY Zenon, <1>3, <2>1, <2>2, <2>3 DEF StartOscillators
<1>4. CASE DivideHsi
  BY SMT, <1>4 DEF DivideHsi
<1>5. CASE BackToHSI
  BY SMT, <1>5 DEF BackToHSI
<1>6. CASE DisablePLLs
  BY SMT, <1>6 DEF DisablePLLs, DisablePll
<1>7. CASE ConfigurePLLs
  BY SMT, <1>7 DEF ConfigurePLLs
<1>8. CASE ConfigureDomains
  BY SMT, <1>8 DEF ConfigureDomains
<1>9. CASE ClearLatency
  BY SMT, <1>9 DEF ClearLatency
<1>10. CASE SetLatency
  BY SMT, <1>10 DEF SetLatency
<1>11. CASE SwitchClock
  BY SMT, <1>11 DEF SwitchClock
<1>12. CASE ConfigureHsiLsi
  BY SMT, <1>12 DEF ConfigureHsiLsi
<1>13. CASE ConfigureBackup
  BY SMT, <1>13 DEF ConfigureBackup
<1>14. CASE Finish
  BY SMT, <1>14 DEF Finish
<1>15. CASE Hardware
  BY SMT, <1>15 DEF Hardware, Starts, Stops
<1>16. CASE Sleep
  BY SMT, <1>16 DEF Sleep
<1> QED
  BY <1>1, <1>2, <1>3, <1>4, <1>5, <1>6, <1>7, <1>8, <1>9, <1>10, <1>11, <1>12, <1>13, <1>14, <1>15, <1>16
     DEF Next, Code

\* Only ConfigurePLLs and StartOscillators switch on, and only what is enabled.
LEMMA OnlyEnabledStep ==
  ASSUME TypeOK, OnlyEnabled, SystemClock, [Next]_vars
  PROVE  OnlyEnabled'
<1> USE DEF Go, registers, Steps, OnlyEnabled, Enabled, Name, Configured
<1>1. CASE UNCHANGED vars
  BY SMT, <1>1 DEF vars
<1>2. CASE sys_clock_init
  BY SMT, <1>2 DEF sys_clock_init
<1>3. CASE StartOscillators
  BY SMT, <1>3 DEF StartOscillators, SystemClock
<1>4. CASE DivideHsi
  BY SMT, <1>4 DEF DivideHsi
<1>5. CASE BackToHSI
  BY SMT, <1>5 DEF BackToHSI
<1>6. CASE DisablePLLs
  BY SMT, <1>6 DEF DisablePLLs, DisablePll
<1>7. CASE ConfigurePLLs
  BY SMT, <1>7 DEF ConfigurePLLs
<1>8. CASE ConfigureDomains
  BY SMT, <1>8 DEF ConfigureDomains
<1>9. CASE ClearLatency
  BY SMT, <1>9 DEF ClearLatency
<1>10. CASE SetLatency
  BY SMT, <1>10 DEF SetLatency
<1>11. CASE SwitchClock
  BY SMT, <1>11 DEF SwitchClock
<1>12. CASE ConfigureHsiLsi
  BY SMT, <1>12 DEF ConfigureHsiLsi
<1>13. CASE ConfigureBackup
  BY SMT, <1>13 DEF ConfigureBackup
<1>14. CASE Finish
  BY SMT, <1>14 DEF Finish
<1>15. CASE Hardware
  BY SMT, <1>15 DEF Hardware, Starts, Stops
<1>16. CASE Sleep
  BY SMT, <1>16 DEF Sleep
<1> QED
  BY <1>1, <1>2, <1>3, <1>4, <1>5, <1>6, <1>7, <1>8, <1>9, <1>10, <1>11, <1>12, <1>13, <1>14, <1>15, <1>16
     DEF Next, Code

\* A PLL that becomes ready has its source running.
LEMMA SourcedStep ==
  ASSUME TypeOK, Sourced, OnlyEnabled, SystemClock, [Next]_vars
  PROVE  Sourced'
<1> USE DEF Go, registers, Steps, Sourced, Name
<1>1. CASE UNCHANGED vars
  BY SMT, <1>1 DEF vars
<1>2. CASE sys_clock_init
  BY SMT, <1>2 DEF sys_clock_init
<1>3. CASE StartOscillators
  <2>1. on' \cap PLLs # {} => on \cap PLLs # {}
    BY Zenon, <1>3 DEF StartOscillators, SystemClock, PLLs, Oscillators
  <2> QED
    BY SMT, <1>3, <2>1 DEF StartOscillators
<1>4. CASE DivideHsi
  BY SMT, <1>4 DEF DivideHsi
<1>5. CASE BackToHSI
  BY SMT, <1>5 DEF BackToHSI
<1>6. CASE DisablePLLs
  BY SMT, <1>6 DEF DisablePLLs, DisablePll
<1>7. CASE ConfigurePLLs
  BY SMT, <1>7 DEF ConfigurePLLs
<1>8. CASE ConfigureDomains
  BY SMT, <1>8 DEF ConfigureDomains
<1>9. CASE ClearLatency
  BY SMT, <1>9 DEF ClearLatency
<1>10. CASE SetLatency
  BY SMT, <1>10 DEF SetLatency
<1>11. CASE SwitchClock
  BY SMT, <1>11 DEF SwitchClock
<1>12. CASE ConfigureHsiLsi
  <2>1. on' \cap PLLs = on \cap PLLs
    BY SMT, <1>12 DEF ConfigureHsiLsi, PLLs, Oscillators
  <2> QED
    BY SMT, <1>12, <2>1 DEF ConfigureHsiLsi
<1>13. CASE ConfigureBackup
  BY SMT, <1>13 DEF ConfigureBackup
<1>14. CASE Finish
  BY SMT, <1>14 DEF Finish
<1>15. CASE Hardware
  <2>1. PICK o \in Oscillators \cup PLLs : Starts(o) \/ Stops(o)
    BY Zenon, <1>15 DEF Hardware
  <2>2. CASE Stops(o)
    BY SMT, <2>2 DEF Stops
  <2>3. CASE Starts(o)
    <3>1. CASE o \in Oscillators
      BY SMT, <2>3, <3>1 DEF Starts, Oscillators
    <3>2. CASE o \in PLLs
      <4>1. PLL.src = config.PLL_src /\ PLL.src \in running
        BY SMT, <2>3, <3>2 DEF Starts
      <4>2. config.PLL_src \in PllSources
        BY SMT, <4>1 DEF TypeOK
      <4>3. config.PLL_src \in config.enable \cup {"HSI"}
        BY SMT, <4>1, <4>2 DEF PllSources, OnlyEnabled
      <4> QED
        BY SMT, <2>3, <4>1, <4>3 DEF Starts
    <3> QED
      BY <2>1, <3>1, <3>2
  <2> QED
    BY <2>1, <2>2, <2>3
<1>16. CASE Sleep
  <2>1. on' \cap PLLs = {}
    BY SMT, <1>16 DEF Sleep, PLLs
  <2> QED
    BY SMT, <1>16, <2>1 DEF Sleep
<1> QED
  BY <1>1, <1>2, <1>3, <1>4, <1>5, <1>6, <1>7, <1>8, <1>9, <1>10, <1>11, <1>12, <1>13, <1>14, <1>15, <1>16
     DEF Next, Code

\* Each register is written once and stays up to the next call, which goes through it again.
LEMMA RegistersStep ==
  ASSUME TypeOK, RegistersSet, [Next]_vars
  PROVE  RegistersSet'
<1> USE DEF Go, registers, Steps, RegistersSet, Configured, Prescaled, Latent
<1>1. CASE UNCHANGED vars
  BY SMT, <1>1 DEF vars
<1>2. CASE sys_clock_init
  BY SMT, <1>2 DEF sys_clock_init
<1>3. CASE StartOscillators
  BY SMT, <1>3 DEF StartOscillators
<1>4. CASE DivideHsi
  BY SMT, <1>4 DEF DivideHsi
<1>5. CASE BackToHSI
  BY SMT, <1>5 DEF BackToHSI
<1>6. CASE DisablePLLs
  BY SMT, <1>6 DEF DisablePLLs, DisablePll
<1>7. CASE ConfigurePLLs
  BY SMT, <1>7 DEF ConfigurePLLs
<1>8. CASE ConfigureDomains
  BY SMT, <1>8 DEF ConfigureDomains
<1>9. CASE ClearLatency
  BY SMT, <1>9 DEF ClearLatency
<1>10. CASE SetLatency
  BY SMT, <1>10 DEF SetLatency
<1>11. CASE SwitchClock
  BY SMT, <1>11 DEF SwitchClock
<1>12. CASE ConfigureHsiLsi
  BY SMT, <1>12 DEF ConfigureHsiLsi
<1>13. CASE ConfigureBackup
  BY SMT, <1>13 DEF ConfigureBackup
<1>14. CASE Finish
  BY SMT, <1>14 DEF Finish
<1>15. CASE Hardware
  BY SMT, <1>15 DEF Hardware, Starts, Stops
<1>16. CASE Sleep
  BY SMT, <1>16 DEF Sleep
<1> QED
  BY <1>1, <1>2, <1>3, <1>4, <1>5, <1>6, <1>7, <1>8, <1>9, <1>10, <1>11, <1>12, <1>13, <1>14, <1>15, <1>16
     DEF Next, Code

\* The switch to PLL1 comes after all writes, and BackToHSI before the next.
LEMMA SystemClockStep ==
  ASSUME TypeOK, SystemClock, RegistersSet, OnlyEnabled, [Next]_vars
  PROVE  SystemClock'
<1> USE DEF Go, registers, Steps, SystemClock, BackOnHsi
<1>1. CASE UNCHANGED vars
  BY SMT, <1>1 DEF vars
<1>2. CASE sys_clock_init
  BY SMT, <1>2 DEF sys_clock_init
<1>3. CASE StartOscillators
  BY SMT, <1>3 DEF StartOscillators
<1>4. CASE DivideHsi
  BY SMT, <1>4 DEF DivideHsi
<1>5. CASE BackToHSI
  BY SMT, <1>5 DEF BackToHSI
<1>6. CASE DisablePLLs
  BY SMT, <1>6 DEF DisablePLLs, DisablePll
<1>7. CASE ConfigurePLLs
  BY SMT, <1>7 DEF ConfigurePLLs
<1>8. CASE ConfigureDomains
  BY SMT, <1>8 DEF ConfigureDomains
<1>9. CASE ClearLatency
  BY SMT, <1>9 DEF ClearLatency
<1>10. CASE SetLatency
  BY SMT, <1>10 DEF SetLatency
<1>11. CASE SwitchClock
  <2>1. CASE config.SYS_CLK_src = "PLL1_P"
    <3>1. pc = "switch" /\ pc' = "switched" /\ SWS' = "PLL1_P" /\ "PLL1" \in running
      BY SMT, <1>11, <2>1 DEF SwitchClock, Runs, Outputs, PllOf, Name
    <3>2. "PLL1" \in on
      BY SMT, <3>1 DEF OnlyEnabled, Name, Enabled, Configured
    <3>3. /\ PLL = [src |-> config.PLL_src, pll |-> config.PLL]
          /\ PRE = [SYS |-> config.SYS_CLK_prescaler, AHB |-> config.AHB_prescaler,
                    APB |-> config.APB_prescaler]
          /\ LATENCY = config.FLASH_latency
      BY SMT, <3>1 DEF RegistersSet, Configured, Prescaled, Latent
    <3> QED
      BY SMT, <1>11, <2>1, <3>1, <3>2, <3>3 DEF SwitchClock
  <2>2. CASE config.SYS_CLK_src # "PLL1_P"
    BY SMT, <1>11, <2>2 DEF SwitchClock
  <2> QED
    BY <2>1, <2>2
<1>12. CASE ConfigureHsiLsi
  BY SMT, <1>12 DEF ConfigureHsiLsi
<1>13. CASE ConfigureBackup
  BY SMT, <1>13 DEF ConfigureBackup
<1>14. CASE Finish
  BY SMT, <1>14 DEF Finish
<1>15. CASE Hardware
  BY SMT, <1>15 DEF Hardware, Starts, Stops
<1>16. CASE Sleep
  BY SMT, <1>16 DEF Sleep
<1> QED
  BY <1>1, <1>2, <1>3, <1>4, <1>5, <1>6, <1>7, <1>8, <1>9, <1>10, <1>11, <1>12, <1>13, <1>14, <1>15, <1>16
     DEF Next, Code

\* The six parts together.
LEMMA TreeStep == ASSUME TypeOK, TreeInv, [Next]_vars PROVE TreeInv'
BY VoltageStep, HsiDividedStep, OnlyEnabledStep, SourcedStep, RegistersStep, SystemClockStep DEF TreeInv

\* Every variable keeps its type.
THEOREM TypeCorrect == Spec => []TypeOK
BY TypeInit, TypeStep, PTL DEF Spec

\* The tree is what the configuration makes of it, step by step.
LEMMA TreeCorrect == Spec => [](TypeOK /\ TreeInv)
<1>1. Init => TypeOK /\ TreeInv
  BY TypeInit, TreeInit
<1>2. TypeOK /\ TreeInv /\ [Next]_vars => (TypeOK /\ TreeInv)'
  BY TypeStep, TreeStep
<1> QED
  BY <1>1, <1>2, PTL DEF Spec

-----------------------------------------------------------------------------
(* The flash *)

\* From PLL1, in between too, the AXI clock is the configured one.
LEMMA SystemRates ==
  ASSUME TypeOK, TreeInv, SWS = "PLL1_P", config.HSE_freq = HseRate
  PROVE  AxiRate = ConfiguredAhb(config)
<1>1. PLL.src = config.PLL_src /\ PLL.pll = config.PLL /\ "PLL1" \in on
  BY SMT DEF TreeInv, SystemClock
<1>2. PRE.SYS = config.SYS_CLK_prescaler /\ PRE.AHB = config.AHB_prescaler
  BY SMT DEF TreeInv, SystemClock
<1>3. config.PLL_src = "HSI" => HSIDIV = config.HSI_div
  BY SMT, <1>1 DEF TreeInv, HsiDivided, HsiHeld, PLLs
<1>4. config.PLL_src \in {"HSI", "CSI", "HSE"}
  BY SMT, ConfigurationType DEF TypeOK, PllSources
<1>5. OscillatorRate(config.PLL_src) = ConfiguredInput(config)
  BY Zenon, <1>3, <1>4 DEF OscillatorRate, ConfiguredInput
<1>6. PllOf["PLL1_P"] = 1 /\ "PLL1_P" \in Outputs
  BY SMT DEF PllOf, Outputs
<1>7. PllRate("PLL1_P") = ConfiguredPll(config, "PLL1_P")
  BY Zenon, <1>1, <1>5, <1>6 DEF PllRate, ConfiguredPll
<1>8. config.SYS_CLK_src = "PLL1_P"
  BY SMT DEF TreeInv, SystemClock
<1> QED
  BY Zenon, <1>2, <1>6, <1>7, <1>8
     DEF AxiRate, SysRate, SourceRate, ConfiguredAhb, ConfiguredSys, ConfiguredSource

\* The oscillators are no faster than their undivided rates.
LEMMA OscillatorRates ==
  ASSUME TypeOK, NEW o \in {"HSI", "CSI", "HSE"}
  PROVE  /\ OscillatorRate(o) \in Nat
         /\ o = "HSI" => OscillatorRate(o) <= HsiRate
         /\ o = "CSI" => OscillatorRate(o) = Constant.CSI
         /\ o = "HSE" => OscillatorRate(o) = HseRate
<1>1. CASE o = "HSI"
  <2>1. HSI_DIV[HSIDIV] \in Nat \ {0}
    BY Zenon, Dividers DEF TypeOK
  <2>2. OscillatorRate(o) = HsiRate \div HSI_DIV[HSIDIV]
    BY Zenon, <1>1 DEF OscillatorRate
  <2> QED
    BY SMT, <1>1, <2>1, <2>2, Division, RatesType
<1>2. CASE o = "CSI"
  BY Zenon, <1>2, RatesType DEF OscillatorRate
<1>3. CASE o = "HSE"
  <2>1. HseRate \in Nat
    BY SMT, ClockAssumption
  <2> QED
    BY Zenon, <1>3, <2>1 DEF OscillatorRate
<1> QED
  BY <1>1, <1>2, <1>3

\* The domains divide.
LEMMA DomainsDivide ==
  ASSUME TypeOK, SourceRate(SWS) \in Nat
  PROVE  AxiRate \in Nat /\ AxiRate <= SourceRate(SWS)
<1>1. PRE.SYS \in 0..15 /\ PRE.AHB \in 0..15
  BY SMT DEF TypeOK
<1>2. AHB_CLK_PRE[PRE.SYS] \in Nat \ {0} /\ AHB_CLK_PRE[PRE.AHB] \in Nat \ {0}
  BY Zenon, <1>1, Dividers
<1>3. SysRate \in Nat /\ SysRate <= SourceRate(SWS)
  BY SMT, <1>2, Division DEF SysRate
<1>4. AxiRate \in Nat /\ AxiRate <= SysRate
  BY SMT, <1>2, <1>3, Division DEF AxiRate
<1> QED
  BY SMT, <1>3, <1>4

\* The rates that the lowest latencies allow.
LEMMA Margins ==
  /\ HsiRate <= MaxAxi(CORE_VOS_3, 3) /\ MaxAxi(CORE_VOS_3, 3) \in Nat
  /\ \A latency \in 0..4 : /\ MaxAxi(CORE_VOS_1, 0) <= MaxAxi(CORE_VOS_1, latency)
                           /\ HsiRate <= MaxAxi(CORE_VOS_1, latency)
                           /\ Constant.CSI <= MaxAxi(CORE_VOS_1, latency)
                           /\ MaxAxi(CORE_VOS_1, latency) \in Nat
BY SMT DEF MaxAxi, HsiRate, Constant, CORE_VOS_1, CORE_VOS_2, CORE_VOS_3

\* The margin is enough wherever the tree is.
LEMMA Flash == ASSUME FlashMargins, TypeOK, TreeInv PROVE FlashKeepsUp
<1>1. /\ CORE_VOS_3 \cup config.CORE_VOS_level = CORE_VOS_1
      /\ HseRate <= MaxAxi(CORE_VOS_1, 0)
      /\ config.SYS_CLK_src = "PLL1_P"
           => /\ config.HSE_freq = HseRate
              /\ ConfiguredAhb(config) <= MaxAxi(CORE_VOS_1, config.FLASH_latency)
  BY Zenon DEF FlashMargins, TypeOK
<1>2. LATENCY \in 0..4
  BY DEF TypeOK
<1>3. CASE SWS = "PLL1_P"
  <2>1. config.SYS_CLK_src = "PLL1_P" /\ LATENCY = config.FLASH_latency /\ pc # "reset"
    BY SMT, <1>3 DEF TreeInv, SystemClock, VoltageSet
  <2>2. AxiRate = ConfiguredAhb(config)
    BY Zenon, <1>1, <1>3, <2>1, SystemRates
  <2>3. VOS = CORE_VOS_1
    BY Zenon, <1>1, <2>1 DEF TreeInv, VoltageSet
  <2> QED
    BY Zenon, <1>1, <2>1, <2>2, <2>3 DEF FlashKeepsUp
<1>4. CASE SWS # "PLL1_P"
  <2>1. SWS \in {"HSI", "CSI", "HSE"}
    BY <1>4 DEF TypeOK, SystemSources
  <2>2. SourceRate(SWS) = OscillatorRate(SWS)
    BY SMT, <2>1 DEF SourceRate, Outputs, PllOf
  <2>3. OscillatorRate(SWS) \in Nat /\ AxiRate \in Nat /\ AxiRate <= OscillatorRate(SWS)
    BY Zenon, <2>1, <2>2, OscillatorRates, DomainsDivide
  <2>4. CASE pc = "reset"
    <3>1. VOS = CORE_VOS_3 /\ LATENCY = 3 /\ SWS = "HSI"
      BY Zenon, <2>4 DEF TreeInv, VoltageSet
    <3>2. OscillatorRate(SWS) <= HsiRate
      BY Zenon, <2>1, <3>1, OscillatorRates
    <3>3. HsiRate <= MaxAxi(VOS, LATENCY) /\ MaxAxi(VOS, LATENCY) \in Nat
      BY Zenon, <3>1, Margins
    <3> QED
      BY SMT, <2>3, <3>2, <3>3, RatesType DEF FlashKeepsUp
  <2>5. CASE pc # "reset"
    <3>1. VOS = CORE_VOS_1
      BY Zenon, <1>1, <2>5 DEF TreeInv, VoltageSet
    <3>2. OscillatorRate(SWS) <= MaxAxi(CORE_VOS_1, LATENCY)
      BY SMT, <1>1, <1>2, <2>1, OscillatorRates, Margins, RatesType, ClockAssumption
    <3> QED
      BY SMT, <1>2, <2>3, <3>1, <3>2, Margins DEF FlashKeepsUp
  <2> QED
    BY <2>4, <2>5
<1> QED
  BY <1>3, <1>4

\* The table of flash latencies is respected at every moment of every run of sys_clock_init,
\* after every sleep, if the configurations leave the margin.
THEOREM FlashCorrect == ASSUME FlashMargins PROVE Spec => []FlashKeepsUp
<1>1. TypeOK /\ TreeInv => FlashKeepsUp
  BY Flash
<1> QED
  BY <1>1, TreeCorrect, PTL

-----------------------------------------------------------------------------
(* Configurations that sys_clock_init does not return from *)

\* Nothing is reached out of reset.
LEMMA ReachedInit == Init => Reached
BY SMT DEF Init, Reached, Prescaled, Configured, Switched

\* Each wait that ends shows one of the conditions.
LEMMA ReachedStep ==
  ASSUME TypeOK, TreeInv, Reached, [Next]_vars
  PROVE  Reached'
<1> USE DEF Go, registers, Steps, Reached, Prescaled, Configured, Switched, Enabled
<1>1. CASE UNCHANGED vars
  BY SMT, <1>1 DEF vars
<1>2. CASE sys_clock_init
  BY SMT, <1>2 DEF sys_clock_init
<1>3. CASE StartOscillators
  BY SMT, <1>3 DEF StartOscillators
<1>4. CASE DivideHsi
  BY SMT, <1>4 DEF DivideHsi
<1>5. CASE BackToHSI
  BY SMT, <1>5 DEF BackToHSI
<1>6. CASE DisablePLLs
  BY SMT, <1>6 DEF DisablePLLs, DisablePll
<1>7. CASE ConfigurePLLs
  BY SMT, <1>7 DEF ConfigurePLLs
<1>8. CASE ConfigureDomains
  <2>1. \A p \in 1..3 : Enabled(p) => config.PLL_src \in config.enable \cup {"HSI"}
    BY SMT, <1>8 DEF ConfigureDomains, TreeInv, Sourced
  <2> QED
    BY SMT, <1>8, <2>1 DEF ConfigureDomains, Enabled
<1>9. CASE ClearLatency
  BY SMT, <1>9 DEF ClearLatency
<1>10. CASE SetLatency
  BY SMT, <1>10 DEF SetLatency
<1>11. CASE SwitchClock
  <2>1. pc = "switch" /\ pc' = "switched" /\ UNCHANGED config /\ Runs(config.SYS_CLK_src)
    BY SMT, <1>11 DEF SwitchClock
  <2>2. PLL.pll = config.PLL
    BY SMT, <2>1 DEF TreeInv, RegistersSet, Configured
  <2>3. CASE config.SYS_CLK_src = "PLL1_P"
    <3>1. "PLL1" \in running /\ "P" \in config.PLL[1].outputs
      BY SMT, <2>1, <2>2, <2>3 DEF Runs, Outputs, PllOf, Name, Divider
    <3>2. Enabled(1)
      BY SMT, <3>1 DEF TreeInv, OnlyEnabled, Name
    <3> QED
      BY SMT, <2>1, <2>3, <3>1, <3>2 DEF Enabled
  <2>4. CASE config.SYS_CLK_src # "PLL1_P"
    <3>1. config.SYS_CLK_src \in {"HSI", "CSI", "HSE"}
      BY SMT, <2>4, ConfigurationType DEF TypeOK, SystemSources
    <3>2. config.SYS_CLK_src \in running
      BY SMT, <2>1, <3>1 DEF Runs, Outputs, PllOf
    <3>3. config.SYS_CLK_src \in config.enable \cup {"HSI"}
      BY SMT, <3>1, <3>2 DEF TreeInv, OnlyEnabled
    <3> QED
      BY SMT, <2>1, <2>4, <3>3 DEF Enabled
  <2> QED
    BY <2>3, <2>4
<1>12. CASE ConfigureHsiLsi
  BY SMT, <1>12 DEF ConfigureHsiLsi
<1>13. CASE ConfigureBackup
  BY SMT, <1>13 DEF ConfigureBackup
<1>14. CASE Finish
  BY SMT, <1>14 DEF Finish, TreeInv, OnlyEnabled, Enabled
<1>15. CASE Hardware
  BY SMT, <1>15 DEF Hardware, Starts, Stops
<1>16. CASE Sleep
  BY SMT, <1>16 DEF Sleep
<1> QED
  BY <1>1, <1>2, <1>3, <1>4, <1>5, <1>6, <1>7, <1>8, <1>9, <1>10, <1>11, <1>12, <1>13, <1>14, <1>15, <1>16
     DEF Next, Code

\* All conditions hold at the end.
LEMMA Done == TypeOK /\ TreeInv /\ Reached => NeverDone
<1> SUFFICES ASSUME TypeOK, TreeInv, Reached, pc = "idle" PROVE Completes(config)
  BY DEF NeverDone
<1>1. CORE_VOS_3 \cup config.CORE_VOS_level = config.CORE_VOS_level
  BY Zenon DEF TreeInv, VoltageSet
<1>2. \A p \in 1..3 : Enabled(p) => config.PLL_src \in config.enable \cup {"HSI"}
  BY SMT DEF Reached, Prescaled, Configured
<1>3. /\ config.SYS_CLK_src = "PLL1_P" => Enabled(1) /\ "P" \in config.PLL[1].outputs
      /\ config.SYS_CLK_src \in config.enable \cup {"HSI", "PLL1_P"}
      /\ "LSE" \notin config.enable
  BY SMT DEF Reached, Switched
<1> QED
  BY Zenon, <1>1, <1>2, <1>3 DEF Completes, Enabled

\* From a configuration that it cannot be done with, sys_clock_init never returns.
THEOREM NeverReturns == Spec => []NeverDone
<1>1. Init => Reached
  BY ReachedInit
<1>2. (TypeOK /\ TreeInv) /\ Reached /\ [Next]_vars => Reached'
  BY ReachedStep
<1>3. TypeOK /\ TreeInv /\ Reached => NeverDone
  BY Done
<1> QED
  BY <1>1, <1>2, <1>3, TreeCorrect, PTL DEF Spec

-----------------------------------------------------------------------------
(* The frequency variables *)

\* Out of reset nothing is said of the variables.
LEMMA VariablesInit == Init => VariablesSet
BY SMT DEF Init, VariablesSet, Divided, BeforeHsiLeft, Configured, Prescaled

\* The write of the oscillators' variables.
LEMMA DividedVariables ==
  ASSUME TypeOK, VariablesSet, DivideHsi
  PROVE  VariablesSet'
<1>1. /\ pc' = "divided" /\ UNCHANGED config
      /\ freq' = Assign([HSE |-> config.HSE_freq, HSI |-> HsiRate \div Pow2[config.HSI_div]])
  BY SMT DEF DivideHsi, Go
<1>2. Pow2[config.HSI_div] = HSI_DIV[config.HSI_div]
  BY SMT, ConfigurationType, Dividers DEF TypeOK
<1>3. /\ freq'.HSE = config.HSE_freq
      /\ freq'.HSI = HsiRate \div HSI_DIV[config.HSI_div]
  BY SMT, <1>1, <1>2 DEF Assign, Frequencies
<1> QED
  BY SMT, <1>1, <1>3
     DEF VariablesSet, Divided, BeforeHsiLeft, Configured, Prescaled, Steps

\* The variables of the PLLs are computed from those of the oscillators.
LEMMA PllVariables ==
  ASSUME TypeOK, VariablesSet, ConfigurePLLs
  PROVE  VariablesSet'
<1> DEFINE f == [s \in Frequencies |->
                   IF s \in Outputs /\ Divider[s] \in config.PLL[PllOf[s]].outputs
                   THEN PllFrequency(s) ELSE freq[s]]
<1>1. /\ pc = "configure" /\ pc' = "lock" /\ UNCHANGED config
      /\ freq' = [f EXCEPT !["SYS"] = Undivided(f)]
  BY Zenon DEF ConfigurePLLs, Go, UpdatePllFrequencies
<1>2. freq.HSE = config.HSE_freq /\ freq.HSI = HsiRate \div HSI_DIV[config.HSI_div]
  BY SMT, <1>1 DEF VariablesSet, Divided, BeforeHsiLeft, Steps
<1>3. \A o \in Outputs : PllFrequency(o) = ConfiguredPll(config, o)
  <2>1. Input = ConfiguredInput(config)
    BY Zenon, <1>2 DEF Input, ConfiguredInput
  <2> QED
    BY Zenon, <2>1 DEF PllFrequency, ConfiguredPll, DividerM
<1>4. /\ {"HSE", "HSI", "SYS"} \cup Outputs \subseteq Frequencies
      /\ {"HSE", "HSI", "SYS"} \cap Outputs = {} /\ PllOf["PLL1_P"] = 1
      /\ Divider["PLL1_P"] = "P" /\ "PLL1_P" \in Outputs
  BY SMT DEF Frequencies, Outputs, PllOf, Divider
<1>5. \A o \in Outputs : Divider[o] \in config.PLL[PllOf[o]].outputs =>
        f[o] = ConfiguredPll(config, o)
  BY Zenon, <1>3, <1>4
<1>6. f["HSE"] = freq.HSE /\ f["HSI"] = freq.HSI /\ DOMAIN f = Frequencies
  BY Zenon, <1>4
<1>7. SourceWritten => Undivided(f) = ConfiguredSource(config)
  <2>1. config.SYS_CLK_src \in {"HSI", "CSI", "HSE", "PLL1_P"}
    BY SMT, ConfigurationType DEF TypeOK, SystemSources
  <2>2. CASE config.SYS_CLK_src = "PLL1_P"
    BY Zenon, <1>4, <1>5, <2>2 DEF Undivided, ConfiguredSource, SourceWritten
  <2>3. CASE config.SYS_CLK_src # "PLL1_P"
    BY Zenon, <1>2, <1>6, <2>1, <2>3 DEF Undivided, ConfiguredSource
  <2> QED
    BY <2>2, <2>3
<1> HIDE DEF f
<1>8. /\ freq'["SYS"] = Undivided(f)
      /\ \A s \in Frequencies \ {"SYS"} : freq'[s] = f[s]
  BY Zenon, <1>1, <1>4, <1>6
<1>9. SourceWritten' <=> SourceWritten
  BY Zenon, <1>1 DEF SourceWritten
<1>10. /\ freq'["HSE"] = config.HSE_freq
       /\ freq'["HSI"] = HsiRate \div HSI_DIV[config.HSI_div]
       /\ \A o \in Outputs : Divider[o] \in config.PLL[PllOf[o]].outputs =>
            freq'[o] = ConfiguredPll(config, o)
  BY Zenon, <1>2, <1>4, <1>5, <1>6, <1>8
<1> QED
  BY SMT, <1>1, <1>7, <1>8, <1>9, <1>10
     DEF VariablesSet, Divided, BeforeHsiLeft, Configured, Prescaled, Steps

\* The domains' variables are decoded by the shifts.
LEMMA DomainVariables ==
  ASSUME TypeOK, VariablesSet, ConfigureDomains
  PROVE  VariablesSet'
<1> DEFINE sys == ShiftAHB(freq.SYS, config.SYS_CLK_prescaler)
           ahb == ShiftAHB(sys, config.AHB_prescaler)
           apb(n) == ShiftAPB(ahb, config.APB_prescaler[n])
<1>1. /\ pc = "lock" /\ pc' = "prescaled" /\ UNCHANGED config
      /\ freq' = Assign([SYS |-> sys, AHB |-> ahb, APB1 |-> apb(1), APB2 |-> apb(2),
                         APB3 |-> apb(3), APB4 |-> apb(4)])
  BY Zenon DEF ConfigureDomains, Go, UpdateDomainFrequencies
<1>2. /\ config.SYS_CLK_prescaler \in 0..15 /\ config.AHB_prescaler \in 0..15
      /\ \A n \in 1..4 : config.APB_prescaler[n] \in 0..7
  BY SMT, ConfigurationType DEF TypeOK
<1>3. freq.SYS \in Nat
  BY SMT DEF TypeOK, Frequencies
<1>4. sys \in Nat /\ sys = freq.SYS \div AHB_CLK_PRE[config.SYS_CLK_prescaler]
  BY Zenon, <1>2, <1>3, ShiftAHBType, ShiftAHBDivides
<1> HIDE DEF sys
<1>5. ahb \in Nat /\ ahb = sys \div AHB_CLK_PRE[config.AHB_prescaler]
  BY Zenon, <1>2, <1>4, ShiftAHBType, ShiftAHBDivides
<1> HIDE DEF ahb
<1>6. \A n \in 1..4 : apb(n) = ahb \div APB_CLK_PRE[config.APB_prescaler[n]]
  BY Zenon, <1>2, <1>5, ShiftAPBDivides
<1> HIDE DEF apb
<1>7. /\ freq'.SYS = sys /\ freq'.AHB = ahb /\ freq'.APB1 = apb(1) /\ freq'.APB2 = apb(2)
      /\ freq'.APB3 = apb(3) /\ freq'.APB4 = apb(4)
      /\ freq'.HSE = freq.HSE /\ freq'.HSI = freq.HSI
  BY SMT, <1>1 DEF Assign, Frequencies
<1>8. \A o \in Outputs : freq'[o] = freq[o]
  BY SMT, <1>1 DEF Assign, Frequencies, Outputs, PllOf
<1>9. SourceWritten' <=> SourceWritten
  BY Zenon, <1>1 DEF SourceWritten
<1>10. SourceWritten => sys = ConfiguredSys(config)
  <2>1. SourceWritten => freq.SYS = ConfiguredSource(config)
    BY SMT, <1>1 DEF VariablesSet
  <2> QED
    BY Zenon, <1>4, <2>1 DEF ConfiguredSys
<1>11. SourceWritten => ahb = ConfiguredAhb(config)
  BY Zenon, <1>5, <1>10 DEF ConfiguredAhb
<1>12. SourceWritten => \A n \in 1..4 : apb(n) = ConfiguredApb(config, n)
  BY Zenon, <1>6, <1>11 DEF ConfiguredApb
<1> QED
  BY SMT, <1>1, <1>7, <1>8, <1>9, <1>10, <1>11, <1>12
     DEF VariablesSet, Divided, BeforeHsiLeft, Configured, Prescaled, Steps

\* What is written to the HSI's variable at the end concerns no other.
LEMMA HsiVariable ==
  ASSUME TypeOK, VariablesSet, ConfigureHsiLsi
  PROVE  VariablesSet'
<1>1. /\ pc = "switched" /\ pc' = "LSI" /\ UNCHANGED <<config, LOAD>>
      /\ freq' = Assign([HSI |-> HsiLeft])
  BY SMT DEF ConfigureHsiLsi, Go
<1>2. \A s \in Frequencies \ {"HSI"} : freq'[s] = freq[s]
  BY SMT, <1>1 DEF Assign
<1>3. \A s \in Outputs \cup DomainFrequencies : freq'[s] = freq[s]
  BY SMT, <1>2 DEF Frequencies, Outputs, PllOf, DomainFrequencies
<1>4. SourceWritten' <=> SourceWritten
  BY Zenon, <1>1 DEF SourceWritten
<1> QED
  BY SMT, <1>1, <1>3, <1>4 DEF DomainFrequencies, VariablesSet, Divided, BeforeHsiLeft, Configured, Prescaled, Steps

\* The variables of PER and RTC, and the tick.
LEMMA LastVariables ==
  ASSUME TypeOK, VariablesSet, Finish
  PROVE  VariablesSet'
<1>1. /\ pc = "LSE" /\ pc' = "idle" /\ UNCHANGED config
      /\ LOAD' = (Ticks(freq.SYS) \div 2000) + 1
      /\ freq' = Assign([RTC |-> RtcFrequency, PER |-> PerFrequency(freq)])
  BY SMT DEF Finish, Go
<1>2. \A s \in Frequencies \ {"RTC", "PER"} : freq'[s] = freq[s]
  BY SMT, <1>1 DEF Assign
<1>3. \A s \in Outputs \cup DomainFrequencies : freq'[s] = freq[s]
  BY SMT, <1>2 DEF Frequencies, Outputs, PllOf, DomainFrequencies
<1>4. SourceWritten' <=> SourceWritten
  BY Zenon, <1>1 DEF SourceWritten
<1>5. (LOAD = (Ticks(freq.SYS) \div 2000) + 1)'
  BY SMT, <1>1, <1>3 DEF DomainFrequencies, Ticks
<1> QED
  BY SMT, <1>1, <1>3, <1>4, <1>5 DEF DomainFrequencies, VariablesSet, Divided, BeforeHsiLeft, Configured, Prescaled, Steps

\* A step that writes none of them and stays where it is.
LEMMA VariablesKept ==
  ASSUME VariablesSet, UNCHANGED <<config, pc, freq, LOAD>>
  PROVE  VariablesSet'
<1>1. config' = config /\ pc' = pc /\ freq' = freq /\ LOAD' = LOAD
  OBVIOUS
<1> QED
  BY SMT, <1>1 DEF VariablesSet, SourceWritten, Ticks

\* No other step touches the variables, and the call starts afresh.
LEMMA VariablesStep ==
  ASSUME TypeOK, VariablesSet, [Next]_vars
  PROVE  VariablesSet'
<1>1. CASE UNCHANGED vars
  BY Zenon, <1>1, VariablesKept DEF vars, registers
<1>2. CASE Hardware
  BY Zenon, <1>2, VariablesKept DEF Hardware, Starts, Stops
<1>3. CASE Sleep
  BY Zenon, <1>3, VariablesKept DEF Sleep
<1> USE DEF Go, registers, VariablesSet, Steps, Divided, BeforeHsiLeft, Configured, Prescaled,
           SourceWritten, Ticks
<1>4. CASE sys_clock_init
  BY SMT, <1>4 DEF sys_clock_init
<1>5. CASE StartOscillators
  BY SMT, <1>5 DEF StartOscillators
<1>6. CASE DivideHsi
  BY Zenon, <1>6, DividedVariables
<1>7. CASE BackToHSI
  BY SMT, <1>7 DEF BackToHSI
<1>8. CASE DisablePLLs
  BY SMT, <1>8 DEF DisablePLLs, DisablePll
<1>9. CASE ConfigurePLLs
  BY Zenon, <1>9, PllVariables
<1>10. CASE ConfigureDomains
  BY Zenon, <1>10, DomainVariables
<1>11. CASE ClearLatency
  BY SMT, <1>11 DEF ClearLatency
<1>12. CASE SetLatency
  BY SMT, <1>12 DEF SetLatency
<1>13. CASE SwitchClock
  BY SMT, <1>13 DEF SwitchClock
<1>14. CASE ConfigureHsiLsi
  BY Zenon, <1>14, HsiVariable
<1>15. CASE ConfigureBackup
  BY SMT, <1>15 DEF ConfigureBackup
<1>16. CASE Finish
  BY Zenon, <1>16, LastVariables
<1> HIDE DEF Go, registers, VariablesSet, Steps, Divided, BeforeHsiLeft, Configured, Prescaled,
            SourceWritten, Ticks
<1> QED
  BY <1>1, <1>2, <1>3, <1>4, <1>5, <1>6, <1>7, <1>8, <1>9, <1>10, <1>11, <1>12, <1>13, <1>14, <1>15, <1>16
     DEF Next, Code

\* At the end the variables hold the rates.
LEMMA Follow == ASSUME TypeOK, TreeInv, VariablesSet PROVE FrequenciesFollow
<1> SUFFICES ASSUME pc = "idle", SWS = config.SYS_CLK_src
             PROVE  /\ \A s \in Outputs \cup {"HSE"} : Reliable(s) => freq[s] = SourceRate(s)
                    /\ (SWS = "HSI" \/ Reliable(SWS)) =>
                         /\ freq.SYS = SysRate /\ freq.AHB = AxiRate
                         /\ freq.APB1 = ApbRate(1) /\ freq.APB2 = ApbRate(2)
                         /\ freq.APB3 = ApbRate(3) /\ freq.APB4 = ApbRate(4)
                         /\ SysRate = 2 * AxiRate =>
                              LOAD + 1 - (Ticks(AxiRate) \div 1000) \in 1..2
  BY Zenon DEF FrequenciesFollow
<1>1. /\ PLL.src = config.PLL_src /\ PLL.pll = config.PLL /\ HSIDIV = config.HSI_div
      /\ PRE.SYS = config.SYS_CLK_prescaler /\ PRE.AHB = config.AHB_prescaler
      /\ PRE.APB = config.APB_prescaler
  BY SMT DEF TreeInv, RegistersSet, HsiDivided, Configured, Prescaled, Divided, Steps
<1>2. /\ freq.HSE = config.HSE_freq
      /\ \A o \in Outputs : Divider[o] \in config.PLL[PllOf[o]].outputs =>
           freq[o] = ConfiguredPll(config, o)
      /\ SourceWritten =>
           /\ freq.SYS = ConfiguredSys(config) /\ freq.AHB = ConfiguredAhb(config)
           /\ freq.APB1 = ConfiguredApb(config, 1) /\ freq.APB2 = ConfiguredApb(config, 2)
           /\ freq.APB3 = ConfiguredApb(config, 3) /\ freq.APB4 = ConfiguredApb(config, 4)
      /\ LOAD = (Ticks(freq.SYS) \div 2000) + 1
  BY SMT DEF VariablesSet, Configured, Prescaled, Divided, Steps
<1>3. /\ config.PLL_src \in {"HSI", "CSI", "HSE"}
      /\ config.SYS_CLK_src \in {"HSI", "CSI", "HSE", "PLL1_P"}
  BY SMT, ConfigurationType DEF TypeOK, PllSources, SystemSources
<1>4. /\ "HSE" \notin Outputs /\ "HSI" \notin Outputs /\ "CSI" \notin Outputs
      /\ PllOf["PLL1_P"] = 1 /\ Divider["PLL1_P"] = "P" /\ "PLL1_P" \in Outputs
  BY SMT DEF Outputs, PllOf, Divider
<1>5. ASSUME NEW s \in Outputs, Reliable(s)
      PROVE  /\ Divider[s] \in config.PLL[PllOf[s]].outputs
             /\ SourceRate(s) = ConfiguredPll(config, s)
  <2>1. Divider[s] \in config.PLL[PllOf[s]].outputs
    BY Zenon, <1>1, <1>5 DEF Reliable, Runs
  <2>2. /\ config.PLL[PllOf[s]].M = config.PLL[1].M
        /\ config.PLL_src = "HSE" => config.HSE_freq = HseRate
    BY Zenon, <1>1, <1>5 DEF Reliable
  <2>3. OscillatorRate(config.PLL_src) = ConfiguredInput(config)
    BY Zenon, <1>1, <1>3, <2>2 DEF OscillatorRate, ConfiguredInput
  <2>4. PllRate(s) = ConfiguredPll(config, s)
    BY Zenon, <1>1, <2>2, <2>3 DEF PllRate, ConfiguredPll
  <2> QED
    BY Zenon, <2>1, <2>4, <1>5 DEF SourceRate
<1>6. Reliable("HSE") => freq["HSE"] = SourceRate("HSE")
  BY Zenon, <1>2, <1>4 DEF Reliable, SourceRate, OscillatorRate
<1>7. ASSUME SWS = "HSI" \/ Reliable(SWS)
      PROVE  SourceWritten /\ SourceRate(SWS) = ConfiguredSource(config)
  <2>1. CASE SWS = "PLL1_P"
    BY Zenon, <1>4, <1>5, <1>7, <2>1 DEF SourceWritten, ConfiguredSource
  <2>2. CASE SWS = "HSI"
    BY Zenon, <1>1, <1>4, <2>2 DEF SourceWritten, ConfiguredSource, SourceRate, OscillatorRate
  <2>3. CASE SWS = "CSI"
    BY Zenon, <1>4, <2>3 DEF SourceWritten, ConfiguredSource, SourceRate, OscillatorRate
  <2>4. CASE SWS = "HSE"
    BY Zenon, <1>4, <1>7, <2>4 DEF Reliable, SourceWritten, ConfiguredSource, SourceRate, OscillatorRate
  <2> QED
    BY Zenon, <1>3, <2>1, <2>2, <2>3, <2>4
<1>8. ASSUME SWS = "HSI" \/ Reliable(SWS)
      PROVE  /\ freq.SYS = SysRate /\ freq.AHB = AxiRate
             /\ freq.APB1 = ApbRate(1) /\ freq.APB2 = ApbRate(2)
             /\ freq.APB3 = ApbRate(3) /\ freq.APB4 = ApbRate(4)
             /\ SysRate = 2 * AxiRate => LOAD + 1 - (Ticks(AxiRate) \div 1000) \in 1..2
  <2>1. SysRate = ConfiguredSys(config)
    BY Zenon, <1>1, <1>7, <1>8 DEF SysRate, ConfiguredSys
  <2>2. AxiRate = ConfiguredAhb(config)
    BY Zenon, <1>1, <2>1 DEF AxiRate, ConfiguredAhb
  <2>3. \A n \in 1..4 : ApbRate(n) = ConfiguredApb(config, n)
    BY Zenon, <1>1, <2>2 DEF ApbRate, ConfiguredApb
  <2>4. freq.SYS = SysRate /\ freq.AHB = AxiRate
    BY Zenon, <1>2, <1>7, <1>8, <2>1, <2>2
  <2>5. /\ freq.APB1 = ApbRate(1) /\ freq.APB2 = ApbRate(2)
        /\ freq.APB3 = ApbRate(3) /\ freq.APB4 = ApbRate(4)
    BY SMT, <1>2, <1>7, <1>8, <2>3
  <2>6. SysRate \in Nat /\ AxiRate \in Nat
    BY SMT, <2>4 DEF TypeOK, Frequencies
  <2>7. SysRate = 2 * AxiRate => LOAD + 1 - (Ticks(AxiRate) \div 1000) \in 1..2
    <3> SUFFICES ASSUME SysRate = 2 * AxiRate
                 PROVE  LOAD + 1 - (Ticks(AxiRate) \div 1000) \in 1..2
      OBVIOUS
    <3>1. (Ticks(SysRate) \div 2000) + 1 + 1 - (Ticks(AxiRate) \div 1000) \in 1..2
      BY SMT, <2>6, TickPeriod
    <3>2. LOAD = (Ticks(SysRate) \div 2000) + 1
      BY SMT, <1>2, <2>4
    <3> QED
      BY SMT, <3>1, <3>2
  <2> QED
    BY Zenon, <2>4, <2>5, <2>7
<1>9. ASSUME NEW s \in Outputs \cup {"HSE"}, Reliable(s)
      PROVE  freq[s] = SourceRate(s)
  BY Zenon, <1>2, <1>5, <1>6, <1>9
<1> QED
  BY Zenon, <1>8, <1>9

\* What the drivers compute with is what the tree runs at, whenever sys_clock_init has returned.
THEOREM FrequenciesCorrect == Spec => []FrequenciesFollow
<1>1. Init => VariablesSet
  BY VariablesInit
<1>2. (TypeOK /\ TreeInv) /\ VariablesSet /\ [Next]_vars => VariablesSet'
  BY VariablesStep
<1>3. TypeOK /\ TreeInv /\ VariablesSet => FrequenciesFollow
  BY Follow
<1> QED
  BY <1>1, <1>2, <1>3, TreeCorrect, PTL DEF Spec

-----------------------------------------------------------------------------
(* The kernel clocks. *)

LEMMA SelectionNames ==
  /\ "TIMPRE" \notin Selections /\ "TIM_APB1" \notin Selections /\ "TIM_APB2" \notin Selections
  /\ {"ADC", "FDCAN", "DFSDM", "FMC", "OSPI12", "SDMMC", "SPI123", "SPI45", "SPI6", "SWPMI",
      "USART169A", "USART234578", "LPUART1", "RNG", "I2C123", "I2C4", "USB", "CEC",
      "LPTIM1", "LPTIM2", "LPTIM3", "MCO1", "MCO2"} = Selections
BY DEF Selections, SourcesOf

\* A field that holds what its config function chose goes with a copy of the frequency of
\* the source, as the variables have it now.
Copies ==
  \A f \in configured \ {"TIMPRE"} : kernel[f] = Copied(f, sel[f])
TimerCopies ==
  "TIMPRE" \in configured =>
    /\ sel["TIMPRE"] \in {0, 1}
    /\ kernel["TIM_APB1"] = TimFrequency("APB1", sel["TIMPRE"])
    /\ kernel["TIM_APB2"] = TimFrequency("APB2", sel["TIMPRE"])

\* sys_clock_init has cleared the fields of CFGR before the variables are final.
KernelInv ==
  /\ DOMAIN kernel = Kernels /\ sel \in [Fields -> Nat] /\ configured \subseteq Fields
  /\ pc \in {"switched", "LSI", "LSE"} => configured \cap InCFGR = {}
  /\ pc = "idle" => Copies /\ TimerCopies

LEMMA KernelInitHolds == KernelInit => KernelInv
<1> SUFFICES ASSUME KernelInit PROVE KernelInv
  OBVIOUS
<1>1. pc = "reset" /\ configured = {} /\ DOMAIN kernel = Kernels /\ sel \in [Fields -> Nat]
  BY DEF KernelInit, Init
<1> QED
  BY <1>1 DEF KernelInv

\* How far a step of the tree may go. The variables change only on the way.
LEMMA TreeMoves ==
  ASSUME Next
  PROVE  \/ pc' = pc /\ freq' = freq
         \/ /\ pc' \notin {pc, "idle"}
            /\ pc' = "switched" => pc = "switch"
            /\ pc' \in {"LSI", "LSE"} => pc \in {"switched", "LSI"}
         \/ pc = "LSE" /\ pc' = "idle"
<1>1. CASE Hardware \/ Sleep
  BY <1>1 DEF Hardware, Starts, Stops, Sleep
<1> USE DEF Go
<1>2. CASE sys_clock_init
  BY <1>2 DEF sys_clock_init
<1>3. CASE StartOscillators \/ DivideHsi \/ BackToHSI
  BY <1>3 DEF StartOscillators, DivideHsi, BackToHSI
<1>4. CASE DisablePLLs
  BY <1>4 DEF DisablePLLs, DisablePll
<1>5. CASE ConfigurePLLs \/ ConfigureDomains \/ ClearLatency
  BY <1>5 DEF ConfigurePLLs, ConfigureDomains, ClearLatency
<1>6. CASE SetLatency \/ SwitchClock \/ ConfigureHsiLsi
  BY <1>6 DEF SetLatency, SwitchClock, ConfigureHsiLsi
<1>7. CASE ConfigureBackup \/ Finish
  BY <1>7 DEF ConfigureBackup, Finish
<1> QED
  BY <1>1, <1>2, <1>3, <1>4, <1>5, <1>6, <1>7 DEF Next, Code

\* Fields that a step keeps keep their copies, if the variables stay.
LEMMA CopyKept ==
  ASSUME freq' = freq, NEW f, sel'[f] = sel[f], kernel'[f] = kernel[f],
         kernel[f] = Copied(f, sel[f])
  PROVE  (kernel[f] = Copied(f, sel[f]))'
BY DEF Copied, Frequency, Source

LEMMA TimerCopiesKept ==
  ASSUME TimerCopies, freq' = freq, "TIMPRE" \in configured' => "TIMPRE" \in configured,
         sel'["TIMPRE"] = sel["TIMPRE"],
         kernel'["TIM_APB1"] = kernel["TIM_APB1"], kernel'["TIM_APB2"] = kernel["TIM_APB2"]
  PROVE  TimerCopies'
BY DEF TimerCopies, TimFrequency

LEMMA ClockStepKernel ==
  ASSUME KernelInv, ClockStep
  PROVE  KernelInv'
<1> DEFINE cleared == ClearedBySys
<1>1. /\ Next /\ kernel' = kernel
      /\ sel' = [f \in Fields |-> IF f \in cleared THEN 0 ELSE sel[f]]
      /\ configured' = configured \ cleared
  BY DEF ClockStep, Select
<1>2. /\ pc' = pc => cleared = {}
      /\ pc = "idle" => cleared = {}
      /\ pc = "switch" /\ pc' # pc => cleared = InCFGR
      /\ pc = "LSE" /\ pc' # pc => cleared = Fields \ InCFGR
  BY DEF ClearedBySys
<1> HIDE DEF cleared
<1>3. /\ DOMAIN kernel' = Kernels /\ sel' \in [Fields -> Nat] /\ configured' \subseteq Fields
      /\ configured' \subseteq configured
  BY <1>1 DEF KernelInv
<1>4. CASE pc' = pc /\ freq' = freq
  <2>1. sel' = sel /\ configured' = configured
    BY <1>1, <1>2, <1>4 DEF KernelInv
  <2>2. pc = "idle" => Copies' /\ TimerCopies'
    <3> SUFFICES ASSUME pc = "idle" PROVE Copies' /\ TimerCopies'
      OBVIOUS
    <3>1. TimerCopies'
      BY <1>1, <1>4, <2>1, TimerCopiesKept DEF KernelInv
    <3>2. ASSUME NEW f \in configured \ {"TIMPRE"} PROVE (kernel[f] = Copied(f, sel[f]))'
      BY <1>1, <1>4, <2>1, CopyKept DEF KernelInv, Copies
    <3> QED
      BY <2>1, <3>1, <3>2 DEF Copies
  <2> QED
    BY <1>3, <1>4, <2>1, <2>2 DEF KernelInv
<1>5. CASE /\ pc' \notin {pc, "idle"}
           /\ pc' = "switched" => pc = "switch"
           /\ pc' \in {"LSI", "LSE"} => pc \in {"switched", "LSI"}
  <2>1. pc' \in {"switched", "LSI", "LSE"} => configured' \cap InCFGR = {}
    BY <1>1, <1>2, <1>3, <1>5 DEF KernelInv
  <2> QED
    BY <1>3, <1>5, <2>1 DEF KernelInv
<1>6. CASE pc = "LSE" /\ pc' = "idle"
  <2>1. configured' = {}
    BY <1>1, <1>2, <1>6 DEF KernelInv
  <2> QED
    BY <1>3, <1>6, <2>1 DEF KernelInv, Copies, TimerCopies
<1> QED
  BY <1>1, <1>4, <1>5, <1>6, TreeMoves

\* A config function that writes stored[f] to the fields f of choice, which is choice[f]
\* unless the field is spoiled, and copies the frequency of choice[f].
LEMMA ChoiceStep ==
  ASSUME KernelInv, pc = "idle", UNCHANGED vars,
         NEW choice, NEW stored, NEW spoiled \in SUBSET Fields,
         DOMAIN choice \subseteq Selections, DOMAIN stored = DOMAIN choice, "TIMPRE" \notin spoiled,
         \A f \in DOMAIN choice : stored[f] \in Nat,
         \A f \in DOMAIN choice \ spoiled : stored[f] = choice[f],
         Select(stored, spoiled), Copy(choice)
  PROVE  KernelInv'
<1>1. /\ sel' = [f \in Fields |-> IF f \in DOMAIN choice THEN stored[f]
                                  ELSE IF f \in spoiled THEN 0 ELSE sel[f]]
      /\ configured' = (configured \cup DOMAIN choice) \ spoiled
  BY Zenon DEF Select
<1>2. kernel' = [k \in Kernels |-> IF k \in DOMAIN choice THEN Copied(k, choice[k]) ELSE kernel[k]]
  BY Zenon DEF Copy, KernelInv
<1>3. pc' = "idle" /\ freq' = freq
  BY DEF vars
<1>4. Selections \subseteq Fields /\ Selections \subseteq Kernels
  BY DEF Fields, Kernels
<1>5. DOMAIN kernel' = Kernels /\ sel' \in [Fields -> Nat] /\ configured' \subseteq Fields
  <2>1. DOMAIN kernel' = Kernels
    BY <1>2
  <2>2. sel' \in [Fields -> Nat]
    BY <1>1 DEF KernelInv
  <2>3. configured' \subseteq Fields
    BY <1>1, <1>4 DEF KernelInv
  <2> QED
    BY <2>1, <2>2, <2>3
<1>6. TimerCopies'
  <2>1. /\ "TIMPRE" \in Fields \ DOMAIN choice
        /\ {"TIM_APB1", "TIM_APB2"} \subseteq Kernels \ DOMAIN choice
    BY SelectionNames DEF Fields, Kernels
  <2>2. "TIMPRE" \in configured' => "TIMPRE" \in configured
    BY <1>1, <2>1
  <2>3. sel'["TIMPRE"] = sel["TIMPRE"]
    BY <1>1, <2>1
  <2>4. kernel'["TIM_APB1"] = kernel["TIM_APB1"] /\ kernel'["TIM_APB2"] = kernel["TIM_APB2"]
    BY <1>2, <2>1
  <2> QED
    BY <1>3, <2>2, <2>3, <2>4, TimerCopiesKept DEF KernelInv
<1>7. ASSUME NEW f \in configured' \ {"TIMPRE"}
      PROVE  (kernel[f] = Copied(f, sel[f]))'
  <2>1. f \in Selections /\ f \notin spoiled /\ f \in Fields /\ f \in Kernels
    BY <1>1, <1>4, <1>5, <1>7 DEF Fields
  <2>2. CASE f \in DOMAIN choice
    <3>1. sel'[f] = choice[f]
      BY <1>1, <2>1, <2>2
    <3>2. kernel'[f] = Copied(f, choice[f])
      BY <1>2, <2>1, <2>2, Zenon
    <3> QED
      BY <1>3, <3>1, <3>2 DEF Copied, Frequency, Source
  <2>3. CASE f \notin DOMAIN choice
    <3>1. sel'[f] = sel[f]
      BY <1>1, <2>1, <2>3
    <3>2. kernel'[f] = kernel[f]
      BY <1>2, <2>1, <2>3, Zenon
    <3>3. kernel[f] = Copied(f, sel[f])
      BY <1>1, <1>7, <2>3, Zenon DEF KernelInv, Copies
    <3> QED
      BY <1>3, <3>1, <3>2, <3>3, CopyKept
  <2> QED
    BY <2>2, <2>3
<1> QED
  BY <1>3, <1>5, <1>6, <1>7 DEF KernelInv, Copies

\* One field, and groups of fields that do not spoil any.
LEMMA ConfigureStep ==
  ASSUME KernelInv, NEW f \in Selections, Configure(f)
  PROVE  KernelInv'
<1>1. PICK code \in Codes(f) :
        Select([x \in {f} |-> code], {}) /\ Copy([x \in {f} |-> code])
  BY DEF Configure
<1>2. pc = "idle" /\ UNCHANGED vars
  BY DEF Configure, Call
<1>3. code \in Nat
  BY DEF Codes
<1> DEFINE choice == [x \in {f} |-> code]
<1>4. DOMAIN choice \subseteq Selections /\ \A x \in DOMAIN choice : choice[x] \in Nat
  BY <1>3
<1>5. Select(choice, {}) /\ Copy(choice)
  BY <1>1
<1> HIDE DEF choice
<1> QED
  BY <1>2, <1>4, <1>5, ChoiceStep, Zenon

LEMMA I2CKernelStep ==
  ASSUME KernelInv, config_I2C_kernel_clocks
  PROVE  KernelInv'
<1>1. PICK c123 \in Codes("I2C123") : \E c4 \in Codes("I2C4") :
        LET choice == [I2C123 |-> c123, I2C4 |-> c4] IN Select(choice, {}) /\ Copy(choice)
  BY DEF config_I2C_kernel_clocks
<1>2. PICK c4 \in Codes("I2C4") :
        LET choice == [I2C123 |-> c123, I2C4 |-> c4] IN Select(choice, {}) /\ Copy(choice)
  BY <1>1
<1>3. pc = "idle" /\ UNCHANGED vars
  BY DEF config_I2C_kernel_clocks, Call
<1>4. c123 \in Nat /\ c4 \in Nat
  BY DEF Codes
<1> DEFINE choice == [I2C123 |-> c123, I2C4 |-> c4]
<1>5. DOMAIN choice \subseteq Selections /\ \A x \in DOMAIN choice : choice[x] \in Nat
  BY <1>4, SelectionNames
<1>6. Select(choice, {}) /\ Copy(choice)
  BY <1>2
<1> HIDE DEF choice
<1> QED
  BY <1>3, <1>5, <1>6, ChoiceStep, Zenon

LEMMA USARTKernelStep ==
  ASSUME KernelInv, config_USART_kernel_clocks
  PROVE  KernelInv'
<1>1. PICK c169A \in Codes("USART169A") :
        \E c234578 \in Codes("USART234578"), c1 \in Codes("LPUART1") :
          LET choice == [USART169A |-> c169A, USART234578 |-> c234578, LPUART1 |-> c1]
          IN Select(choice, {}) /\ Copy(choice)
  BY DEF config_USART_kernel_clocks
<1>2. PICK c234578 \in Codes("USART234578") : \E c1 \in Codes("LPUART1") :
          LET choice == [USART169A |-> c169A, USART234578 |-> c234578, LPUART1 |-> c1]
          IN Select(choice, {}) /\ Copy(choice)
  BY <1>1
<1>3. PICK c1 \in Codes("LPUART1") :
          LET choice == [USART169A |-> c169A, USART234578 |-> c234578, LPUART1 |-> c1]
          IN Select(choice, {}) /\ Copy(choice)
  BY <1>2
<1>4. pc = "idle" /\ UNCHANGED vars
  BY DEF config_USART_kernel_clocks, Call
<1>5. c169A \in Nat /\ c234578 \in Nat /\ c1 \in Nat
  BY DEF Codes
<1> DEFINE choice == [USART169A |-> c169A, USART234578 |-> c234578, LPUART1 |-> c1]
<1>6. DOMAIN choice \subseteq Selections /\ \A x \in DOMAIN choice : choice[x] \in Nat
  BY <1>5, SelectionNames
<1>7. Select(choice, {}) /\ Copy(choice)
  BY <1>3
<1> HIDE DEF choice
<1> QED
  BY <1>4, <1>6, <1>7, ChoiceStep, Zenon

\* SPI6 counts as configured only if what was ORed together is what was chosen.
LEMMA SPIKernelStep ==
  ASSUME KernelInv, config_SPI_kernel_clocks
  PROVE  KernelInv'
<1> DEFINE chosen(c123, c45, c6) == [SPI123 |-> c123, SPI45 |-> c45, SPI6 |-> c6]
           Written(c123, c45, c6) ==
             /\ Select([chosen(c123, c45, c6) EXCEPT !.SPI6 = OrCode(sel.SPI6, c6)], SpoiledBySPI(c6))
             /\ Copy(chosen(c123, c45, c6))
<1>1. PICK c123 \in Codes("SPI123") : \E c45 \in Codes("SPI45"), c6 \in Codes("SPI6") :
        Written(c123, c45, c6)
  BY DEF config_SPI_kernel_clocks
<1>2. PICK c45 \in Codes("SPI45") : \E c6 \in Codes("SPI6") : Written(c123, c45, c6)
  BY <1>1
<1>3. PICK c6 \in Codes("SPI6") : Written(c123, c45, c6)
  BY <1>2
<1>4. pc = "idle" /\ UNCHANGED vars
  BY DEF config_SPI_kernel_clocks, Call
<1>5. c123 \in Nat /\ c45 \in Nat /\ c6 \in Nat
  BY DEF Codes
<1> DEFINE code == OrCode(sel.SPI6, c6)
           choice == chosen(c123, c45, c6)
           stored == [choice EXCEPT !.SPI6 = code]
           spoiled == SpoiledBySPI(c6)
<1>6. code \in Nat
  BY DEF OrCode, Pow2
<1>7. spoiled \subseteq Fields /\ "TIMPRE" \notin spoiled /\ (code # c6 => "SPI6" \in spoiled)
  BY SelectionNames DEF SpoiledBySPI, InSRDCCIPR, Fields
<1>8. /\ DOMAIN choice \subseteq Selections /\ DOMAIN stored = DOMAIN choice
      /\ \A x \in DOMAIN choice : stored[x] \in Nat
      /\ \A x \in DOMAIN choice \ spoiled : stored[x] = choice[x]
  <2> HIDE DEF code, spoiled
  <2>1. /\ DOMAIN choice = {"SPI123", "SPI45", "SPI6"} /\ DOMAIN stored = DOMAIN choice
        /\ stored["SPI123"] = c123 /\ stored["SPI45"] = c45 /\ stored["SPI6"] = code
        /\ choice["SPI123"] = c123 /\ choice["SPI45"] = c45 /\ choice["SPI6"] = c6
    OBVIOUS
  <2> HIDE DEF choice, stored
  <2> QED
    BY <1>5, <1>6, <1>7, <2>1, SelectionNames
<1>9. Select(stored, spoiled) /\ Copy(choice)
  BY <1>3
<1> HIDE DEF choice, stored, spoiled
<1> QED
  BY <1>4, <1>7, <1>8, <1>9, ChoiceStep, Zenon

LEMMA TIMKernelStep ==
  ASSUME KernelInv, config_TIM_kernel_clocks
  PROVE  KernelInv'
<1> DEFINE chosen(c1, c2, c3) == [LPTIM1 |-> c1, LPTIM2 |-> c2, LPTIM3 |-> c3]
           Written(prescaler, c1, c2, c3) ==
             /\ Select([TIMPRE |-> prescaler, LPTIM1 |-> c1, LPTIM2 |-> c2, LPTIM3 |-> c3], {})
             /\ kernel' = [k \in DOMAIN kernel |->
                  CASE k = "TIM_APB1" -> TimFrequency("APB1", prescaler)
                    [] k = "TIM_APB2" -> TimFrequency("APB2", prescaler)
                    [] k \in DOMAIN chosen(c1, c2, c3) -> Copied(k, chosen(c1, c2, c3)[k])
                    [] OTHER -> kernel[k]]
<1>1. PICK prescaler \in {0, 1} :
        \E c1 \in Codes("LPTIM1"), c2 \in Codes("LPTIM2"), c3 \in Codes("LPTIM3") :
          Written(prescaler, c1, c2, c3)
  BY DEF config_TIM_kernel_clocks
<1>2. PICK c1 \in Codes("LPTIM1") : \E c2 \in Codes("LPTIM2"), c3 \in Codes("LPTIM3") :
        Written(prescaler, c1, c2, c3)
  BY <1>1
<1>3. PICK c2 \in Codes("LPTIM2") : \E c3 \in Codes("LPTIM3") : Written(prescaler, c1, c2, c3)
  BY <1>2
<1>4. PICK c3 \in Codes("LPTIM3") : Written(prescaler, c1, c2, c3)
  BY <1>3
<1>5. c1 \in Nat /\ c2 \in Nat /\ c3 \in Nat /\ prescaler \in Nat
  BY DEF Codes
<1> DEFINE LP == {"LPTIM1", "LPTIM2", "LPTIM3"}
           choice == chosen(c1, c2, c3)
           stored == [TIMPRE |-> prescaler, LPTIM1 |-> c1, LPTIM2 |-> c2, LPTIM3 |-> c3]
<1>6. /\ DOMAIN choice = LP /\ DOMAIN stored = LP \cup {"TIMPRE"} /\ stored["TIMPRE"] = prescaler
      /\ \A x \in LP : stored[x] = choice[x] /\ stored[x] \in Nat
  BY <1>5
<1>7. /\ Select(stored, {})
      /\ kernel' = [k \in DOMAIN kernel |->
                      CASE k = "TIM_APB1" -> TimFrequency("APB1", prescaler)
                        [] k = "TIM_APB2" -> TimFrequency("APB2", prescaler)
                        [] k \in DOMAIN choice -> Copied(k, choice[k])
                        [] OTHER -> kernel[k]]
  BY <1>4
<1> HIDE DEF choice, stored
<1>8. pc = "idle" /\ pc' = "idle" /\ freq' = freq
  BY DEF config_TIM_kernel_clocks, Call, vars
<1>9. LP \subseteq Selections /\ Selections \subseteq Fields /\ Selections \subseteq Kernels
  BY SelectionNames DEF Fields, Kernels
<1>10. /\ sel' = [f \in Fields |-> IF f \in LP \cup {"TIMPRE"} THEN stored[f] ELSE sel[f]]
       /\ configured' = configured \cup LP \cup {"TIMPRE"}
  BY <1>6, <1>7 DEF Select
<1>11. /\ DOMAIN kernel' = Kernels
       /\ kernel'["TIM_APB1"] = TimFrequency("APB1", prescaler)
       /\ kernel'["TIM_APB2"] = TimFrequency("APB2", prescaler)
       /\ \A k \in Selections :
            kernel'[k] = IF k \in LP THEN Copied(k, choice[k]) ELSE kernel[k]
  BY <1>6, <1>7, <1>9, SelectionNames DEF KernelInv, Kernels
<1>12. sel' \in [Fields -> Nat] /\ configured' \subseteq Fields
  BY <1>5, <1>6, <1>9, <1>10 DEF KernelInv, Fields
<1>13. TimerCopies'
  <2>1. sel'["TIMPRE"] = prescaler
    BY <1>6, <1>10 DEF Fields
  <2> QED
    BY <1>8, <1>11, <2>1 DEF TimerCopies, TimFrequency
<1>14. ASSUME NEW f \in configured' \ {"TIMPRE"}
       PROVE  (kernel[f] = Copied(f, sel[f]))'
  <2>1. f \in Selections /\ f \in Fields
    BY <1>12, <1>14 DEF Fields
  <2>2. CASE f \in LP
    <3>1. sel'[f] = choice[f]
      BY <1>6, <1>10, <2>1, <2>2
    <3>2. kernel'[f] = Copied(f, choice[f])
      BY <1>11, <2>1, <2>2, Zenon
    <3> QED
      BY <1>8, <3>1, <3>2 DEF Copied, Frequency, Source
  <2>3. CASE f \notin LP
    <3>1. sel'[f] = sel[f]
      BY <1>10, <1>14, <2>1, <2>3
    <3>2. kernel'[f] = kernel[f]
      BY <1>11, <2>1, <2>3, Zenon
    <3>3. kernel[f] = Copied(f, sel[f])
      <4>1. f \in configured \ {"TIMPRE"}
        BY <1>10, <1>14, <2>3, Zenon
      <4> QED
        BY <1>8, <4>1, Zenon DEF KernelInv, Copies
    <3> QED
      BY <1>8, <3>1, <3>2, <3>3, CopyKept
  <2> QED
    BY <2>2, <2>3
<1> QED
  BY <1>8, <1>11, <1>12, <1>13, <1>14 DEF KernelInv, Copies

LEMMA KernelStep ==
  ASSUME KernelInv, [KernelNext]_<<vars, kernelVars>>
  PROVE  KernelInv'
<1>1. CASE UNCHANGED <<vars, kernelVars>>
  <2>1. /\ pc' = pc /\ freq' = freq /\ sel' = sel /\ kernel' = kernel /\ configured' = configured
    BY <1>1 DEF vars, kernelVars
  <2>2. TimerCopies => TimerCopies'
    BY <2>1, TimerCopiesKept
  <2>3. Copies => Copies'
    <3> SUFFICES ASSUME Copies, NEW f \in configured \ {"TIMPRE"} PROVE (kernel[f] = Copied(f, sel[f]))'
      BY <2>1 DEF Copies
    <3> QED
      BY <2>1, CopyKept DEF Copies
  <2> QED
    BY <2>1, <2>2, <2>3 DEF KernelInv
<1>2. CASE ClockStep
  BY <1>2, ClockStepKernel
<1>3. CASE \E f \in Selections : Configure(f)
  BY <1>3, ConfigureStep
<1>4. CASE config_I2C_kernel_clocks \/ config_USART_kernel_clocks
  BY <1>4, I2CKernelStep, USARTKernelStep
<1>5. CASE config_SPI_kernel_clocks \/ config_TIM_kernel_clocks
  BY <1>5, SPIKernelStep, TIMKernelStep
<1>6. ASSUME KernelNext
      PROVE  \/ ClockStep \/ \E f \in Selections : Configure(f)
             \/ config_I2C_kernel_clocks \/ config_USART_kernel_clocks
             \/ config_SPI_kernel_clocks \/ config_TIM_kernel_clocks
  BY <1>6, SelectionNames
     DEF KernelNext, config_ADC_kernel_clock, config_FDCAN_kernel_clock, config_DFSDM_kernel_clock,
         config_FMC_kernel_clock, config_OSPI_kernel_clock, config_SDMMC_kernel_clocks,
         config_SWPMI_kernel_clock, config_RNG_kernel_clock, config_USB_kernel_clock,
         config_CEC_kernel_clock, config_MCO
<1> QED
  BY <1>1, <1>2, <1>3, <1>4, <1>5, <1>6

\* The config functions leave the tree alone: what is proved of it holds beside them.
LEMMA KernelBesideTree == KernelSpec => Spec
<1>1. KernelInit => Init
  BY DEF KernelInit
<1>2. [KernelNext]_<<vars, kernelVars>> => [Next]_vars
  BY DEF KernelNext, ClockStep, config_ADC_kernel_clock, config_FDCAN_kernel_clock,
         config_DFSDM_kernel_clock, config_FMC_kernel_clock, config_OSPI_kernel_clock,
         config_SDMMC_kernel_clocks, config_SWPMI_kernel_clock, config_RNG_kernel_clock,
         config_USB_kernel_clock, config_CEC_kernel_clock, config_MCO, config_I2C_kernel_clocks,
         config_USART_kernel_clocks, config_SPI_kernel_clocks, config_TIM_kernel_clocks,
         Configure, Call
<1> QED
  BY <1>1, <1>2, PTL DEF KernelSpec, Spec

LEMMA KernelCorrect == KernelSpec => []KernelInv
<1>1. KernelInv /\ [KernelNext]_<<vars, kernelVars>> => KernelInv'
  BY KernelStep
<1> QED
  BY <1>1, KernelInitHolds, PTL DEF KernelSpec

\* A source that can be depended on runs at what a driver would copy for it.
LEMMA SourceFollows ==
  ASSUME FrequenciesFollow, pc = "idle", SWS = config.SYS_CLK_src, NEW s, Dependable(s)
  PROVE  s # "none" /\ Frequency(s) = RateOf(s)
<1>1. /\ Domains \cap Outputs = {} /\ Domains \cap Oscillators = {} /\ Outputs \cap Oscillators = {}
      /\ (Outputs \cup {"HSE"} \cup Domains) \cap DOMAIN Constant = {}
      /\ Oscillators \ {"HSE", "HSI"} = DOMAIN Constant
      /\ "none" \notin Domains \cup Outputs \cup Oscillators
      /\ "HSE" \in Oscillators
  BY DEF Domains, Outputs, PllOf, Oscillators, Constant
<1>2. CASE s \in Domains
  <2>1. SWS = "HSI" \/ Reliable(SWS)
    BY <1>1, <1>2 DEF Dependable
  <2>2. /\ freq.SYS = SysRate /\ freq.AHB = AxiRate
        /\ freq.APB1 = ApbRate(1) /\ freq.APB2 = ApbRate(2)
        /\ freq.APB3 = ApbRate(3) /\ freq.APB4 = ApbRate(4)
    BY <2>1, Zenon DEF FrequenciesFollow
  <2>3. freq[s] = DomainRate(s)
    BY <1>2, <2>2, Zenon DEF Domains, DomainRate
  <2> QED
    BY <1>1, <1>2, <2>3, Zenon DEF Frequency, RateOf
<1>3. CASE s \in Outputs \cup {"HSE"}
  <2>1. Reliable(s)
    BY <1>1, <1>3, Zenon DEF Dependable
  <2>2. freq[s] = SourceRate(s)
    BY <1>3, <2>1, Zenon DEF FrequenciesFollow
  <2> QED
    BY <1>1, <1>3, <2>2, Zenon DEF Frequency, RateOf
<1>4. CASE s \in DOMAIN Constant
  <2>1. s \notin Outputs /\ s # "HSI" /\ s # "HSE" /\ s \notin Domains /\ s # "none"
    BY <1>1, <1>4, Zenon
  <2>2. RateOf(s) = Constant[s]
    BY <2>1, Zenon DEF RateOf, SourceRate, OscillatorRate
  <2> QED
    BY <1>4, <2>1, <2>2, Zenon DEF Frequency
<1> QED
  BY <1>1, <1>2, <1>3, <1>4, Zenon DEF Dependable

LEMMA Selected ==
  ASSUME KernelInv, FrequenciesFollow, pc = "idle", SWS = config.SYS_CLK_src
  PROVE  SelectionsFollow
<1> SUFFICES ASSUME NEW f \in configured \ {"TIMPRE"}, NEW s, s = Source(f, sel[f]), Dependable(s)
             PROVE  kernel[f] = RateOf(s)
  BY Zenon DEF SelectionsFollow
<1>1. kernel[f] = IF s = "none" THEN 0 ELSE Frequency(s)
  BY Zenon DEF KernelInv, Copies, Copied
<1>2. s # "none" /\ Frequency(s) = RateOf(s)
  BY SourceFollows, Zenon
<1> QED
  BY <1>1, <1>2, Zenon

\* The rule of the code for the timers of an APB domain is that of the hardware, if the
\* frequency can be divided by 4.
LEMMA TimerRule ==
  ASSUME NEW a \in Nat, a % 4 = 0, NEW d \in {1, 2, 4, 8, 16}, NEW m \in {2, 4}
  PROVE  (IF a \div d >= a \div 2 THEN a ELSE (a \div d) * m)
           = IF d <= m THEN a ELSE m * (a \div d)
<1>1. PICK q \in Nat : a = 4 * q
  <2>1. a \div 4 \in Nat /\ a = 4 * (a \div 4)
    OBVIOUS
  <2> QED
    BY <2>1, Zenon
<1>2. a \div 2 = 2 * q /\ a \div 4 = q /\ a \div 1 = a
  BY <1>1
<1>3. CASE d \in {1, 2}
  BY <1>1, <1>2, <1>3
<1>4. CASE d = 4
  BY <1>1, <1>2, <1>4
<1>5. CASE d \in {8, 16}
  <2>1. a \div d \in Nat /\ (q = 0 => a \div d = 0) /\ (q > 0 => a \div d < 2 * q)
    BY <1>1, <1>5
  <2> QED
    BY <1>1, <1>2, <1>5, <2>1
<1> QED
  BY <1>3, <1>4, <1>5

\* The AXI clock of every configuration can be divided by 4. Without it the code
\* rounds a timer clock down to a multiple of 4 that the hardware does not divide.
WholeTimers == \A c \in Configurations : ConfiguredAhb(c) % 4 = 0

LEMMA TimersExact ==
  ASSUME WholeTimers, TypeOK, VariablesSet, Reached, KernelInv, FrequenciesFollow,
         pc = "idle", SWS = config.SYS_CLK_src
  PROVE  TimersFollow
<1> SUFFICES ASSUME "TIMPRE" \in configured, Dependable("AHB")
             PROVE  kernel["TIM_APB1"] = TimRate(1) /\ kernel["TIM_APB2"] = TimRate(2)
  BY DEF TimersFollow
<1>1. SWS = "HSI" \/ Reliable(SWS)
  BY DEF Dependable, Domains, Outputs, PllOf, Oscillators
<1>2. freq.AHB = AxiRate /\ freq.APB1 = ApbRate(1) /\ freq.APB2 = ApbRate(2)
  BY <1>1, Zenon DEF FrequenciesFollow
<1>3. freq.AHB \in Nat /\ freq.AHB % 4 = 0
  <2>1. freq.AHB = ConfiguredAhb(config)
    <3>1. SourceWritten
      BY DEF Reached, SourceWritten, Switched, Steps
    <3>2. pc \in Prescaled
      BY DEF Prescaled, Configured
    <3> QED
      BY <3>1, <3>2, Zenon DEF VariablesSet
  <2>2. ConfiguredAhb(config) % 4 = 0
    BY Zenon DEF WholeTimers, TypeOK
  <2>3. freq.AHB \in Nat
    BY DEF TypeOK, Frequencies
  <2> QED
    BY <2>1, <2>2, <2>3, Zenon
<1>4. \A n \in {1, 2} : APB_CLK_PRE[PRE.APB[n]] \in {1, 2, 4, 8, 16}
  <2>1. \A x \in 0..7 : APB_CLK_PRE[x] \in {1, 2, 4, 8, 16}
    BY DEF APB_CLK_PRE
  <2>2. \A n \in {1, 2} : PRE.APB[n] \in 0..7
    BY DEF TypeOK
  <2> QED
    BY <2>1, <2>2, Zenon
<1> DEFINE m == IF sel["TIMPRE"] = 0 THEN 2 ELSE 4
<1>5. /\ sel["TIMPRE"] \in {0, 1}
      /\ kernel["TIM_APB1"] = TimFrequency("APB1", sel["TIMPRE"])
      /\ kernel["TIM_APB2"] = TimFrequency("APB2", sel["TIMPRE"])
  BY Zenon DEF KernelInv, TimerCopies
<1>6. m \in {2, 4} /\ m = 2 * Pow2[sel["TIMPRE"]]
  BY <1>5 DEF Pow2
<1>7. /\ kernel["TIM_APB1"] = IF freq.APB1 >= freq.AHB \div 2 THEN freq.AHB ELSE freq.APB1 * m
      /\ kernel["TIM_APB2"] = IF freq.APB2 >= freq.AHB \div 2 THEN freq.AHB ELSE freq.APB2 * m
  BY <1>5, <1>6, Zenon DEF TimFrequency
<1>8. \A n \in {1, 2} :
        TimRate(n) = IF APB_CLK_PRE[PRE.APB[n]] <= m THEN AxiRate ELSE m * ApbRate(n)
  BY Zenon DEF TimRate
<1>9. \A n \in {1, 2} : ApbRate(n) = AxiRate \div APB_CLK_PRE[PRE.APB[n]]
  BY Zenon DEF ApbRate
<1> HIDE DEF m
<1>10. ASSUME NEW n \in {1, 2}
       PROVE  (IF ApbRate(n) >= AxiRate \div 2 THEN AxiRate ELSE ApbRate(n) * m) = TimRate(n)
  <2> DEFINE d == APB_CLK_PRE[PRE.APB[n]]
  <2>1. d \in {1, 2, 4, 8, 16}
    BY <1>4
  <2>2. (IF AxiRate \div d >= AxiRate \div 2 THEN AxiRate ELSE (AxiRate \div d) * m)
           = IF d <= m THEN AxiRate ELSE m * (AxiRate \div d)
    <3> HIDE DEF d
    <3>1. AxiRate \in Nat /\ AxiRate % 4 = 0
      BY <1>2, <1>3, Zenon
    <3> QED
      BY <1>6, <2>1, <3>1, TimerRule
  <2> QED
    BY <1>8, <1>9, <2>2, Zenon
<1> QED
  BY <1>2, <1>7, <1>10, Zenon

\* Once sys_clock_init has returned, a peripheral whose selection nobody else has written
\* runs at the frequency its driver computes with.
THEOREM SelectionsCorrect ==
  KernelSpec => [](pc = "idle" /\ SWS = config.SYS_CLK_src => SelectionsFollow)
<1>1. KernelInv /\ FrequenciesFollow => (pc = "idle" /\ SWS = config.SYS_CLK_src => SelectionsFollow)
  BY Selected
<1> QED
  BY <1>1, KernelBesideTree, KernelCorrect, FrequenciesCorrect, PTL

\* And so do the timers, if the AXI clock of every configuration can be divided by 4.
THEOREM KernelsCorrect == ASSUME WholeTimers PROVE KernelSpec => []KernelFollows
<1>1. Spec => [](TypeOK /\ VariablesSet /\ Reached /\ FrequenciesFollow)
  <2>1. (TypeOK /\ TreeInv) /\ VariablesSet /\ [Next]_vars => VariablesSet'
    BY VariablesStep
  <2>2. (TypeOK /\ TreeInv) /\ Reached /\ [Next]_vars => Reached'
    BY ReachedStep
  <2> QED
    BY <2>1, <2>2, VariablesInit, ReachedInit, TreeCorrect, FrequenciesCorrect, PTL DEF Spec
<1>2. TypeOK /\ VariablesSet /\ Reached /\ FrequenciesFollow /\ KernelInv => KernelFollows
  BY Selected, TimersExact DEF KernelFollows
<1> QED
  BY <1>1, <1>2, KernelBesideTree, KernelCorrect, PTL

===============================================================================
