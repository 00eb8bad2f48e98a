------------------------------- MODULE ClockTree -------------------------------
(***************************************************************************)
(* sys.c: the clock configuration, sys_clock_init, which brings the clock  *)
(* tree from whatever state it is in to the configured one, and the        *)
(* frequency variables that the drivers compute with.                      *)
(*                                                                         *)
(* The program fills sys_config in once and calls sys_clock_init out of    *)
(* reset; USB_wakeup_handler calls it again, on a tree that a sleep has    *)
(* stopped or on one that is still running.  Oscillators and PLLs start    *)
(* and stop in their own time.  A step of sys_clock_init waits for what    *)
(* the code waits for and writes up to its next wait; flash latency zero,  *)
(* in between, is a step of its own.                                       *)
(***************************************************************************)
EXTENDS Integers

CONSTANTS Configurations,   \* the contents of sys_config the program may choose
          HseRate           \* the crystal

Oscillators == {"HSI", "HSE", "CSI", "HSI48", "LSI", "LSE"}
PLLs == {"PLL1", "PLL2", "PLL3"}
PllSources == {"HSI", "CSI", "HSE"}                        \* PLL_SRC_t
SystemSources == {"HSI", "CSI", "HSE", "PLL1_P"}           \* SYS_CLK_SRC_t

\* The PLL and the divider that an output comes from.
PllOf == [PLL1_P |-> 1, PLL1_Q |-> 1, PLL1_R |-> 1, PLL2_P |-> 2, PLL2_Q |-> 2,
          PLL2_R |-> 2, PLL3_P |-> 3, PLL3_Q |-> 3, PLL3_R |-> 3]
Divider == [PLL1_P |-> "P", PLL1_Q |-> "Q", PLL1_R |-> "R", PLL2_P |-> "P", PLL2_Q |-> "Q",
            PLL2_R |-> "R", PLL3_P |-> "P", PLL3_Q |-> "Q", PLL3_R |-> "R"]
Outputs == DOMAIN PllOf
Name == <<"PLL1", "PLL2", "PLL3">>

Pow2 == [n \in 0..7 |-> <<1, 2, 4, 8, 16, 32, 64, 128>>[n + 1]]

\* What the prescaler codes and the divider of the HSI stand for, by their names.
AHB_CLK_PRE == [x \in 0..15 |-> IF x < 8 THEN 1 ELSE <<2, 4, 8, 16, 64, 128, 256, 512>>[x - 7]]
APB_CLK_PRE == [x \in 0..7 |-> IF x < 4 THEN 1 ELSE <<2, 4, 8, 16>>[x - 3]]
HSI_DIV == [x \in 0..3 |-> <<1, 2, 4, 8>>[x + 1]]

\* CORE_VOS_t, as the set of its bits that are one.
CORE_VOS_3 == {0}
CORE_VOS_2 == {1}
CORE_VOS_1 == {0, 1}

\* The table over FLASH_LATENCY_t: the fastest AXI clock, in Hz, that the flash
\* keeps up with.
MaxAxi(vos, latency) ==
  1000000 * (IF vos = CORE_VOS_1 THEN <<70, 140, 185, 225, 240>>
             ELSE IF vos = CORE_VOS_2 THEN <<55, 110, 165, 225, 240>>
             ELSE <<45, 90, 135, 180, 225>>)[latency + 1]

-----------------------------------------------------------------------------
\* The configuration.

PllConfigs == [enable : BOOLEAN, outputs : SUBSET {"P", "Q", "R"}, M : 0..63,
               P : 0..127, Q : 0..127, R : 0..127, N : 0..511]

MaxHse == 67108863   \* the field has 26 bits
ConfigType ==
  [PLL : [1..3 -> PllConfigs], PLL_src : PllSources,
   enable : SUBSET Oscillators, HSI_div : 0..3, HSE_freq : 0..MaxHse,
   RTC_src : {"DISABLED", "LSE", "LSI", "HSE"}, RTC_HSE_prescaler : 0..63,
   SYS_CLK_src : SystemSources, SYS_CLK_prescaler : 0..15,
   CORE_VOS_level : {CORE_VOS_1, CORE_VOS_2, CORE_VOS_3}, FLASH_latency : 0..4,
   AHB_prescaler : 0..15, APB_prescaler : [1..4 -> 0..7],
   PER_src : {"HSI", "CSI", "HSE", "DISABLED"}, SYSTICK_CLK_src : {0, 1}]

ASSUME ClockAssumption ==
  /\ Configurations \subseteq ConfigType
  /\ \A c \in Configurations, p \in 1..3 :
       /\ c.PLL[p].M > 0
       \* the products of the frequencies of the PLLs do not wrap
       /\ MaxHse \div c.PLL[1].M <= 2147483647 \div (c.PLL[p].N + 1)
  /\ HseRate \in Nat

MinusOne(n) == IF n = 0 THEN 0 ELSE n - 1

set_PLL_config(c, i, enable, outputs, M, P, Q, R, N) ==
  [c EXCEPT !.PLL[i] = [enable |-> enable, outputs |-> outputs, M |-> M % 64,
                        P |-> MinusOne(P) % 128, Q |-> MinusOne(Q) % 128,
                        R |-> MinusOne(R) % 128, N |-> MinusOne(N) % 512]]
set_RTC_config(c, src, prescaler) ==
  [c EXCEPT !.RTC_src = src, !.RTC_HSE_prescaler = prescaler % 64]
set_clock_config(c, enable, HSI_div, HSE_freq, PLL_src) ==
  [c EXCEPT !.enable = enable, !.HSI_div = HSI_div,
            !.HSE_freq = HSE_freq % (MaxHse + 1), !.PLL_src = PLL_src]
set_SYS_config(c, src, prescaler, level, latency) ==
  [c EXCEPT !.SYS_CLK_src = src, !.SYS_CLK_prescaler = prescaler,
            !.CORE_VOS_level = level, !.FLASH_latency = latency]
set_domain_config(c, AHB, APB1, APB2, APB3, APB4) ==
  [c EXCEPT !.AHB_prescaler = AHB, !.APB_prescaler = <<APB1, APB2, APB3, APB4>>]
set_systick_config(c, src) == [c EXCEPT !.SYSTICK_CLK_src = src]

-----------------------------------------------------------------------------
VARIABLES
  config,     \* sys_config
  pc,         \* what sys_clock_init does next; "idle" after it has returned
  on,         \* RCC_CR, CSR, BDCR: what is switched on, and
  running,    \* what says it is ready
  SWS,        \* RCC_CFGR: the source of the system clock
  HSIDIV, PLL, PRE,         \* dividers of the HSI, the PLLs and the domains
  VOS, LATENCY,             \* core voltage and flash wait states
  LOAD,       \* of SysTick
  freq        \* the *_clock_frequency variables

registers == <<on, running, SWS, HSIDIV, PLL, PRE, VOS, LATENCY, LOAD>>
vars == <<config, pc, registers, freq>>

Frequencies == Outputs \cup {"HSI", "HSE", "PER", "SYS", "AHB", "APB1", "APB2", "APB3", "APB4", "RTC"}
HsiRate == 64000000
Constant == [LSI |-> 32000, LSE |-> 32768, CSI |-> 4000000, HSI48 |-> 48000000]

Steps == {"reset", "voltage", "oscillators", "divided", "disable_PLL3", "disable_PLL2", "disable_PLL1",
          "PLL3_disabled", "PLL2_disabled", "PLL1_disabled", "configure", "lock", "prescaled",
          "latency", "switch", "switched", "LSI", "LSE", "idle"}

TypeOK ==
  /\ config \in Configurations /\ pc \in Steps
  /\ on \subseteq Oscillators \cup PLLs /\ running \subseteq Oscillators \cup PLLs
  /\ SWS \in SystemSources /\ HSIDIV \in 0..3
  /\ PLL \in [src : PllSources, pll : [1..3 -> PllConfigs]]
  /\ PRE \in [SYS : 0..15, AHB : 0..15, APB : [1..4 -> 0..7]]
  /\ VOS \in {CORE_VOS_1, CORE_VOS_2, CORE_VOS_3} /\ LATENCY \in 0..4
  /\ LOAD \in Nat /\ freq \in [Frequencies -> Nat]

ResetPll == [enable |-> FALSE, outputs |-> {}, M |-> 32, P |-> 1, Q |-> 1, R |-> 1, N |-> 128]

Init ==
  /\ config \in Configurations /\ pc = "reset"
  /\ on = {"HSI"} /\ running = {"HSI"} /\ SWS = "HSI" /\ HSIDIV = 0
  /\ PLL = [src |-> "HSI", pll |-> [p \in 1..3 |-> ResetPll]]
  /\ PRE = [SYS |-> 0, AHB |-> 0, APB |-> [n \in 1..4 |-> 0]]
  /\ VOS = CORE_VOS_3 /\ LATENCY = 3 /\ LOAD = 0
  /\ freq = [s \in Frequencies |->
               IF s \in {"HSI", "SYS", "AHB", "APB1", "APB2", "APB3", "APB4"} THEN HsiRate ELSE 0]

-----------------------------------------------------------------------------
\* The rates that the hardware runs at.

OscillatorRate(o) ==
  CASE o = "HSI" -> HsiRate \div HSI_DIV[HSIDIV]
    [] o = "HSE" -> HseRate
    [] OTHER -> Constant[o]

PllRate(o) ==
  LET p == PLL.pll[PllOf[o]]
  IN ((OscillatorRate(PLL.src) \div p.M) * (p.N + 1)) \div (p[Divider[o]] + 1)

SourceRate(s) == IF s \in Outputs THEN PllRate(s) ELSE OscillatorRate(s)
SysRate == SourceRate(SWS) \div AHB_CLK_PRE[PRE.SYS]
AxiRate == SysRate \div AHB_CLK_PRE[PRE.AHB]
ApbRate(n) == AxiRate \div APB_CLK_PRE[PRE.APB[n]]

\* An oscillator or PLL that is switched on starts, one that is switched off stops.
Starts(o) ==
  /\ o \in on \ running
  /\ o \in PLLs => PLL.src \in running
  /\ running' = running \cup {o}
  /\ UNCHANGED <<config, pc, on, SWS, HSIDIV, PLL, PRE, VOS, LATENCY, LOAD, freq>>
Stops(o) ==
  /\ o \in running \ on
  /\ running' = running \ {o}
  /\ UNCHANGED <<config, pc, on, SWS, HSIDIV, PLL, PRE, VOS, LATENCY, LOAD, freq>>
Hardware == \E o \in Oscillators \cup PLLs : Starts(o) \/ Stops(o)

\* Stop mode, left for the interrupt: the HSI runs the system again.
Sleep ==
  /\ pc = "idle" /\ SWS' = "HSI"
  /\ on' = {"HSI"} \cup (on \cap {"LSI", "LSE"})
  /\ running' = {"HSI"} \cup (running \cap {"LSI", "LSE"})
  /\ UNCHANGED <<config, pc, HSIDIV, PLL, PRE, VOS, LATENCY, LOAD, freq>>

-----------------------------------------------------------------------------
\* sys_clock_init.

Go(from, to) == pc = from /\ pc' = to /\ UNCHANGED config
Enabled(p) == config.PLL[p].enable
Assign(values) == [s \in Frequencies |-> IF s \in DOMAIN values THEN values[s] ELSE freq[s]]

\* The call.  The level is ORed into the register.
OrVoltage(level) == VOS \cup level
sys_clock_init ==
  /\ Go("reset", "voltage") \/ Go("idle", "voltage")
  /\ VOS' = OrVoltage(config.CORE_VOS_level)
  /\ UNCHANGED <<on, running, SWS, HSIDIV, PLL, PRE, LATENCY, LOAD, freq>>

\* The assignment to CR switches the PLLs off and resets HSIDIV, unless the
\* hardware holds them: a PLL that is the system clock, an HSI that drives a PLL.
HsiHeld == PLL.src = "HSI" /\ on \cap PLLs # {}
StartOscillators_NoHSI ==
  /\ Go("voltage", "oscillators")
  /\ VOS = config.CORE_VOS_level
  /\ on' = (config.enable \cap {"HSE", "CSI", "HSI48"}) \cup (on \cap {"LSI", "LSE"})
             \cup (IF SWS = "PLL1_P" THEN {"PLL1"} ELSE {"HSI"})
  /\ HSIDIV' = IF HsiHeld THEN HSIDIV ELSE 0
  /\ UNCHANGED <<running, SWS, PLL, PRE, VOS, LATENCY, LOAD, freq>>
StartOscillators ==
  /\ Go("voltage", "oscillators")
  /\ VOS = config.CORE_VOS_level
  /\ on' = (config.enable \cap {"HSE", "CSI", "HSI48"}) \cup {"HSI"} \cup (on \cap {"LSI", "LSE"})
             \cup (IF SWS = "PLL1_P" THEN {"PLL1"} ELSE {})
  /\ HSIDIV' = IF HsiHeld THEN HSIDIV ELSE 0
  /\ UNCHANGED <<running, SWS, PLL, PRE, VOS, LATENCY, LOAD, freq>>

\* HSIDIV is 0 or held at what the same configuration has set it to.
DivideHsi ==
  /\ Go("oscillators", "divided")
  /\ config.enable \cap {"HSI", "HSE", "CSI", "HSI48"} \subseteq running
  /\ HSIDIV' = IF HsiHeld THEN HSIDIV ELSE config.HSI_div
  /\ freq' = Assign([HSE |-> config.HSE_freq, HSI |-> HsiRate \div Pow2[config.HSI_div]])
  /\ UNCHANGED <<on, running, SWS, PLL, PRE, VOS, LATENCY, LOAD>>

\* A wake-up that has not slept still runs from the PLL.
BackToHSI_Skipped ==
  /\ Go("divided", "disable_PLL3")
  /\ UNCHANGED <<registers, freq>>
BackToHSI ==
  /\ Go("divided", "disable_PLL3")
  /\ IF SWS = "PLL1_P" THEN "HSI" \in running /\ SWS' = "HSI" ELSE UNCHANGED SWS
  /\ UNCHANGED <<on, running, HSIDIV, PLL, PRE, VOS, LATENCY, LOAD, freq>>

\* Only a PLL that is switched on is waited for.
DisablePll(name, disable, disabled, next) ==
  /\ \/ name \in on /\ Go(disable, disabled) /\ on' = on \ {name}
     \/ name \notin on /\ Go(disable, next) /\ UNCHANGED on
     \/ name \notin running /\ Go(disabled, next) /\ UNCHANGED on
  /\ UNCHANGED <<running, SWS, HSIDIV, PLL, PRE, VOS, LATENCY, LOAD, freq>>
DisablePLLs ==
  \/ DisablePll("PLL3", "disable_PLL3", "PLL3_disabled", "disable_PLL2")
  \/ DisablePll("PLL2", "disable_PLL2", "PLL2_disabled", "disable_PLL1")
  \/ DisablePll("PLL1", "disable_PLL1", "PLL1_disabled", "configure")

\* What the variables say of a PLL: the divider M is PLL1's for all three.
DividerM(p) == config.PLL[1].M
Input == CASE config.PLL_src = "HSI" -> freq.HSI
           [] config.PLL_src = "CSI" -> Constant.CSI
           [] OTHER -> freq.HSE
PllFrequency(o) ==
  LET p == PllOf[o]
  IN ((Input \div DividerM(p)) * (config.PLL[p].N + 1)) \div (config.PLL[p][Divider[o]] + 1)
Undivided(f) == IF config.SYS_CLK_src = "CSI" THEN Constant.CSI ELSE f[config.SYS_CLK_src]

\* Only the outputs that are enabled have their variable written.
UpdatePllFrequencies ==
  LET f == [s \in Frequencies |->
              IF s \in Outputs /\ Divider[s] \in config.PLL[PllOf[s]].outputs
              THEN PllFrequency(s) ELSE freq[s]]
  IN [f EXCEPT !.SYS = Undivided(f)]

ConfigurePLLs ==
  /\ Go("configure", "lock")
  /\ PLL' = [src |-> config.PLL_src, pll |-> config.PLL]
  /\ freq' = UpdatePllFrequencies
  /\ on' = on \cup {Name[p] : p \in {q \in 1..3 : Enabled(q)}}
  /\ UNCHANGED <<running, SWS, HSIDIV, PRE, VOS, LATENCY, LOAD>>

\* The shifts that decode the prescalers.
ShiftAHB_TwoOnly(f, x) == IF x < 8 THEN f ELSE f \div (2 * Pow2[x % 8])
ShiftAHB(f, x) == IF x < 8 THEN f ELSE f \div ((IF x < 12 THEN 2 ELSE 4) * Pow2[x % 8])
ShiftAPB(f, x) == IF x < 4 THEN f ELSE f \div (2 * Pow2[x % 4])

UpdateDomainFrequencies ==
  LET sys == ShiftAHB(freq.SYS, config.SYS_CLK_prescaler)
      ahb == ShiftAHB(sys, config.AHB_prescaler)
      apb(n) == ShiftAPB(ahb, config.APB_prescaler[n])
  IN Assign([SYS |-> sys, AHB |-> ahb,
             APB1 |-> apb(1), APB2 |-> apb(2), APB3 |-> apb(3), APB4 |-> apb(4)])

ConfigureDomains ==
  /\ Go("lock", "prescaled")
  /\ \A p \in 1..3 : Enabled(p) => Name[p] \in running
  /\ PRE' = [SYS |-> config.SYS_CLK_prescaler, AHB |-> config.AHB_prescaler,
             APB |-> config.APB_prescaler]
  /\ freq' = UpdateDomainFrequencies
  /\ UNCHANGED <<on, running, SWS, HSIDIV, PLL, VOS, LATENCY, LOAD>>

\* The flash latency goes by way of zero.
ClearLatency ==
  /\ Go("prescaled", "latency") /\ LATENCY' = 0
  /\ UNCHANGED <<on, running, SWS, HSIDIV, PLL, PRE, VOS, LOAD, freq>>
SetLatency ==
  /\ Go("latency", "switch") /\ LATENCY' = config.FLASH_latency
  /\ UNCHANGED <<on, running, SWS, HSIDIV, PLL, PRE, VOS, LOAD, freq>>

Runs(s) == IF s \in Outputs
           THEN /\ {Name[PllOf[s]], PLL.src} \subseteq running
                /\ Divider[s] \in PLL.pll[PllOf[s]].outputs
           ELSE s \in running
SwitchClock ==
  /\ Go("switch", "switched")
  /\ SWS' = config.SYS_CLK_src /\ Runs(config.SYS_CLK_src)
  /\ UNCHANGED <<on, running, HSIDIV, PLL, PRE, VOS, LATENCY, LOAD, freq>>

\* The HSI is left on when the hardware needs it.  Its variable is multiplied by
\* 1 - HSI_enable: it is zero when the HSI stays on.
HsiNeeded == SWS = "HSI" \/ (PLL.src = "HSI" /\ "PLL1" \in on)
HsiLeft_Swapped == freq.HSI * ((IF "HSI" \in config.enable THEN 1 ELSE 0) - 1)
HsiLeft == freq.HSI * (1 - IF "HSI" \in config.enable THEN 1 ELSE 0)
ConfigureHsiLsi ==
  /\ Go("switched", "LSI")
  /\ on' = (on \ {"HSI", "LSI"}) \cup (config.enable \cap {"HSI", "LSI"})
             \cup (IF HsiNeeded THEN {"HSI"} ELSE {})
  /\ freq' = Assign([HSI |-> HsiLeft])
  /\ UNCHANGED <<running, SWS, HSIDIV, PLL, PRE, VOS, LATENCY, LOAD>>

\* BDCR is protected against writing until PWR_CR1.DBP is set, which nothing does:
\* the LSE does not start.
ConfigureBackup ==
  /\ Go("LSI", "LSE")
  /\ "LSI" \in running <=> "LSI" \in config.enable
  /\ UNCHANGED <<registers, freq>>

PerFrequency(f) ==
  CASE config.PER_src = "HSI" -> f.HSI [] config.PER_src = "CSI" -> Constant.CSI
    [] config.PER_src = "HSE" -> f.HSE [] OTHER -> 0
RtcFrequency ==
  CASE config.RTC_src = "LSE" -> Constant.LSI
    [] config.RTC_src = "LSI" -> Constant.LSE
    [] config.RTC_src = "HSE" -> IF config.RTC_HSE_prescaler < 2 THEN freq.RTC
                                 ELSE freq.HSE \div config.RTC_HSE_prescaler
    [] OTHER -> 0

\* SysTick counts the AXI clock, as SYSTICK_CLK_SRC_t has it, or an eighth of it.
Ticks(n) == n \div (IF config.SYSTICK_CLK_src = 1 THEN 1 ELSE 8)
Finish ==
  /\ Go("LSE", "idle")
  /\ "LSE" \in running <=> "LSE" \in config.enable
  /\ LOAD' = (Ticks(freq.SYS) \div 2000) + 1
  /\ freq' = Assign([RTC |-> RtcFrequency, PER |-> PerFrequency(freq)])
  /\ UNCHANGED <<on, running, SWS, HSIDIV, PLL, PRE, VOS, LATENCY>>

Code ==
  \/ StartOscillators \/ DivideHsi \/ BackToHSI \/ DisablePLLs \/ ConfigurePLLs
  \/ ConfigureDomains \/ ClearLatency \/ SetLatency \/ SwitchClock
  \/ ConfigureHsiLsi \/ ConfigureBackup \/ Finish

Next == sys_clock_init \/ Code \/ Hardware \/ Sleep
Spec == Init /\ [][Next]_vars

\* The code runs on, and what is switched on or off starts or stops some time.
Fairness ==
  /\ WF_vars(Code)
  /\ \A o \in Oscillators \cup PLLs : WF_vars(Starts(o)) /\ WF_vars(Stops(o))

-----------------------------------------------------------------------------
\* Properties.

\* The table over FLASH_LATENCY_t (sys.h 108-119): at no moment, the switches in
\* between included, does the AXI clock run faster than the core voltage and the
\* flash latency of that moment allow.
FlashKeepsUp == AxiRate <= MaxAxi(VOS, LATENCY)

\* Sources whose variable can be relied on: they run, and they are neither the
\* HSI or what follows it (its variable is inverted), nor a PLL with an M of its own.
Reliable(s) ==
  /\ Runs(s) /\ s # "HSI"
  /\ s = "HSE" => config.HSE_freq = HseRate
  /\ s \in Outputs => /\ config.PLL[PllOf[s]].M = config.PLL[1].M
                      /\ PLL.src = "HSE" => config.HSE_freq = HseRate
Frequency(s) == IF s \in DOMAIN Constant THEN Constant[s] ELSE freq[s]

\* What the drivers compute with is what the tree runs at once sys_clock_init has
\* returned, out of reset, after a sleep, or over a running tree: the sources, the
\* domains, and a tick of a millisecond if the AXI clock is half the system clock.
FrequenciesFollow ==
  pc = "idle" /\ SWS = config.SYS_CLK_src =>
    /\ \A s \in Outputs \cup {"HSE"} : Reliable(s) => freq[s] = SourceRate(s)
    /\ (SWS = "HSI" \/ Reliable(SWS)) =>
         /\ freq.SYS = SysRate /\ freq.AHB = AxiRate
         /\ freq.APB1 = ApbRate(1) /\ freq.APB2 = ApbRate(2)
         /\ freq.APB3 = ApbRate(3) /\ freq.APB4 = ApbRate(4)
         /\ SysRate = 2 * AxiRate => LOAD + 1 - (Ticks(AxiRate) \div 1000) \in 1..2

\* A configuration that sys_clock_init can be done with: the level is reached by
\* ORing it into that of reset, the PLLs and the system clock have a source that is
\* switched on, and the LSE is not asked for.
Completes(c) ==
  /\ CORE_VOS_3 \cup c.CORE_VOS_level = c.CORE_VOS_level
  /\ \A p \in 1..3 : c.PLL[p].enable => c.PLL_src \in c.enable \cup {"HSI"}
  /\ c.SYS_CLK_src = "PLL1_P" => c.PLL[1].enable /\ "P" \in c.PLL[1].outputs
  /\ c.SYS_CLK_src \in c.enable \cup {"HSI", "PLL1_P"}
  /\ "LSE" \notin c.enable

\* sys_clock_init returns, whatever the tree was doing when it was called, if and
\* only if the configuration is one of those: its waits have no timeout.
InitReturns ==
  /\ Completes(config) => (pc \notin {"reset", "idle"} ~> pc = "idle")
  /\ [](~Completes(config) => pc # "idle")

=============================================================================
