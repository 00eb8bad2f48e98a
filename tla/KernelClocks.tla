------------------------------ MODULE KernelClocks ------------------------------
(***************************************************************************)
(* The kernel clocks of the peripherals: each config_*_kernel_clock        *)
(* selects a source in a field of a register that it shares with others,   *)
(* and copies the frequency variable of that source.  sys_clock_init,      *)
(* which ClockTree models, resets the selections and not the copies.       *)
(***************************************************************************)
EXTENDS ClockTree, Sequences

CONSTANTS Chosen,           \* the codes that callers choose, where a field has them
          Programs          \* bound: the sets of fields that are in use together

\* The sources of each field of CDCCIPR, CDCCIP1R, CDCCIP2R, SRDCCIPR and of the
\* clock outputs in CFGR, from code 0.
ADC_CLK_SRC == <<"PLL2_P", "PLL3_R", "PER">>
FDCAN_CLK_SRC == <<"HSE", "PLL1_Q", "PLL2_Q">>
DFSDM_CLK_SRC == <<"APB2", "SYS">>
FMC_CLK_SRC == <<"AHB", "PLL1_Q", "PLL2_R", "PER">>
OSPI_CLK_SRC == <<"AHB", "PLL1_Q", "PLL2_R", "PER">>
SDMMC_CLK_SRC == <<"PLL1_Q", "PLL2_R">>
SPI123_CLK_SRC == <<"PLL1_Q", "PLL2_P", "PLL3_P", "none", "PER">>
SPI456_CLK_SRC(APBx) == <<APBx, "PLL2_Q", "PLL3_Q", "HSI", "CSI", "HSE">>
SWPMI_CLK_SRC == <<"APB1", "HSI">>
USART_CLK_SRC(APBx) == <<APBx, "PLL2_Q", "PLL3_Q", "HSI", "CSI", "LSE">>
RNG_CLK_SRC == <<"HSI48", "PLL1_Q", "LSE", "LSI">>
I2C_CLK_SRC(APBx) == <<APBx, "PLL3_R", "HSI", "CSI">>
USB_CLK_SRC == <<"none", "PLL1_Q", "PLL3_Q", "HSI48">>
CEC_CLK_SRC == <<"LSE", "LSI", "CSI">>
LPTIM_CLK_SRC(APBx) == <<APBx, "PLL2_P", "PLL3_R", "LSE", "LSI", "PER">>
MCO1_SRC == <<"HSI", "LSE", "HSE", "PLL1_Q", "HSI48">>
MCO2_SRC == <<"SYS", "PLL2_P", "HSE", "PLL1_P", "CSI", "LSI">>

SourcesOf ==
  [ADC |-> ADC_CLK_SRC, FDCAN |-> FDCAN_CLK_SRC, DFSDM |-> DFSDM_CLK_SRC, FMC |-> FMC_CLK_SRC,
   OSPI12 |-> OSPI_CLK_SRC, SDMMC |-> SDMMC_CLK_SRC, SPI123 |-> SPI123_CLK_SRC,
   SPI45 |-> SPI456_CLK_SRC("APB2"), SPI6 |-> SPI456_CLK_SRC("APB4"), SWPMI |-> SWPMI_CLK_SRC,
   USART169A |-> USART_CLK_SRC("APB2"), USART234578 |-> USART_CLK_SRC("APB1"),
   LPUART1 |-> USART_CLK_SRC("APB4"), RNG |-> RNG_CLK_SRC, I2C123 |-> I2C_CLK_SRC("APB1"),
   I2C4 |-> I2C_CLK_SRC("APB4"), USB |-> USB_CLK_SRC, CEC |-> CEC_CLK_SRC,
   LPTIM1 |-> LPTIM_CLK_SRC("APB1"), LPTIM2 |-> LPTIM_CLK_SRC("APB4"),
   LPTIM3 |-> LPTIM_CLK_SRC("APB4"), MCO1 |-> MCO1_SRC, MCO2 |-> MCO2_SRC]
Selections == DOMAIN SourcesOf
Fields == Selections \cup {"TIMPRE"}
Kernels == Selections \cup {"TIM_APB1", "TIM_APB2"}

\* Fields of CFGR, and of SRDCCIPR.
InCFGR == {"TIMPRE", "MCO1", "MCO2"}
InSRDCCIPR == {"LPUART1", "I2C4", "LPTIM2", "LPTIM3", "ADC", "SPI6"}

Codes(f) == Chosen \cap (0..(Len(SourcesOf[f]) - 1))
Source(f, code) == IF code < Len(SourcesOf[f]) THEN SourcesOf[f][code + 1] ELSE "none"

\* What main fills in: PLL1 at 280 and 140 MHz and PLL2 at 100 MHz from the crystal,
\* PLL3 off; the system clock from PLL1, halved for the AXI, halved again for the APBs.
MainConfig(blank) ==
  LET plls == set_PLL_config(set_PLL_config(set_PLL_config(blank,
                1, TRUE, {"P", "Q"}, 5, 2, 4, 2, 112),
                2, TRUE, {"P", "Q", "R"}, 5, 5, 5, 5, 100),
                3, FALSE, {}, 5, 2, 4, 2, 112)
      clocks == set_clock_config(set_RTC_config(plls, "DISABLED", 0),
                  {"HSE", "HSI48"}, 0, 25000000, "HSE")
      SYS == set_SYS_config(clocks, "PLL1_P", 0, CORE_VOS_1, 3)
  IN set_systick_config(set_domain_config(SYS, 8, 4, 4, 4, 4), 1)

VARIABLES
  sel,         \* the selection fields of the RCC: a code for each
  kernel,      \* the *_kernel_frequency variables, in Hz
  configured   \* history: fields that hold what their config function chose last

kernelVars == <<sel, kernel, configured>>

KernelInit ==
  /\ Init
  /\ sel = [f \in Fields |-> 0] /\ configured = {}
  /\ kernel = [k \in Kernels |-> 0]

-----------------------------------------------------------------------------
\* The config functions, called while sys_clock_init is not running.

Copied(f, code) == IF Source(f, code) = "none" THEN 0 ELSE Frequency(Source(f, code))

\* Selects choice[f] in each field f of choice; clears the fields of spoiled.
Select(choice, spoiled) ==
  /\ sel' = [f \in Fields |-> IF f \in DOMAIN choice THEN choice[f]
                             ELSE IF f \in spoiled THEN 0 ELSE sel[f]]
  /\ configured' = (configured \cup DOMAIN choice) \ spoiled
Copy(choice) ==
  kernel' = [k \in DOMAIN kernel |-> IF k \in DOMAIN choice THEN Copied(k, choice[k]) ELSE kernel[k]]

Call(fields) ==
  /\ pc = "idle" /\ SWS = config.SYS_CLK_src
  /\ \E used \in Programs :
       fields \cup {f \in Selections : f \in configured \/ sel[f] # 0 \/ kernel[f] # 0} \subseteq used
  /\ UNCHANGED vars

Configure(f) ==
  /\ Call({f})
  /\ \E code \in Codes(f) : LET choice == [x \in {f} |-> code] IN Select(choice, {}) /\ Copy(choice)

config_ADC_kernel_clock == Configure("ADC")
config_FDCAN_kernel_clock == Configure("FDCAN")
config_DFSDM_kernel_clock == Configure("DFSDM")
config_FMC_kernel_clock == Configure("FMC")
config_OSPI_kernel_clock == Configure("OSPI12")
config_SDMMC_kernel_clocks == Configure("SDMMC")
config_SWPMI_kernel_clock == Configure("SWPMI")
config_RNG_kernel_clock == Configure("RNG")
config_USB_kernel_clock == Configure("USB")
config_CEC_kernel_clock == Configure("CEC")

\* config_MCO is told by the pin which of the two outputs it configures.
config_MCO == Configure("MCO1") \/ Configure("MCO2")

config_I2C_kernel_clocks ==
  /\ Call({"I2C123", "I2C4"})
  /\ \E c123 \in Codes("I2C123"), c4 \in Codes("I2C4") :
       LET choice == [I2C123 |-> c123, I2C4 |-> c4]
       IN Select(choice, {}) /\ Copy(choice)

config_USART_kernel_clocks ==
  /\ Call({"USART169A", "USART234578", "LPUART1"})
  /\ \E c169A \in Codes("USART169A"), c234578 \in Codes("USART234578"), c1 \in Codes("LPUART1") :
       LET choice == [USART169A |-> c169A, USART234578 |-> c234578, LPUART1 |-> c1]
       IN Select(choice, {}) /\ Copy(choice)

\* The mask of SRDCCIPR is not inverted: the old code of SPI6 stays and is ORed with
\* the new one, the other fields of the register are cleared.  The codes have three bits.
OrCode(a, b) ==
  LET bit(n) == IF (a \div Pow2[n]) % 2 = 1 \/ (b \div Pow2[n]) % 2 = 1 THEN Pow2[n] ELSE 0
  IN bit(0) + bit(1) + bit(2)
SpoiledBySPI(c6) == IF OrCode(sel.SPI6, c6) = c6 THEN InSRDCCIPR \ {"SPI6"} ELSE InSRDCCIPR
config_SPI_kernel_clocks ==
  /\ Call({"SPI123", "SPI45", "SPI6"})
  /\ \E c123 \in Codes("SPI123"), c45 \in Codes("SPI45"), c6 \in Codes("SPI6") :
       LET choice == [SPI123 |-> c123, SPI45 |-> c45, SPI6 |-> c6]
       IN /\ Select([choice EXCEPT !.SPI6 = OrCode(sel.SPI6, c6)], SpoiledBySPI(c6))
          /\ Copy(choice)

\* TIM_MUL_2 and TIM_MUL_4 are codes 0 and 1.
TimFrequency_Multiplied(apb, prescaler) == freq[apb] * (2 * Pow2[prescaler])
TimFrequency(apb, prescaler) ==
  IF freq[apb] >= freq.AHB \div 2 THEN freq.AHB ELSE freq[apb] * (2 * Pow2[prescaler])
config_TIM_kernel_clocks ==
  /\ Call({"LPTIM1", "LPTIM2", "LPTIM3"})
  /\ \E prescaler \in {0, 1}, c1 \in Codes("LPTIM1"), c2 \in Codes("LPTIM2"), c3 \in Codes("LPTIM3") :
       LET choice == [LPTIM1 |-> c1, LPTIM2 |-> c2, LPTIM3 |-> c3]
       IN /\ Select([TIMPRE |-> prescaler, LPTIM1 |-> c1, LPTIM2 |-> c2, LPTIM3 |-> c3], {})
          /\ kernel' = [k \in DOMAIN kernel |->
                          CASE k = "TIM_APB1" -> TimFrequency("APB1", prescaler)
                            [] k = "TIM_APB2" -> TimFrequency("APB2", prescaler)
                            [] k \in DOMAIN choice -> Copied(k, choice[k])
                            [] OTHER -> kernel[k]]

\* A step of the clock tree: an assignment to CFGR clears its fields, and the end of
\* sys_clock_init those of the other registers.
ClearedBySys ==
  CASE pc = "divided" /\ pc' # pc /\ SWS = "PLL1_P" -> InCFGR
    [] pc = "switch" /\ pc' # pc -> InCFGR
    [] pc = "LSE" /\ pc' # pc -> Fields \ InCFGR
    [] OTHER -> {}
ClockStep == Next /\ Select(<<>>, ClearedBySys) /\ UNCHANGED kernel

KernelNext ==
  \/ ClockStep
  \/ config_ADC_kernel_clock \/ config_FDCAN_kernel_clock \/ config_DFSDM_kernel_clock
  \/ config_FMC_kernel_clock \/ config_OSPI_kernel_clock \/ config_SDMMC_kernel_clocks
  \/ config_SWPMI_kernel_clock \/ config_RNG_kernel_clock \/ config_USB_kernel_clock
  \/ config_CEC_kernel_clock \/ config_MCO \/ config_I2C_kernel_clocks
  \/ config_USART_kernel_clocks \/ config_SPI_kernel_clocks \/ config_TIM_kernel_clocks

KernelSpec == KernelInit /\ [][KernelNext]_<<vars, kernelVars>> /\ Fairness

-----------------------------------------------------------------------------
\* Properties.

Domains == {"SYS", "AHB", "APB1", "APB2", "APB3", "APB4"}
DomainRate(s) ==
  CASE s = "SYS" -> SysRate [] s = "AHB" -> AxiRate [] s = "APB1" -> ApbRate(1)
    [] s = "APB2" -> ApbRate(2) [] s = "APB3" -> ApbRate(3) [] s = "APB4" -> ApbRate(4)
RateOf(s) == IF s \in Domains THEN DomainRate(s) ELSE SourceRate(s)
Dependable(s) ==
  CASE s \in Domains -> SWS = "HSI" \/ Reliable(SWS)
    [] s \in Outputs \cup {"HSE"} -> Reliable(s)
    [] s \in Oscillators \ {"HSE", "HSI"} -> s \in running
    [] OTHER -> FALSE

\* RCC_CFGR.TIMPRE: the kernel clock of the timers of an APB domain.
TimRate(n) ==
  IF APB_CLK_PRE[PRE.APB[n]] <= (IF sel["TIMPRE"] = 0 THEN 2 ELSE 4) THEN AxiRate
  ELSE (IF sel["TIMPRE"] = 0 THEN 2 ELSE 4) * ApbRate(n)

\* A selection holds for as long as nobody else has written it: not sys_clock_init,
\* and not another config function that shares the register.  Not so for a second
\* choice for SPI6, nor for the CSI as the source of the CEC, which is divided by 122
\* (hdmi.h 17).
SelectionsFollow ==
  \A f \in configured \ {"TIMPRE"} :
    LET s == Source(f, sel[f])
    IN Dependable(s) /\ <<f, s>> # <<"CEC", "CSI">> => kernel[f] = RateOf(s)
TimersFollow ==
  "TIMPRE" \in configured /\ Dependable("AHB") =>
    kernel["TIM_APB1"] = TimRate(1) /\ kernel["TIM_APB2"] = TimRate(2)

\* Once sys_clock_init has returned, a peripheral runs at the frequency its driver
\* computes with, and so do the timers.
KernelFollows ==
  pc = "idle" /\ SWS = config.SYS_CLK_src => SelectionsFollow /\ TimersFollow

=============================================================================
