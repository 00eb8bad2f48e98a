------------------------------- MODULE MCClocks -------------------------------
(***************************************************************************)
(* Instances of KernelClocks for TLC: the configuration main chooses and   *)
(* others that take the other branches of sys_clock_init.                  *)
(***************************************************************************)
EXTENDS KernelClocks

NoPll == [enable |-> FALSE, outputs |-> {}, M |-> 1, P |-> 0, Q |-> 0, R |-> 0, N |-> 0]

Blank ==
  [PLL |-> <<NoPll, NoPll, NoPll>>, PLL_src |-> "HSI", enable |-> {}, HSI_div |-> 0,
   HSE_freq |-> 0, RTC_src |-> "DISABLED", RTC_HSE_prescaler |-> 0, SYS_CLK_src |-> "HSI",
   SYS_CLK_prescaler |-> 0, CORE_VOS_level |-> CORE_VOS_3, FLASH_latency |-> 0,
   AHB_prescaler |-> 0, APB_prescaler |-> <<0, 0, 0, 0>>, PER_src |-> "HSI",
   SYSTICK_CLK_src |-> 0]

Main == MainConfig(Blank)

\* PLL1 from the divided HSI, PLL3 with an M of its own.
FromHsi ==
  LET pll1 == set_PLL_config(Blank, 1, TRUE, {"P", "R"}, 8, 2, 1, 3, 100)
      pll3 == set_PLL_config(pll1, 3, TRUE, {"Q", "R"}, 4, 4, 5, 6, 50)
      clocks == set_clock_config(set_RTC_config(pll3, "LSI", 0), {"HSI", "LSI"}, 1, 25000000, "HSI")
  IN set_domain_config(set_SYS_config(clocks, "PLL1_P", 0, CORE_VOS_1, 1), 8, 0, 4, 5, 6)

\* The crystal, divided by 4 and 64; PLL2 and PLL3 run beside it.
FromCrystal ==
  LET pll1 == set_PLL_config(Blank, 1, FALSE, {}, 5, 0, 0, 0, 0)
      pll2 == set_PLL_config(pll1, 2, TRUE, {"P"}, 5, 10, 0, 0, 80)
      pll3 == set_PLL_config(pll2, 3, TRUE, {"Q", "R"}, 5, 4, 4, 8, 64)
      clocks == set_clock_config(set_RTC_config(pll3, "HSE", 25), {"HSE", "CSI"}, 2, 25000000, "HSE")
      SYS == set_SYS_config(clocks, "HSE", 9, CORE_VOS_1, 0)
  IN set_systick_config(set_domain_config(SYS, 12, 7, 6, 5, 4), 1)

\* The reference of PLL2 is switched off at the end.
LosesReference ==
  LET pll1 == set_PLL_config(Blank, 1, FALSE, {}, 8, 0, 0, 0, 0)
      pll2 == set_PLL_config(pll1, 2, TRUE, {"Q"}, 8, 10, 4, 0, 80)
      clocks == set_clock_config(pll2, {"HSE"}, 0, 24000000, "HSI")
  IN set_domain_config(set_SYS_config(clocks, "HSE", 0, CORE_VOS_1, 2), 0, 0, 0, 0, 0)

FromCsi ==
  LET clocks == set_clock_config(Blank, {"CSI", "HSI48"}, 0, 25000000, "CSI")
  IN set_domain_config(set_SYS_config(clocks, "CSI", 8, CORE_VOS_3, 0), 0, 0, 0, 0, 0)

\* Those that sys_clock_init waits in for ever.
Endless ==
  LET Over(clocks, src, level) == set_SYS_config(clocks, src, 0, level, 4)
      Clocks(enable, src) == set_clock_config(Main, enable, 0, 25000000, src)
  IN {Over(Main, "PLL1_P", CORE_VOS_2),
      Over(Clocks({"HSE", "LSE"}, "HSE"), "PLL1_P", CORE_VOS_1),
      Over(Clocks({"HSI48"}, "HSE"), "HSI", CORE_VOS_1),
      Over(Main, "CSI", CORE_VOS_1),
      Over(set_PLL_config(Main, 1, TRUE, {"Q"}, 5, 2, 4, 2, 112), "PLL1_P", CORE_VOS_1)}

Various == {Main, FromHsi, FromCrystal, LosesReference, FromCsi} \cup Endless

\* Every peripheral alone, what main uses, and those that share SRDCCIPR.
LPTIM == {"LPTIM1", "LPTIM2", "LPTIM3"}
SPI == {"SPI123", "SPI45", "SPI6"}
USART == {"USART169A", "USART234578", "LPUART1"}
I2C == {"I2C123", "I2C4"}
Sharing ==
  {{f} : f \in Selections} \cup
  {{"RNG", "OSPI12", "USB"}, USART, LPTIM, SPI \cup {"ADC"}, I2C}

\* The lowest core voltage, at which 64 MHz take one wait state.
LowVoltage == {set_SYS_config(Blank, "HSI", 0, CORE_VOS_3, 1)}

=============================================================================
