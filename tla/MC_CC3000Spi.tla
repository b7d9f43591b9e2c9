----------------------------- MODULE MC_CC3000Spi -----------------------------
(* The SPI driver with a few packets and writes.                           *)
EXTENDS CC3000Spi
==============================================================================
