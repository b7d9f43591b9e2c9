------------------------------ MODULE PacketRead ------------------------------
(***************************************************************************)
(* How many bytes the reader clocks in for a packet (cc3000_spi.c):        *)
(* SpiReadHeader takes ten, which hold the headers, SpiReadAfterHeader the *)
(* rest that the length in the header announces, padded.  Data and events  *)
(* have headers of different sizes and are padded by different conditions. *)
(***************************************************************************)
EXTENDS Naturals

HEADER_BYTES == 5                            \* SPI_HEADER_SIZE
CC3000_HEADERS_SIZE_EVNT == HEADER_BYTES + 5
CC3000_RX_BUFFER_SIZE == 130 + 1
CC3000_SPI_RX_MAGIC_INDEX == CC3000_RX_BUFFER_SIZE - 1

DataRest(len) == IF (CC3000_HEADERS_SIZE_EVNT + len) % 2 = 0 THEN len + 1 ELSE len

\* Mutant: the byte that came with the headers is read a second time.
EventRest_AllArguments(len) ==
  IF (CC3000_HEADERS_SIZE_EVNT + len) % 2 = 1 THEN len + 1 ELSE len

\* The first byte of an event's arguments came with the headers.
EventRest(len) == LET rest == len - 1
                  IN  IF (CC3000_HEADERS_SIZE_EVNT + rest) % 2 = 1
                      THEN rest + 1 ELSE rest

SpiReadAfterHeader(type, len) == IF type = "data" THEN DataRest(len)
                                                  ELSE EventRest(len)

-----------------------------------------------------------------------------
\* A packet (external) with its SPI header: an event has a type, an opcode of
\* two bytes and a length, data a type, an opcode, two lengths, one of them of
\* two bytes.
PacketBytes(type, len) == HEADER_BYTES + (IF type = "data" THEN 5 ELSE 4) + len
ReadBytes(type, len) == CC3000_HEADERS_SIZE_EVNT + SpiReadAfterHeader(type, len)

Types == {"data", "event"}

\* The lengths a header can announce, in 16 bits and in 8.
Lengths(type) == IF type = "data" THEN 1..65535 ELSE 1..255

-----------------------------------------------------------------------------
(* Properties *)

\* Every packet is read whole with at most one byte of padding, which stays off
\* the guard byte if the packet does, so that the next packet begins where the
\* device puts it (cc3000_spi.c:411-452).
AllReadWhole ==
  \A type \in Types : \A len \in Lengths(type) :
    /\ ReadBytes(type, len) - PacketBytes(type, len) \in {0, 1}
    /\ PacketBytes(type, len) < CC3000_SPI_RX_MAGIC_INDEX
         => ReadBytes(type, len) <= CC3000_SPI_RX_MAGIC_INDEX
==============================================================================
