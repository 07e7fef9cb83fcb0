------------------------------ MODULE MCSdCard ------------------------------
(***************************************************************************)
(* Instances of SdCard for TLC: block size and lengths are the real ones,  *)
(* the card has one or two sectors and UINT32 stands for 2^32.             *)
(***************************************************************************)
EXTENDS SdCard

BitBanged == {"SPI_BITBANG"}
BothBuses == {"SPI_BITBANG", "SPI_PERIPHERAL"}
SharedOps == {"write", "read", "register"}
DataOps == {"write", "read", "erase"}
AllOps == DataOps \cup {"clean", "register"}
AllFaults == {"cmd", "reject", "token", "crc"}

\* One block, short and whole, and two blocks, short and whole.
AllLengths == {1, 512, 513, 1024}
OneBlock == {1}
=============================================================================
