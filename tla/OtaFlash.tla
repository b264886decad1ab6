------------------------------ MODULE OtaFlash ------------------------------
(***************************************************************************)
(* The two image areas of the over-the-air upgrade, as hal_ota.c sees      *)
(* them: the downloaded image (HAL_OTA_DL) and the running code            *)
(* (HAL_OTA_RC).  An image is a function from its blocks to what the flash *)
(* holds there: the version a block belongs to, "erased", or "garbage"     *)
(* where a block was written over one that had not been erased.  A block   *)
(* stands for the words one write puts down; PageBlocks of them make a     *)
(* flash page.  The CRC of an image stands for its version: a computed CRC *)
(* equals the stored one exactly when every block is of that version and   *)
(* the file was not corrupt to begin with.                                 *)
(***************************************************************************)
EXTENDS Naturals

CONSTANTS
  Versions,    \* the versions of the image
  Corrupt,     \* those whose file does not match the CRC stored in it
  First,       \* the version the device is delivered with
  NBlocks,     \* blocks of an image
  PageBlocks,  \* blocks of a flash page
  CrcBlock     \* the block that holds the two CRC words, HAL_OTA_CRC_OSET

ASSUME OtaAssumption ==
  /\ First \in Versions \ Corrupt
  /\ Versions \cap {"erased", "garbage", "zero", "none"} = {}
  /\ NBlocks \in Nat \ {0} /\ PageBlocks \in Nat \ {0}
  /\ CrcBlock \in 0 .. (NBlocks - 1) /\ CrcBlock < PageBlocks

Blocks == 0 .. (NBlocks - 1)
Contents == Versions \cup {"erased", "garbage"}
FirstOfPage(b) == b % PageBlocks = 0
SamePage(b, c) == b \div PageBlocks = c \div PageBlocks

AllOf(v) == [b \in Blocks |-> v]

\* A flash write only clears bits.
Overwrite(old, new) == IF old \in {"erased", new} THEN new ELSE "garbage"

\* HalOTAWrite: the first block of a page erases the page.
HalOTAWrite(img, b, v) ==
  [c \in Blocks |->
     CASE c = b -> IF FirstOfPage(b) THEN v ELSE Overwrite(img[b], v)
       [] c # b /\ FirstOfPage(b) /\ SamePage(b, c) -> "erased"
       [] OTHER -> img[c]]

\* The CRC calculated over the image is the one the word c holds.
CrcMatches(img, c) ==
  /\ c \in Versions \ Corrupt
  /\ \A b \in Blocks : img[b] = c

HalOTAChkDL(img) == CrcMatches(img, img[CrcBlock])
=============================================================================
