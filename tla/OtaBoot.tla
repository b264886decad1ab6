------------------------------ MODULE OtaBoot -------------------------------
(***************************************************************************)
(* The boot loader of an upgradable device (hal_ota.c, main and dl2rc) and *)
(* a power supply that may fail between any two flash operations.         *)
(* OtaClient adds the application that fills HAL_OTA_DL.  The two CRC      *)
(* words of the running image decide: equal, the image is started;         *)
(* unequal and the first one right, the second is made equal; otherwise    *)
(* the downloaded image is copied over the running one, page by page.      *)
(***************************************************************************)
EXTENDS OtaFlash

CONSTANTS
  MaxFails,     \* bound on the power failures between two runs
  WindowFails   \* the power may also fail while both CRC words are erased

ASSUME BootAssumption == MaxFails \in Nat /\ WindowFails \in BOOLEAN

VARIABLES
  dl,       \* the downloaded image
  rc,       \* the running image
  crc,      \* OTA_crcControl.crc of the running image
  mode,     \* "run": application; "boot": main; "copy": dl2rc; "dead"
  oset,     \* the block dl2rc is at
  blank,    \* dl2rc has erased the page it is about to write
  fails     \* power failures since the application last ran

loaderVars == <<rc, crc, mode, oset, blank, fails>>
flashVars == <<dl, loaderVars>>

FlashInit ==
  /\ dl = AllOf("erased")
  /\ rc = AllOf(First) /\ crc = <<First, First>>
  /\ mode = "run" /\ oset = 0 /\ blank = FALSE /\ fails = 0
-----------------------------------------------------------------------------
(***************************************************************************)
(* What the application does to the running image.  HalOTAInvRC writes     *)
(* {0, 0xFFFF} over the CRC words, which leaves the second as it is;       *)
(* SystemReset follows.                                                    *)
(***************************************************************************)

HalOTAInvRC ==
  /\ mode = "run"
  /\ crc' = <<"zero", crc[2]>> /\ mode' = "boot"
  /\ UNCHANGED <<dl, rc, oset, blank, fails>>
-----------------------------------------------------------------------------
(***************************************************************************)
(* The boot loader.                                                        *)
(***************************************************************************)

Whole == \E v \in Versions \ Corrupt : \A b \in Blocks : rc[b] = v

Jump ==
  /\ mode = "boot" /\ crc[1] = crc[2]
  /\ mode' = IF Whole THEN "run" ELSE "dead"
  /\ oset' = 0 /\ fails' = 0
  /\ UNCHANGED <<dl, rc, crc, blank>>

RightCrc == crc[1] # "zero" /\ CrcMatches(rc, crc[1])

Validate ==
  /\ mode = "boot" /\ crc[1] # crc[2] /\ RightCrc
  /\ crc' = <<crc[1], Overwrite(crc[2], crc[1])>>
  /\ UNCHANGED <<dl, rc, mode, oset, blank, fails>>

StartCopy ==
  /\ mode = "boot" /\ crc[1] # crc[2] /\ ~RightCrc
  /\ mode' = "copy" /\ oset' = 0 /\ blank' = FALSE
  /\ UNCHANGED <<dl, rc, crc, fails>>

ErasePage ==
  /\ mode = "copy" /\ oset \in Blocks /\ FirstOfPage(oset) /\ ~blank
  /\ rc' = [b \in Blocks |-> IF SamePage(b, oset) THEN "erased" ELSE rc[b]]
  /\ crc' = IF SamePage(CrcBlock, oset) THEN <<"erased", "erased">> ELSE crc
  /\ blank' = TRUE
  /\ UNCHANGED <<dl, mode, oset, fails>>

WriteBlock ==
  /\ mode = "copy" /\ oset \in Blocks /\ (FirstOfPage(oset) => blank)
  /\ rc' = [rc EXCEPT ![oset] = Overwrite(@, dl[oset])]
  /\ crc' = IF oset = CrcBlock THEN <<dl[oset], "erased">> ELSE crc
  /\ oset' = oset + 1 /\ blank' = FALSE
  /\ UNCHANGED <<dl, mode, fails>>

EndCopy ==
  /\ mode = "copy" /\ oset = NBlocks
  /\ mode' = "boot"
  /\ UNCHANGED <<dl, rc, crc, oset, blank, fails>>

Boot == Jump \/ Validate \/ StartCopy \/ ErasePage \/ WriteBlock \/ EndCopy
-----------------------------------------------------------------------------
\* The power fails and comes back: everything but the flash is lost.
FlashPowerFail ==
  /\ mode # "dead" /\ fails < MaxFails
  /\ WindowFails \/ crc # <<"erased", "erased">>
  /\ fails' = fails + 1
  /\ mode' = "boot" /\ oset' = 0 /\ blank' = FALSE
  /\ UNCHANGED <<dl, rc, crc>>
-----------------------------------------------------------------------------
FlashTypeOK ==
  /\ dl \in [Blocks -> Contents] /\ rc \in [Blocks -> Contents]
  /\ crc \in (Contents \cup {"zero"}) \X (Contents \cup {"zero"})
  /\ oset \in 0 .. NBlocks
  /\ mode \in {"run", "boot", "copy", "dead"}
  /\ blank \in BOOLEAN /\ fails \in 0 .. MaxFails

\* The code that is started (main, dl2rc) is one whole image with a right CRC,
\* never a mixture of two or a blank page, wherever the power has failed but,
\* unless WindowFails, between the erasure of the CRC words' page and their
\* writing (hal_ota.c:173-177): with both erased, line 128 starts what is there.
RunsWholeImage == mode # "dead" /\ (mode = "run" => Whole)

\* The version the device is committed to: that of the running image as long
\* as its CRC words vouch for it, then the downloaded one.
Committed ==
  IF RightCrc \/ (crc[1] = crc[2] /\ crc[1] # "erased") THEN rc[0] ELSE dl[0]
=============================================================================
