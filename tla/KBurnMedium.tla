---------------------------- MODULE KBurnMedium ----------------------------
(***************************************************************************)
(* The kburn storage medium abstraction (drivers/kburn/): write and erase  *)
(* of the three back ends -- block devices (kburn_mmc.c), SPI NOR          *)
(* (kburn_sf.c) and SPI NAND (kburn_mtd.c) -- as operators on the content  *)
(* of one medium.                                                          *)
(*                                                                         *)
(* Offsets and lengths are counted in units of a scaled byte: the ratios   *)
(* between block, page, erase-unit and USB buffer sizes are kept, their    *)
(* magnitudes are not. A medium is a function from cell to what the cell   *)
(* holds: a position of the host's download stream (a natural number), or  *)
(* one of the markers Old (content from before the session), Blank         *)
(* (erased) and Garbage (bytes the driver wrote that the host never sent,  *)
(* or a NAND page programmed without an erase before it).                  *)
(*                                                                         *)
(* Every operator returns Result(rc, len, cells): rc the C return code     *)
(* (Hang for a loop of the driver that   never exits), len the value the   *)
(* driver leaves in *len, cells the content afterwards.                    *)
(***************************************************************************)
EXTENDS Integers

CONSTANTS
  Cap,        \* capacity of each medium, in units
  MmcBlk,     \* desc->blksz of the block devices
  SfPage,     \* flash->page_size of the SPI NOR
  SfErase,    \* flash->erase_size of the SPI NOR
  MtdPage,    \* mtd->writesize of the SPI NAND
  MtdErase,   \* mtd->erasesize of the SPI NAND
  BadBlocks,  \* erase blocks of the SPI NAND for which mtd_block_isbad holds
  Old, Blank, Garbage, Hang

ASSUME /\ Cap \in Nat \ {0}
       /\ \A g \in {MmcBlk, SfPage, SfErase, MtdPage, MtdErase} :
              g \in Nat \ {0} /\ Cap % g = 0
       /\ SfErase % SfPage = 0 /\ MtdErase % MtdPage = 0
       /\ BadBlocks \subseteq 0 .. (Cap \div MtdErase) - 1

Cells == 0 .. Cap - 1

Markers == {Old, Blank, Garbage}

AlignUp(x, a) == ((x + a - 1) \div a) * a

IsMultiple(x, a) == x % a = 0

Result(rc, len, cells) == [rc |-> rc, len |-> len, cells |-> cells]

(* The content c with the n cells from `from` on replaced by F(i), i the   *)
(* index of the cell within the range.                                     *)
Fill(c, from, n, F(_)) ==
  [u \in Cells |-> IF from <= u /\ u < from + n THEN F(u - from) ELSE c[u]]

(***************************************************************************)
(* Block devices: mmc_op. The length is rounded up to whole blocks, and    *)
(* the value left in *len is the rounded one; the offset is divided down   *)
(* to a block number without a check that it is aligned. The blocks past   *)
(* the data come from the rest of the transfer buffer: Garbage. lba is     *)
(* desc->lba of the bound device.                                          *)
(***************************************************************************)
(* Mutation of MmcOp: blk_count one block too large. *)
MmcOpExtraBlock(op, c, lba, off, data, len) ==
  LET alen == AlignUp(len, MmcBlk) + MmcBlk
  IN  IF off \div MmcBlk + alen \div MmcBlk > lba THEN Result(4, alen, c)
      ELSE Result(0, alen, Fill(c, (off \div MmcBlk) * MmcBlk, alen,
                                LAMBDA i : IF op = "erase" THEN Blank
                                           ELSE IF i < len THEN data[i] ELSE Garbage))

MmcOp(op, c, lba, off, data, len) ==
  LET alen  == AlignUp(len, MmcBlk)
      start == off \div MmcBlk
      cnt   == alen \div MmcBlk
  IN  IF start + cnt > lba
        THEN Result(4, alen, c)
      ELSE IF op = "write"
        THEN Result(0, alen, Fill(c, start * MmcBlk, alen,
                                  LAMBDA i : IF i < len THEN data[i] ELSE Garbage))
      ELSE Result(0, alen, Fill(c, start * MmcBlk, alen, LAMBDA i : Blank))

(***************************************************************************)
(* SPI NOR: spi_flash_erase, called by sf_erase_medium and sf_write_medium.*)
(* The SPI NOR core refuses a length that is not a whole number of erase   *)
(* units or that runs past the end, and erases the unit holding each of    *)
(* off, off + SfErase, ...                                                 *)
(***************************************************************************)
(* Mutation of SfEraseOp: one erase unit past the range is erased. *)
SfEraseOpExtraUnit(c, off, len) ==
  IF ~IsMultiple(len, SfErase) \/ off + len > Cap THEN Result(-1, len, c)
  ELSE Result(0, len, [u \in Cells |-> IF off <= u /\ u < off + len + SfErase
                                         THEN Blank ELSE c[u]])

SfEraseOp(c, off, len) ==
  IF ~IsMultiple(len, SfErase) \/ off + len > Cap
    THEN Result(-1, len, c)
    ELSE LET units == {(off + k * SfErase) \div SfErase : k \in 0 .. (len \div SfErase) - 1}
         IN  Result(0, len, [u \in Cells |-> IF u \div SfErase \in units THEN Blank ELSE c[u]])

(* sf_write_medium: offset on an erase unit, length on a page, erase the   *)
(* range, then program it (pages that are all 0xFF are skipped, which      *)
(* leaves the same content as programming them).                          *)
(* Mutation of SfWrite: the spi_flash_erase before programming dropped;  *)
(* NOR programming over unerased cells leaves neither old nor new bytes.   *)
SfWriteNoErase(c, off, data, len) ==
  IF ~IsMultiple(off, SfErase) \/ ~IsMultiple(len, SfPage) THEN Result(-1, len, c)
  ELSE Result(0, len, Fill(c, off, len,
                           LAMBDA i : IF c[off + i] = Blank THEN data[i] ELSE Garbage))

SfWrite(c, off, data, len) ==
  IF ~IsMultiple(off, SfErase) \/ ~IsMultiple(len, SfPage)
    THEN Result(-1, len, c)
    ELSE LET e == SfEraseOp(c, off, len)
         IN  IF e.rc # 0 THEN Result(-1, len, c)
                         ELSE Result(0, len, Fill(e.cells, off, len, LAMBDA i : data[i]))

(***************************************************************************)
(* SPI NAND: mtd_erase_medium. Offset and length on erase blocks; a bad    *)
(* block answers -EIO and is skipped without extending the range; a block *)
(* past the end answers -EINVAL, which ends the loop with an error after   *)
(* the blocks before it were erased.                                       *)
(***************************************************************************)
NBlocks == Cap \div MtdErase

MtdEraseOp(c, off, len) ==
  IF ~IsMultiple(off, MtdErase) \/ ~IsMultiple(len, MtdErase)
    THEN Result(-1, len, c)
    ELSE LET blocks == {b \in (off \div MtdErase) .. ((off + len) \div MtdErase) - 1 :
                          b < NBlocks /\ b \notin BadBlocks}
         IN  Result(IF (off + len) \div MtdErase > NBlocks THEN -1 ELSE 0, len,
                    [u \in Cells |-> IF u \div MtdErase \in blocks THEN Blank ELSE c[u]])

(* mtd_block_isbad: also non-zero (-EINVAL) for an offset past the end.    *)
MtdIsBad(off) == off >= Cap \/ off \div MtdErase \in BadBlocks

(* Programming a page: a NAND cell takes the data only if it was erased.   *)
Program(c, off, data, i) ==
  Fill(c, off, MtdPage, LAMBDA k : IF c[off + k] = Blank THEN data[i + k] ELSE Garbage)

(* "Search for the first good block after the given offset": -1 when the  *)
(* loop never ends because every block from off on, and past the end, is  *)
(* reported bad.                                                           *)
RECURSIVE MtdFirstGood(_)
MtdFirstGood(off) ==
  IF off >= Cap THEN -1
  ELSE IF MtdIsBad(off) THEN MtdFirstGood(off + MtdErase)
  ELSE off

(* The page loop of mtd_write_medium, placing data[i .. len-1] from off:   *)
(* a bad block met on a block boundary is skipped, and the data goes on    *)
(* into the next good block, past the range that was erased.              *)
RECURSIVE MtdPages(_, _, _, _, _)
MtdPages(c, off, data, i, len) ==
  IF i >= len THEN Result(0, len, c)
  ELSE IF off >= Cap THEN Result(Hang, len, c)
  ELSE IF IsMultiple(off, MtdErase) /\ MtdIsBad(off)
    THEN MtdPages(c, off + MtdErase, data, i, len)
  ELSE MtdPages(Program(c, off, data, i), off + MtdPage, data, i + MtdPage, len)

MtdWrite(c, off, data, len) ==
  IF ~IsMultiple(off, MtdPage) \/ ~IsMultiple(len, MtdPage)
    THEN Result(-1, len, c)
    ELSE LET e     == MtdEraseOp(c, off, len)
             start == MtdFirstGood(off)
         IN  IF e.rc # 0 THEN Result(-1, len, e.cells)
             ELSE IF start < 0 THEN Result(Hang, len, e.cells)
             ELSE MtdPages(e.cells, start, data, 0, len)

=============================================================================
