------------------------------ MODULE FeeFormat ------------------------------
(***************************************************************************)
(* The block table, the cluster table and what MiniFee stores in flash     *)
(* (MiniFee_Cfg.c, MiniFee_Cfg.h, MiniFee.h).                              *)
(*                                                                         *)
(* The unit of the model is the CELL: one header-sized piece of flash.  A  *)
(* cluster header and a block header take one cell each, the aligned data  *)
(* of block b takes DataCells[b] cells.  Nothing the code decides depends  *)
(* on a finer unit: it reads and writes whole headers and whole aligned    *)
(* records.                                                                *)
(***************************************************************************)
EXTENDS Integers

CONSTANTS
  BlockCount,     \* MINIFEE_BLOCK_COUNT
  DataCells,      \* DataCells[b]: MINIFEE_ALIGN_LEN(MiniFee_BlockConfig[b].Length);
                  \* 0 for an empty block
  MaxDataCells,   \* MINIFEE_MAX_BLOCK_DATA_SIZE
  ClusterCount,   \* MINIFEE_CLUSTER_COUNT
  ClusterStart,   \* ClusterStart[k]: StartAddress - MINIFEE_FLS_BASE
  ClusterLen,     \* ClusterLen[k]: Length
  GenMod,         \* 2^24: a Generation is stored in three bytes
  Value,          \* the payloads of a data cell
  Zero,           \* the payload whose bytes are all 0x00
  Erased,         \* the cell whose bytes are all 0xFF
  Torn            \* a cell whose programming or erasure was interrupted

Block   == 0 .. BlockCount - 1
Cluster == 0 .. ClusterCount - 1

\* The marks 0xFFFFFFFF of the code: no record in dirOffset, no generation.
NoRecord == -1
NoGen    == -1

ASSUME BlockAssumption ==
  /\ BlockCount \in Nat \ {0}
  /\ MaxDataCells \in Nat \ {0}
  /\ DataCells \in [Block -> 0 .. MaxDataCells]

ASSUME ClusterAssumption ==
  /\ ClusterCount \in Nat \ {0}
  /\ ClusterStart \in [Cluster -> Nat]
  /\ ClusterLen \in [Cluster -> Nat \ {0}]
  /\ GenMod \in Nat \ {0, 1}

ASSUME ValueAssumption == Zero \in Value

----------------------------------------------------------------------------
(* Cells. CRC-8 and magic are abstracted to the kind of the cell: a torn    *)
(* cell and a data cell read where a header is expected fail the check.     *)

ClusterHeader == [gen : 0 .. GenMod - 1]
BlockHeader   == [block : Block, len : 0 .. MaxDataCells]

Cell == {Erased, Torn} \cup Value \cup ClusterHeader \cup BlockHeader

\* MINIFEE_CLUSTER_HEADER_SIZE and MINIFEE_BLOCK_HEADER_SIZE
HeaderSize == 1

\* MINIFEE_BLOCK_TOTAL_OF
BlockTotal(len) == HeaderSize + len

\* PackClusterHdr keeps the three low bytes of the generation.
PackClusterHdr(gen) == [gen |-> gen % GenMod]

\* IsClusterHeaderValid, UnpackClusterHdr and the test of the magic.
ClusterHdrGen(cell) == IF cell \in ClusterHeader THEN cell.gen ELSE NoGen

PackBlockHdr(b) == [block |-> b, len |-> DataCells[b]]

IsBlockHeaderValid(cell) == cell \in BlockHeader

----------------------------------------------------------------------------
(* The data of a block, as the application sees it.                        *)

DataIdx   == 0 .. MaxDataCells - 1
Content(b) == [0 .. DataCells[b] - 1 -> Cell]

\* The first cells of a buffer, as many as block b has.
DataOf(b, buf) == [i \in 0 .. DataCells[b] - 1 |-> buf[i]]

\* What a read of a block that was never written delivers.
Zeros(b) == [i \in 0 .. DataCells[b] - 1 |-> Zero]
=============================================================================
