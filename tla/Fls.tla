--------------------------------- MODULE Fls ---------------------------------
(***************************************************************************)
(* The flash driver and its medium (Fls.c, reached through the forwarding  *)
(* layer MiniFlsIf.c).  A request is only registered: the job is executed  *)
(* by a later Fls_MainFunction, which then dereferences the buffer POINTER *)
(* it was given.  mem is the RAM those pointers lead to, a function from   *)
(* the buffers of the caller to their cells.                               *)
(***************************************************************************)
EXTENDS FeeFormat

CONSTANTS
  FlashSize,    \* FLS_SIM_SIZE_BYTES
  SectorSize,   \* FLS_SIM_SECTOR_SIZE
  Buffer,       \* the names of the buffers a pointer may lead to
  BufLen        \* the cells of the largest of them

Addr   == 0 .. FlashSize - 1
BufIdx == 0 .. BufLen - 1

ASSUME FlashAssumption ==
  /\ FlashSize \in Nat
  /\ SectorSize \in Nat \ {0}
  /\ BufLen \in Nat \ {0}
  /\ Buffer # {}

VARIABLES
  flash,       \* Fls_Sim_Memory
  mem,         \* the caller's buffers
  flsOp,       \* g_flsOp, g_flsOpOffset, g_flsOpLength, g_flsReadDst/WriteSrc
  flsStatus,   \* g_flsStatus
  flsResult    \* g_flsJobResult

flsVars == <<flash, mem, flsOp, flsStatus, flsResult>>

FlsOp == [kind : {"NONE", "READ", "WRITE", "ERASE"}, off : Nat, len : Nat,
          buf : Buffer, at : Nat]

NoOp == [kind |-> "NONE", off |-> 0, len |-> 0, buf |-> CHOOSE x \in Buffer : TRUE,
         at |-> 0]

FlsTypeOK ==
  /\ flash \in [Addr -> Cell]
  /\ mem \in [Buffer -> [BufIdx -> Cell]]
  /\ flsOp \in FlsOp
  /\ flsStatus \in {"IDLE", "BUSY"}
  /\ flsResult \in {"OK", "PENDING", "FAILED"}

\* The state Fls_Init leaves, on a medium that holds image.
FlsInit(image) ==
  /\ flash = image
  /\ flsOp = NoOp
  /\ flsStatus = "IDLE"
  /\ flsResult = "OK"

\* A medium that was never used.
Blank == [a \in Addr |-> Erased]

----------------------------------------------------------------------------
(* Requests                                                                *)

RangeOk(off, len) == off <= FlashSize /\ len <= FlashSize - off

\* Fls_Sim_Accept: is the request registered or refused?
Accepts(op) ==
  /\ flsStatus # "BUSY"
  /\ op.len # 0
  /\ RangeOk(op.off, op.len)
  /\ op.kind = "ERASE" => op.off % SectorSize = 0 /\ op.len % SectorSize = 0

ReadOp(off, buf, at, len)  == [kind |-> "READ", off |-> off, len |-> len, buf |-> buf, at |-> at]
WriteOp(off, buf, at, len) == [kind |-> "WRITE", off |-> off, len |-> len, buf |-> buf, at |-> at]
EraseOp(off, len)          == [NoOp EXCEPT !.kind = "ERASE", !.off = off, !.len = len]

\* Fls_Read, Fls_Write and Fls_Erase: a refused request changes nothing.
Request(op) ==
  IF Accepts(op)
  THEN /\ flsOp' = op
       /\ flsStatus' = "BUSY"
       /\ flsResult' = "PENDING"
  ELSE UNCHANGED <<flsOp, flsStatus, flsResult>>

----------------------------------------------------------------------------
(* Execution                                                               *)

InOp(a) == a \in flsOp.off .. flsOp.off + flsOp.len - 1

\* The cell a write job finds at its source pointer for address a, now.
Source(a) == mem[flsOp.buf][flsOp.at + a - flsOp.off]

\* Programming turns 1 bits into 0 bits and never back.
Programmable(old, new) == old = Erased \/ new = old \/ new = Zero

Violates == \E a \in Addr : InOp(a) /\ ~Programmable(flash[a], Source(a))

\* The medium after the job in flight has been executed.
Executed ==
  CASE flsOp.kind = "ERASE" -> [a \in Addr |-> IF InOp(a) THEN Erased ELSE flash[a]]
    [] flsOp.kind = "WRITE" /\ ~Violates ->
         [a \in Addr |-> IF InOp(a) THEN Source(a) ELSE flash[a]]
    [] OTHER -> flash

ReadBack ==
  [mem EXCEPT ![flsOp.buf] =
     [i \in BufIdx |-> IF i \in flsOp.at .. flsOp.at + flsOp.len - 1
                       THEN flash[flsOp.off + i - flsOp.at] ELSE @[i]]]

\* One cycle of the driver: it executes the whole job (Fls_Sim_Execute).
Fls_MainFunction ==
  /\ flsStatus = "BUSY"
  /\ flash' = Executed
  /\ mem' = IF flsOp.kind = "READ" THEN ReadBack ELSE mem
  /\ flsResult' = IF flsOp.kind = "WRITE" /\ Violates THEN "FAILED" ELSE "OK"
  /\ flsOp' = NoOp
  /\ flsStatus' = "IDLE"

----------------------------------------------------------------------------
(* The medium's faults: a job stopped part way.  The RAM simulation has     *)
(* none; MEMIF_JOB_FAILED and the loss of power are what the layers above   *)
(* are written for.                                                        *)

\* The first n cells of the job are done, the next one is torn.
Cut(n) ==
  LET done == Executed
  IN  [a \in Addr |-> IF ~InOp(a) \/ a > flsOp.off + n THEN flash[a]
                      ELSE IF a = flsOp.off + n THEN Torn
                      ELSE done[a]]

Interrupted ==
  {flash} \cup (IF flsOp.kind \in {"WRITE", "ERASE"}
                THEN {Cut(n) : n \in 0 .. flsOp.len - 1} ELSE {})

\* The job ends with MEMIF_JOB_FAILED.
Fls_JobFails ==
  /\ flsStatus = "BUSY"
  /\ flash' \in Interrupted
  /\ flsResult' = "FAILED"
  /\ flsOp' = NoOp
  /\ flsStatus' = "IDLE"
  /\ UNCHANGED mem

\* Fls_Init after the first: the medium keeps its contents, the job is dropped.
Fls_Reinit ==
  /\ flsOp' = NoOp
  /\ flsStatus' = "IDLE"
  /\ flsResult' = "OK"
=============================================================================
