------------------------------ MODULE DfuFlash ------------------------------
(***************************************************************************)
(* The flash side of device firmware upgrade                               *)
(* (examples/ffva/src/dfu_int/dfu_common.c), shared by the I2C and the USB *)
(* transports.  Addresses are a partition and a sector in it; the sizes    *)
(* bytes_avail and total_len count sectors.  A sector is NumFragments      *)
(* fragments of DFU_DATA_XFER_SIZE bytes.                                  *)
(***************************************************************************)
EXTENDS Integers

CONSTANTS
  NumFragments,  (* DFU_NUM_FRAGMENTS: host transfers per flash sector.      *)
  Capacity,      (* Sectors in each partition.                               *)
  ImageBlocks,   (* Fragments an upload of each partition returns.           *)
  Payload,       (* Contents of one host transfer.                           *)
  Blank,         (* Erased flash, and the zeros of a cleared buffer.         *)
  Shipped        (* What the flash holds at first.                           *)

Partition == {"factory", "upgrade", "data"}
NoBase == "none"                               \* dn_base_addr == 0

FragmentIndex == 0 .. NumFragments - 1
Sector == [FragmentIndex -> Payload \cup {Blank}]
BlankSector == [f \in FragmentIndex |-> Blank]

ASSUME FlashAssumption ==
  /\ NumFragments \in Nat \ {0}
  /\ Capacity \in [Partition -> Nat]
  /\ ImageBlocks \in [Partition -> Nat]
  /\ \A p \in Partition : ImageBlocks[p] <= Capacity[p] * NumFragments
  /\ Blank \notin Payload
  /\ DOMAIN Shipped = Partition
  /\ \A p \in Partition : Shipped[p] \in [0 .. Capacity[p] - 1 -> Sector]

VARIABLES
  dn_base_addr,  (* Partition the running download goes to, or NoBase.       *)
  bytes_avail,   (* Room in that partition, set together with dn_base_addr.  *)
  total_len,     (* What this download has written so far.                   *)
  flash,         (* The flash device: flash[p][s] is a sector.               *)
  cur_addr,      (* <<partition, sector>> of the write under way.            *)
  tmp_buf        (* The sector that write programs.                          *)

flashVars == <<dn_base_addr, bytes_avail, total_len, flash, cur_addr, tmp_buf>>

NoWrite == <<NoBase, 0>>
Address == (Partition \cup {NoBase}) \X Nat
InFlash(addr) == addr[1] \in Partition /\ addr[2] < Capacity[addr[1]]

(***************************************************************************)
(* Alternate settings as the host numbers them; 3 stands for every value   *)
(* with no partition behind it.                                            *)
(***************************************************************************)
Alternate == 0 .. 3
PartitionOf == [alt \in Alternate |->
                  CASE alt = 0 -> "factory" [] alt = 1 -> "upgrade"
                    [] alt = 2 -> "data"    [] alt = 3 -> NoBase]

Writable(alt) == alt \in {1, 2}

FlashInit ==
  /\ dn_base_addr = NoBase
  /\ bytes_avail = 0
  /\ total_len = 0
  /\ cur_addr = NoWrite
  /\ tmp_buf = BlankSector
  /\ flash = Shipped

(***************************************************************************)
(* dfu_common_write_to_flash.  The partition, and with it bytes_avail and  *)
(* total_len, is chosen only when no download is under way.                *)
(***************************************************************************)
Base(alt) == IF dn_base_addr = NoBase THEN PartitionOf[alt] ELSE dn_base_addr
Written   == IF dn_base_addr = NoBase THEN 0 ELSE total_len
Room(alt) == IF dn_base_addr = NoBase THEN Capacity[PartitionOf[alt]] ELSE bytes_avail
HasRoomOffByOne(alt) == Written <= Room(alt)

\* The difference is unsigned: it is below one sector only when it is zero.
HasRoom(alt) == Room(alt) # Written

SelectBase(alt) ==
  /\ dn_base_addr' = Base(alt)
  /\ total_len' = Written
  /\ bytes_avail' = Room(alt)

\* The default and 0 cases of the switch: nothing is written.
RefuseAlternate(alt) ==
  /\ ~Writable(alt)
  /\ UNCHANGED flashVars

\* "Insufficient space"
RefuseAddress(alt) ==
  /\ Writable(alt) /\ ~HasRoom(alt)
  /\ SelectBase(alt)
  /\ UNCHANGED <<flash, cur_addr, tmp_buf>>

\* Read-modify-erase: the data are copied, then the sector is erased ...
EraseSector(alt, block_num, data) ==
  /\ Writable(alt) /\ HasRoom(alt)
  /\ SelectBase(alt)
  /\ cur_addr' = <<Base(alt), block_num>>
  /\ tmp_buf' = data
  /\ flash' = [flash EXCEPT ![Base(alt)][block_num] = BlankSector]

\* ... and programmed, and tmp_buf is freed.
ProgramSector ==
  /\ flash' = [flash EXCEPT ![cur_addr[1]][cur_addr[2]] = tmp_buf]
  /\ total_len' = total_len + 1
  /\ cur_addr' = NoWrite /\ tmp_buf' = BlankSector
  /\ UNCHANGED <<dn_base_addr, bytes_avail>>

(***************************************************************************)
(* dfu_common_make_manifest                                                *)
(***************************************************************************)
MakeManifest ==
  /\ dn_base_addr' = NoBase
  /\ UNCHANGED <<bytes_avail, total_len, flash, cur_addr, tmp_buf>>

(***************************************************************************)
(* dfu_common_read_from_flash: a whole fragment while the block number is  *)
(* inside the image of the partition, else nothing.                        *)
(***************************************************************************)
Readable(alt, block_num) ==
  /\ PartitionOf[alt] # NoBase
  /\ block_num < ImageBlocks[PartitionOf[alt]]

BlockOf(alt, block_num) ==
  flash[PartitionOf[alt]][block_num \div NumFragments][block_num % NumFragments]

\* A reset of the chip loses the C statics; the flash keeps what it holds.
FlashReset ==
  /\ dn_base_addr' = NoBase
  /\ bytes_avail' = 0
  /\ total_len' = 0
  /\ cur_addr' = NoWrite
  /\ tmp_buf' = BlankSector
  /\ UNCHANGED flash

FlashTypeOK ==
  /\ dn_base_addr \in Partition \cup {NoBase}
  /\ bytes_avail \in Nat
  /\ total_len \in Nat
  /\ cur_addr \in Address
  /\ tmp_buf \in Sector
  /\ DOMAIN flash = Partition
  /\ \A p \in Partition : flash[p] \in [0 .. Capacity[p] - 1 -> Sector]
=============================================================================
