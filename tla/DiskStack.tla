----------------------------- MODULE DiskStack -----------------------------
(***************************************************************************)
(* Files on disk, bottom up: the ATA driver (src/modules/driver_ata_pio),  *)
(* which writes the address of a sector into the 8-bit registers of the    *)
(* drive, the cache of sectors and the cursor over the disk of             *)
(* daemon_fatfs, which is the driver's only client and waits for each      *)
(* answer.  The FAT library on top moves the cursor, reads and writes.     *)
(***************************************************************************)
EXTENDS Integers, Sequences, SequencesExt, FiniteSetsExt

CONSTANTS
    SECTOR_SIZE,   \* bytes in a sector
    FirstSector,   \* the modelled sectors of the drive: from here
    SectorCount,   \* this many
    Bytes,         \* values of a byte
    CacheSize,     \* sectors in the cache
    MaxLength      \* longest read or write

ASSUME DiskAssumption == SECTOR_SIZE \in Nat \ {0} /\ FirstSector < 2^27 /\ CacheSize \in Nat

VARIABLES
    drive,      \* contents of the sectors of the drive
    cache,      \* DiskAccess: sectors in memory, the most recent first
    sector, offset,  \* DiskCursor
    io          \* the operation of the FAT library

diskVars == <<drive, cache, sector, offset, io>>

Sectors == FirstSector..FirstSector + SectorCount - 1
FirstByte == FirstSector * SECTOR_SIZE
Positions == FirstByte..(FirstSector + SectorCount) * SECTOR_SIZE - 1
NoIo == [kind |-> "none"]

DiskInit ==
    /\ drive \in [Sectors -> {[i \in 1..SECTOR_SIZE |-> b] : b \in Bytes}]
    /\ cache = <<>>
    /\ sector = FirstSector /\ offset = 0
    /\ io = NoIo

----------------------------------------------------------------------------
(* read_lba and write_lba: the registers that select a sector, and what    *)
(* the drive makes of them.                                                *)
lba_registers(lba) ==
    [select |-> lba \div 2^24, lba2 |-> (lba \div 2^16) % 2^8, lba1 |-> (lba \div 2^8) % 2^8,
     lba0 |-> lba % 2^8]

Selected(r) == r.select * 2^24 + r.lba2 * 2^16 + r.lba1 * 2^8 + r.lba0

(* A sector the drive does not have yields nothing.                        *)
read_lba(lba) ==
    LET s == Selected(lba_registers(lba)) IN IF s \in Sectors THEN drive[s] ELSE <<>>

write_lba(contents, lba, data) ==
    LET s == Selected(lba_registers(lba))
    IN [t \in Sectors |-> IF t = s THEN data ELSE contents[t]]

(* LruCache of the lru crate: put, and the entry of a sector.              *)
lru_put(c, s, data) ==
    LET kept == SelectSeq(c, LAMBDA e : e.sector # s)
    IN SubSeq(<<[sector |-> s, data |-> data]>> \o kept, 1, Min({CacheSize, Len(kept) + 1}))

Cached(c, s) == {c[i].data : i \in {i \in DOMAIN c : c[i].sector = s}}

(* DiskAccess::read: the data and the cache after it.                      *)
disk_read(c, s) ==
    LET data == IF Cached(c, s) # {} THEN CHOOSE d \in Cached(c, s) : TRUE ELSE read_lba(s)
    IN [data |-> data, cache |-> lru_put(c, s, data)]

(* Mutant: the cache is not told of the new data.                          *)
disk_write_around(acc, block) ==
    [drive |-> write_lba(acc.drive, acc.sector, block), cache |-> acc.cache,
     sector |-> acc.sector + 1]

(* DiskAccess::write, for one block of a longer write.                     *)
disk_write(acc, block) ==
    [drive |-> write_lba(acc.drive, acc.sector, block),
     cache |-> lru_put(acc.cache, acc.sector, block), sector |-> acc.sector + 1]

----------------------------------------------------------------------------
get_position == sector * SECTOR_SIZE + offset

set_position(position) ==
    /\ sector' = position \div SECTOR_SIZE
    /\ offset' = position % SECTOR_SIZE

move_cursor(amount) == set_position(get_position + amount)

seek(position) ==
    /\ io.kind # "panic" /\ io.kind # "reading"
    /\ set_position(position)
    /\ io' = NoIo
    /\ UNCHANGED <<drive, cache>>

read_begin(n) ==
    /\ io.kind \notin {"panic", "reading"}
    /\ io' = [kind |-> "reading", start |-> get_position, length |-> n, buf |-> <<>>]
    /\ UNCHANGED <<drive, cache, sector, offset>>

copied(data, len) == SubSeq(data, offset + 1, offset + len)

(***************************************************************************)
(* One turn of the loop of read: the slice of the sector starts at offset  *)
(* and may pass the end of the sector, which is a panic; the cursor moves  *)
(* by all that was read so far.                                            *)
(***************************************************************************)
read_turn ==
    LET r == disk_read(cache, sector)
        i == Len(io.buf)
        len == Min({i + Len(r.data), io.length}) - i
    IN /\ io.kind = "reading"
       /\ cache' = r.cache
       /\ IF r.data = <<>> \/ offset + len > SECTOR_SIZE
          THEN io' = [kind |-> "panic"] /\ UNCHANGED <<sector, offset>>
          ELSE /\ io' = [io EXCEPT !.buf = @ \o copied(r.data, len),
                                   !.kind = IF i + len = io.length THEN "read" ELSE "reading"]
               /\ move_cursor(i + len)
       /\ UNCHANGED drive

(* Mutant: what follows the data in the last sector is not kept.           *)
padded_zero(data, tail, end) ==
    IF end % SECTOR_SIZE = 0 THEN data
    ELSE data \o [i \in 1..SECTOR_SIZE - (end % SECTOR_SIZE) |-> Min(Bytes)]

padded(data, tail, end) ==
    IF end % SECTOR_SIZE = 0 THEN data ELSE data \o SubSeq(tail, (end % SECTOR_SIZE) + 1, SECTOR_SIZE)

Chunks(data) ==
    [k \in 1..Len(data) \div SECTOR_SIZE |->
        SubSeq(data, (k - 1) * SECTOR_SIZE + 1, k * SECTOR_SIZE)]

(***************************************************************************)
(* write: the first and the last sector are read, also when the data ends  *)
(* with a sector and the last one is the sector after it; the blocks are   *)
(* put together and written one by one.                                    *)
(***************************************************************************)
write(buf) ==
    LET end == get_position + Len(buf)
        first == disk_read(cache, sector)
        last == disk_read(first.cache, end \div SECTOR_SIZE)
        data == padded(SubSeq(first.data, 1, offset) \o buf, last.data, end)
        done == FoldLeft(disk_write, [drive |-> drive, cache |-> last.cache, sector |-> sector],
                         Chunks(data))
    IN /\ io.kind \notin {"panic", "reading"}
       /\ IF first.data = <<>> \/ last.data = <<>>
          THEN io' = [kind |-> "panic"] /\ UNCHANGED <<drive, cache, sector, offset>>
          ELSE /\ io' = [kind |-> "written", start |-> get_position, buf |-> buf]
               /\ drive' = done.drive /\ cache' = done.cache
               /\ move_cursor(Len(buf))

Strings == UNION {[1..n -> Bytes] : n \in 1..MaxLength}

DiskNext ==
    \/ \E p \in Positions : seek(p)
    \/ \E n \in 1..MaxLength : read_begin(n)
    \/ read_turn
    \/ \E buf \in Strings : write(buf)

DiskSpec == DiskInit /\ [][DiskNext]_diskVars
----------------------------------------------------------------------------
ByteAt(contents, p) == contents[p \div SECTOR_SIZE][(p % SECTOR_SIZE) + 1]

(***************************************************************************)
(* A sector in the cache is what the drive holds, after any sequence of    *)
(* reads and writes through the cursor.                                    *)
(***************************************************************************)
CacheCoherent ==
    \A i \in DOMAIN cache :
        /\ cache[i].sector \in Sectors => cache[i].data = drive[cache[i].sector]
        /\ \A j \in DOMAIN cache : cache[i].sector = cache[j].sector => i = j

(***************************************************************************)
(* A write changes the bytes it names and no other byte of the drive,      *)
(* wherever in the sectors it starts and ends, and leaves the cursor       *)
(* behind them.                                                            *)
(***************************************************************************)
WriteExact ==
    [][io'.kind = "written" =>
          /\ \A p \in Positions : ByteAt(drive', p) =
                 IF p \in io'.start..io'.start + Len(io'.buf) - 1
                 THEN io'.buf[p - io'.start + 1] ELSE ByteAt(drive, p)
          /\ sector' * SECTOR_SIZE + offset' = io'.start + Len(io'.buf)]_diskVars

(***************************************************************************)
(* A read inside one sector returns the bytes of the drive at the cursor   *)
(* and leaves the cursor behind them, whether the sector was cached or     *)
(* not; the cache agrees with the drive.                                   *)
(***************************************************************************)
ReadExact ==
    /\ CacheCoherent
    /\ io.kind = "read" /\ (io.start % SECTOR_SIZE) + io.length <= SECTOR_SIZE =>
        /\ io.buf = [i \in 1..io.length |-> ByteAt(drive, io.start + i - 1)]
        /\ get_position = io.start + io.length
=============================================================================
