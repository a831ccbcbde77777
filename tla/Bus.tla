--------------------------------- MODULE Bus --------------------------------
(***************************************************************************)
(* What a load or a store of the guest does in NEMU with devices: the      *)
(* physical memory (memory/paddr.c), the port and memory-mapped buses      *)
(* (device/io/), and the devices behind them: serial, timer, keyboard,     *)
(* VGA and audio.  The state is one record, the operators are what the     *)
(* functions of the code do to it; X86Exec executes instructions on it.    *)
(*                                                                         *)
(* All register spaces lie in one array, io_space, page after page; a map  *)
(* is found by the first byte of an access, and nothing looks at its last. *)
(***************************************************************************)
EXTENDS Rtl, Sequences, SequencesExt

CONSTANTS
  PMEM_BASE, PMEM_SIZE,   \* physical memory
  PAGE_SIZE, IO_SPACE_MAX,
  PORT_IO_SPACE_MAX,
  KEY_QUEUE_LEN,
  Devices,     \* the register spaces, in the order init_device makes them:
               \* records of name, port (-1: none), mmio and len
  VGACTL,      \* the screen's width and height, as init_vga stores them
  USEC         \* microseconds of a second

ASSUME BusAssumption ==
  /\ PMEM_BASE \in Nat /\ PMEM_SIZE \in Nat \ {0}
  /\ PAGE_SIZE \in Nat \ {0} /\ IO_SPACE_MAX \in Nat /\ PORT_IO_SPACE_MAX \in Nat
  /\ KEY_QUEUE_LEN \in Nat \ {0, 1}
  /\ USEC \in Nat \ {0} /\ VGACTL \in Nat

\* A word or part of one in an array of bytes, little end first.
Bytes(a, at, len) ==
  LET term(k) == IF k < len THEN a[at + k] * Radix(k) ELSE 0
  IN  term(0) + term(1) + term(2) + term(3)
PutBytes(a, at, x, len) ==
  [j \in DOMAIN a |-> IF at <= j /\ j < at + len THEN ByteOf(x, j - at) ELSE a[j]]

-----------------------------------------------------------------------------
(* device/io: the spaces and the maps.                                     *)

\* Faulty: the sizes are not rounded up to pages.
Rounded_exact(size) == size

\* new_space rounds up to whole pages.
Rounded(size) == ((size + PAGE_SIZE - 1) \div PAGE_SIZE) * PAGE_SIZE

\* p_space when the space of device i is asked for.
Space[i \in 1..(Len(Devices) + 1)] ==
  IF i = 1 THEN 0 ELSE Space[i - 1] + Rounded(Devices[i - 1].len)

\* assert(p_space - io_space < IO_SPACE_MAX), and add_pio_map's assertion.
init_device_succeeds ==
  /\ \A i \in 1..Len(Devices) : Space[i + 1] < IO_SPACE_MAX
  /\ \A i \in 1..Len(Devices) : Devices[i].port + Devices[i].len <= PORT_IO_SPACE_MAX

\* What init_device registers: names are distinct, keyboard and clock have one
\* and two registers of a word, the screen's size fits.  Every space but the last
\* is followed by at least three bytes up to the end of its page, and the last by
\* as many in io_space.
ASSUME DeviceAssumption ==
  /\ Len(Devices) \in Nat
  /\ \A i \in 1..Len(Devices) :
       /\ Devices[i].port \in Nat \cup {-1} /\ Devices[i].mmio \in Nat
       /\ Devices[i].len \in Nat \ {0}
  /\ \A i, j \in 1..Len(Devices) : Devices[i].name = Devices[j].name => i = j
  /\ \E i \in 1..Len(Devices) : Devices[i].name = "keyboard" /\ Devices[i].len = 4
  /\ \E i \in 1..Len(Devices) : Devices[i].name = "screen" /\ Devices[i].len >= 4
  /\ \A i \in 1..Len(Devices) : Devices[i].name = "rtc" => Devices[i].len = 8
  /\ \A i \in 1..(Len(Devices) - 1) : Devices[i].len % PAGE_SIZE \in 1..(PAGE_SIZE - 3)
  /\ init_device_succeeds
  /\ Space[Len(Devices) + 1] + 3 <= IO_SPACE_MAX

\* map_inside; find_mapid_by_addr takes the first map, 0 stands for none.
InMap(addr, low, len) == low <= addr /\ addr <= low + len - 1
fetch_mmio_map(addr) ==
  SelectInSeq(Devices, LAMBDA d : InMap(addr, d.mmio, d.len))
fetch_pio_map(addr) ==
  SelectInSeq(Devices, LAMBDA d : d.port # -1 /\ InMap(addr, d.port, d.len))

-----------------------------------------------------------------------------
(* The devices: callbacks of a map.  An assertion that fails ends NEMU.    *)

Die(b) == [b EXCEPT !.dead = TRUE]

serial_io_handler(b, i, offset, len, is_write) ==
  IF len = 1 /\ offset = 0 /\ is_write
  THEN [b EXCEPT !.tty = Append(@, b.io[Space[i]])]
  ELSE Die(b)

\* gettimeofday: b.now microseconds.
rtc_io_handler(b, i, offset, len, is_write) ==
  IF offset \notin {0, 4} THEN Die(b)
  ELSE IF is_write THEN b
  ELSE [b EXCEPT !.io = PutBytes(PutBytes(@, Space[i], b.now % USEC, 4),
                                 Space[i] + 4, b.now \div USEC, 4)]

KEY_NONE == 0
KEYDOWN_MASK == HALF \div 2

i8042_data_io_handler(b, i, offset, len, is_write) ==
  IF is_write \/ offset # 0 THEN Die(b)
  ELSE IF b.key_f # b.key_r
  THEN [b EXCEPT !.io = PutBytes(@, Space[i], b.key_queue[b.key_f], 4),
                 !.key_f = (@ + 1) % KEY_QUEUE_LEN]
  ELSE [b EXCEPT !.io = PutBytes(@, Space[i], KEY_NONE, 4)]

Queued(b, code) ==
  [b EXCEPT !.key_queue[b.key_r] = code, !.key_r = (@ + 1) % KEY_QUEUE_LEN]
KeyCode(key, is_keydown) == key + (IF is_keydown THEN KEYDOWN_MASK ELSE 0)

\* Faulty: a full ring is not noticed.
send_key_unchecked(b, key, is_keydown) ==
  IF key = KEY_NONE THEN b ELSE Queued(b, KeyCode(key, is_keydown))

\* Called by device_update while the program runs; key is KEY_NONE for a key
\* that keymap does not name.
send_key(b, key, is_keydown) ==
  IF key = KEY_NONE THEN b
  ELSE LET b1 == Queued(b, KeyCode(key, is_keydown))
       IN  [b1 EXCEPT !.dead = @ \/ b1.key_r = b1.key_f]

\* Screen and stream buffer have no callback, audio_io_handler is empty.
invoke_callback(b, i, offset, len, is_write) ==
  CASE Devices[i].name = "serial"   -> serial_io_handler(b, i, offset, len, is_write)
    [] Devices[i].name = "rtc"      -> rtc_io_handler(b, i, offset, len, is_write)
    [] Devices[i].name = "keyboard" -> i8042_data_io_handler(b, i, offset, len, is_write)
    [] OTHER -> b

-----------------------------------------------------------------------------
(* Reads return the state and the data, writes the state.                  *)

Got(b, x) == [b |-> b, x |-> x]

\* The callback has prepared the data; a whole word is read and masked.
Loaded(b, at, len) == Got(b, Bytes(b.io, at, 4) % Radix(len))

\* i is the map, or 0 (check_bound asserts it is not), low its first address.
map_read(b, addr, len, i, low) ==
  IF i = 0 THEN Got(Die(b), 0)
  ELSE Loaded(invoke_callback(b, i, addr - low[i], len, FALSE), Space[i] + addr - low[i], len)

map_write(b, addr, x, len, i, low) ==
  IF i = 0 THEN Die(b)
  ELSE invoke_callback([b EXCEPT !.io = PutBytes(@, Space[i] + addr - low[i], x, len)],
                       i, addr - low[i], len, TRUE)

mmioLow == [i \in 1..Len(Devices) |-> Devices[i].mmio]
portLow == [i \in 1..Len(Devices) |-> Devices[i].port]

in_pmem(addr) == PMEM_BASE <= addr /\ addr <= PMEM_BASE + PMEM_SIZE - 1

\* pmem_read and pmem_write do not look at the end of the access either: the
\* last bytes of b.pmem are what lies behind the array.
paddr_read(b, addr, len) ==
  IF in_pmem(addr)
  THEN Got(b, Bytes(b.pmem, addr - PMEM_BASE, len))
  ELSE map_read(b, addr, len, fetch_mmio_map(addr), mmioLow)

paddr_write(b, addr, x, len) ==
  IF in_pmem(addr)
  THEN [b EXCEPT !.pmem = PutBytes(@, addr - PMEM_BASE, x, len)]
  ELSE map_write(b, addr, x, len, fetch_mmio_map(addr), mmioLow)

\* vaddr_read and vaddr_write: x86 has no paging yet, isa_vaddr_check is OK.
vaddr_read(b, addr, len) == paddr_read(b, addr, len)
vaddr_write(b, addr, x, len) == paddr_write(b, addr, x, len)

pio_read_common(b, addr, len) ==
  IF addr + len - 1 < PORT_IO_SPACE_MAX
  THEN map_read(b, addr, len, fetch_pio_map(addr), portLow)
  ELSE Got(Die(b), 0)

pio_write_common(b, addr, x, len) ==
  IF addr + len - 1 < PORT_IO_SPACE_MAX
  THEN map_write(b, addr, x, len, fetch_pio_map(addr), portLow)
  ELSE Die(b)

\* init_mem fills the memory at random, mem being what it drew; io_space is
\* zero but for the screen's size.
BusInit(mem) ==
  LET screen == SelectInSeq(Devices, LAMBDA d : d.name = "screen")
  IN  [pmem |-> mem,
       io |-> PutBytes([k \in 0..(IO_SPACE_MAX - 1) |-> 0], Space[screen], VGACTL, 4),
       key_queue |-> [k \in 0..(KEY_QUEUE_LEN - 1) |-> 0], key_f |-> 0, key_r |-> 0,
       now |-> 0, tty |-> <<>>, dead |-> ~init_device_succeeds]
=============================================================================
