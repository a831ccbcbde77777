-------------------------------- MODULE Gdb ---------------------------------
(***************************************************************************)
(* How NEMU talks to QEMU: packets of the gdb protocol (tools/qemu-diff:   *)
(* protocol.c, gdb-host.c).  Replies are sequences of characters, because  *)
(* recv_packet undoes escapes and run lengths; requests carry their hex    *)
(* digits and whether they arrive intact.                                  *)
(***************************************************************************)
EXTENDS Integers, Sequences, SequencesExt

CONSTANTS
  REGS,        \* registers of isa_gdb_regs, of one byte here
  DIFFTEST_REGS, \* the first of them, which NEMU has too
  MTU          \* bytes of memory in one packet

ASSUME GdbAssumption == DIFFTEST_REGS \in 1..REGS /\ MTU \in Nat \ {0}

\* Characters.
Plus   == 43
Minus  == 45
Dollar == 36
Hash   == 35
Escape == 125
Star   == 42

isdigit(c)  == c \in 48..57
isxdigit(c) == isdigit(c) \/ c \in 97..102 \/ c \in 65..70
tolower(c)  == IF c \in 65..90 THEN c + 32 ELSE c

hex_nibble(hex) == IF isdigit(hex) THEN hex - 48 ELSE tolower(hex) - 97 + 10
hex_encode(digit) == IF digit > 9 THEN 97 + digit - 10 ELSE 48 + digit
gdb_decode_hex(msb, lsb) ==
  IF isxdigit(msb) /\ isxdigit(lsb) THEN 16 * hex_nibble(msb) + hex_nibble(lsb) ELSE 65535

\* The hex digits of a sequence of bytes, as gdb_setregs and
\* gdb_memcpy_to_qemu_small print them.
HexString(bytes) ==
  FlattenSeq([i \in 1..Len(bytes) |-> <<hex_encode(bytes[i] \div 16), hex_encode(bytes[i] % 16)>>])

\* The registers of a reply to g: two digits each, and no more of them than
\* there are.
gdb_decode_regs(reply) ==
  [i \in 1..REGS |-> gdb_decode_hex(reply[2 * i - 1], reply[2 * i])]

-----------------------------------------------------------------------------
(* recv_packet reads one character after the other.  s.mode says where it  *)
(* is; s.used counts the characters.                                       *)

Flip(c) == IF (c \div 32) % 2 = 1 THEN c - 32 ELSE c + 32   \* c ^ 0x20

Add(s, c) ==
  [s EXCEPT !.reply = Append(@, IF s.escape THEN Flip(c) ELSE c), !.escape = FALSE]

Text(s0, c) ==
  LET s == [s0 EXCEPT !.sum = (@ + c) % 256]
  IN  CASE c = Dollar -> [s EXCEPT !.reply = <<>>, !.sum = 0, !.escape = FALSE]
        [] c = Hash -> [s0 EXCEPT !.mode = "msb"]
        [] c = Escape -> [s EXCEPT !.escape = TRUE]
        [] c = Star /\ s.reply # <<>> -> [s EXCEPT !.mode = "count"]
        [] OTHER -> Add(s, c)

\* The count after a star; a character that is no count is read again, and the
\* star is itself.
Count(s, c) ==
  IF c < 29 \/ c > 126 \/ c \in {Dollar, Hash}
  THEN Text([Add(s, Star) EXCEPT !.mode = "text"], c)
  ELSE [s EXCEPT !.reply = @ \o [k \in 1..(c - 29) |-> Last(s.reply)],
                 !.sum = (@ + c) % 256, !.mode = "text"]

Read1(s0, c) ==
  LET s == IF s0.mode = "done" THEN s0 ELSE [s0 EXCEPT !.used = @ + 1]
  IN  CASE s.mode = "forward" -> IF c = Dollar THEN [s EXCEPT !.mode = "text"] ELSE s
        [] s.mode = "text" -> Text(s, c)
        [] s.mode = "count" -> Count(s, c)
        [] s.mode = "msb" -> [s EXCEPT !.mode = "lsb", !.msb = c]
        [] s.mode = "lsb" -> [s EXCEPT !.mode = "done", !.ok = s.sum = gdb_decode_hex(s.msb, c)]
        [] s.mode = "done" -> s

\* It blocks while mode is not done.
recv_packet(in) ==
  LET blank == [mode |-> "forward", reply |-> <<>>, sum |-> 0, escape |-> FALSE,
                msb |-> 0, ok |-> FALSE, used |-> 0]
      read[k \in 0..Len(in)] ==   \* p: so that TLC evaluates read[k - 1] once
        IF k = 0 THEN blank ELSE CHOOSE s \in {Read1(p, in[k]) : p \in {read[k - 1]}} : TRUE
  IN  read[Len(in)]

-----------------------------------------------------------------------------
(* The stub in QEMU (external) sends each character as it is, or escapes   *)
(* the first one, or writes runs as a count.                               *)

\* A run of c, n long, at the start of payload.
RunLength(payload) ==
  LET n == CHOOSE k \in 1..Len(payload) :
             /\ \A i \in 1..k : payload[i] = payload[1]
             /\ k = Len(payload) \/ payload[k + 1] # payload[1]
  IN  IF n > 3 /\ n \notin {7, 8}
      THEN <<payload[1], Star, 28 + n>> \o SubSeq(payload, n + 1, Len(payload))
      ELSE payload

Spellings(payload) ==
  {payload, RunLength(payload), <<Escape, Flip(payload[1])>> \o Tail(payload)}

Packet(body) ==
  LET sum[k \in 0..Len(body)] == IF k = 0 THEN 0 ELSE sum[k - 1] + body[k]
  IN  <<Dollar>> \o body \o <<Hash>> \o HexString(<<sum[Len(body)] % 256>>)

-----------------------------------------------------------------------------
(* Requests.  What arrives garbled has a checksum that does not fit.       *)

gdb_memcpy_to_qemu_small(dest, src) ==
  [op |-> "M", at |-> dest, data |-> HexString(src), intact |-> TRUE]

\* All packets but the last carry MTU bytes.
gdb_memcpy_to_qemu(dest, src) ==
  LET packets == IF Len(src) = 0 THEN 1 ELSE (Len(src) + MTU - 1) \div MTU
  IN  [k \in 1..packets |->
         gdb_memcpy_to_qemu_small(dest + (k - 1) * MTU,
           SubSeq(src, (k - 1) * MTU + 1, IF k = packets THEN Len(src) ELSE k * MTU))]

\* The answer to a packet.
Ack(ok) == [op |-> IF ok THEN "+" ELSE "-", intact |-> TRUE]

gdb_getregs == <<[op |-> "g", intact |-> TRUE]>>
gdb_setregs(r) == [op |-> "G", data |-> HexString(r), intact |-> TRUE]
gdb_si == [op |-> "s", intact |-> TRUE]
=============================================================================
