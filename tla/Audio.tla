------------------------------- MODULE Audio --------------------------------
(***************************************************************************)
(* The sound device of AM native (am/src/native/native-audio.c): a ring    *)
(* buffer the program fills through AM_AUDIO_PLAY and SDL's audio thread   *)
(* empties through the callback audio_play.  The two threads share sbuf    *)
(* and count without a lock; count is volatile, so each mention of it in   *)
(* the code is a memory access of its own, and `count += n' and            *)
(* `count -= n' are a load and a store with the other thread in between.   *)
(*                                                                         *)
(* A byte is represented by its place in the sequence of all bytes given   *)
(* to AM_AUDIO_PLAY since AM_AUDIO_CTRL.                                   *)
(***************************************************************************)
EXTENDS Integers, Sequences

CONSTANTS
  SBUF_SIZE_MAX,  \* length of sbuf
  PlayLens,       \* lengths the program gives to AM_AUDIO_PLAY
  StreamLens,     \* lengths SDL asks audio_play for
  MaxBytes        \* bound: bytes the program plays in all

ASSUME AudioAssumption ==
  /\ SBUF_SIZE_MAX \in Nat \ {0}
  /\ PlayLens \subseteq Nat
  /\ StreamLens \subseteq Nat \ {0}
  /\ MaxBytes \in Nat

VARIABLES
  sbuf, head, tail, count,   \* the ring
  mpc, len, nwrite, mload,   \* the program: place, arguments, the loaded count
  apc, alen, nread, aload,   \* the audio thread
  stream,                    \* ghost: the bytes the last callback copied
  written, played,           \* ghost: bytes written and played, until raced
  raced                      \* ghost: a racing access of count did harm

ring   == <<sbuf, head, tail>>
main   == <<mpc, len, nwrite, mload>>
audio  == <<apc, alen, nread, aload>>
ghosts == <<stream, written, played, raced>>
avars  == <<ring, count, main, audio, ghosts>>

Cell == 0 .. SBUF_SIZE_MAX - 1

Smaller(a, b) == IF a < b THEN a ELSE b

\* An index moved n cells on; the code copies in two parts when it wraps.
Advance(i, k) ==
  IF k + i < SBUF_SIZE_MAX THEN i + k ELSE k - (SBUF_SIZE_MAX - i)

\* The i-th cell (from 0) of a copy that starts at index start.
CellAt(start, i) ==
  IF start + i < SBUF_SIZE_MAX THEN start + i ELSE start + i - SBUF_SIZE_MAX

-----------------------------------------------------------------------------
(* The program.                                                            *)

\* __am_audio_ctrl, called once: the ring is emptied and, if SDL has an audio
\* device, its thread is started.
audio_ctrl ==
  /\ mpc = "idle"
  /\ apc = "closed"
  /\ head' = 0 /\ tail' = 0 /\ count' = 0
  /\ apc' \in {"idle", "none"}
  /\ written' = 0 /\ played' = 0 /\ stream' = <<>>
  /\ UNCHANGED <<sbuf, main, alen, nread, aload, raced>>

\* __am_audio_play up to its loop.
audio_play_begin(k) ==
  /\ mpc = "idle"
  /\ written + k <= MaxBytes
  /\ len' = k
  /\ mpc' = IF k <= SBUF_SIZE_MAX THEN "wait" ELSE "crashed"
  /\ UNCHANGED <<ring, count, nwrite, mload, audio, ghosts>>

\* Faulty: the program does not wait for room.
audio_play_wait_not ==
  /\ mpc = "wait"
  /\ mpc' = "free"
  /\ UNCHANGED <<ring, count, len, nwrite, mload, audio, ghosts>>

\* while (SBUF_SIZE_MAX - count < len);
audio_play_wait ==
  /\ mpc = "wait"
  /\ SBUF_SIZE_MAX - count >= len
  /\ mpc' = "free"
  /\ UNCHANGED <<ring, count, len, nwrite, mload, audio, ghosts>>

\* audio_write: free and nwrite.
audio_write_free ==
  /\ mpc = "free"
  /\ nwrite' = Smaller(len, SBUF_SIZE_MAX - count)
  /\ mpc' = "copy"
  /\ UNCHANGED <<ring, count, len, mload, audio, ghosts>>

\* audio_write: the copies, and head.
audio_write_copy ==
  /\ mpc = "copy"
  /\ sbuf' = [c \in Cell |->
                IF \E i \in 0 .. nwrite - 1 : CellAt(head, i) = c
                THEN IF raced THEN 0
                     ELSE written + 1 + (CHOOSE i \in 0 .. nwrite - 1 : CellAt(head, i) = c)
                ELSE sbuf[c]]
  /\ head' = Advance(head, nwrite)
  /\ written' = IF raced THEN 0 ELSE written + nwrite
  /\ mpc' = "load"
  /\ UNCHANGED <<tail, count, len, nwrite, mload, audio, stream, played, raced>>

\* audio_write: count += nwrite
audio_write_load ==
  /\ mpc = "load"
  /\ mload' = count
  /\ mpc' = "store"
  /\ UNCHANGED <<ring, count, len, nwrite, audio, ghosts>>

\* Faulty: the bytes are counted twice.
audio_write_store_twice ==
  /\ mpc = "store"
  /\ count' = mload + 2 * nwrite
  /\ mpc' = "idle"
  /\ UNCHANGED <<ring, len, nwrite, mload, audio, ghosts>>

audio_write_store ==
  /\ mpc = "store"
  /\ count' = mload + nwrite
  /\ raced' = (raced \/ count # mload)
  /\ mpc' = "idle"
  /\ UNCHANGED <<ring, len, nwrite, mload, audio, stream, written, played>>

-----------------------------------------------------------------------------
(* The audio thread: audio_play.                                           *)

\* The test `count < len', with enough bytes there.
audio_play_full(k) ==
  /\ apc = "idle"
  /\ count >= k
  /\ alen' = k
  /\ nread' = k
  /\ apc' = "copy"
  /\ UNCHANGED <<ring, count, main, aload, ghosts>>

\* The test with too few: count is read once more afterwards.
audio_play_short(k) ==
  /\ apc = "idle"
  /\ count < k
  /\ alen' = k
  /\ apc' = "second"
  /\ UNCHANGED <<ring, count, main, nread, aload, ghosts>>

\* nread = count.  The program may have added bytes since the test, and more
\* than SDL asked for: the copy then writes past SDL's buffer, of which only
\* the effect on the ring is modelled.
audio_play_nread ==
  /\ apc = "second"
  /\ nread' = count
  /\ raced' = (raced \/ count > alen)
  /\ apc' = "copy"
  /\ UNCHANGED <<ring, count, main, alen, aload, stream, written, played>>

\* Faulty: a copy that ends at the end of the ring leaves tail outside.
audio_play_copy_no_wrap ==
  /\ apc = "copy"
  /\ stream' = IF raced THEN <<>> ELSE [i \in 1 .. nread |-> sbuf[CellAt(tail, i - 1)]]
  /\ tail' = IF nread + tail <= SBUF_SIZE_MAX THEN tail + nread
                                              ELSE Advance(tail, nread)
  /\ played' = IF raced THEN 0 ELSE played + nread
  /\ apc' = "load"
  /\ UNCHANGED <<sbuf, head, count, main, alen, nread, aload, written, raced>>

\* The copies, and tail.
audio_play_copy ==
  /\ apc = "copy"
  /\ stream' = IF raced THEN <<>> ELSE [i \in 1 .. nread |-> sbuf[CellAt(tail, i - 1)]]
  /\ tail' = Advance(tail, nread)
  /\ played' = IF raced THEN 0 ELSE played + nread
  /\ apc' = "load"
  /\ UNCHANGED <<sbuf, head, count, main, alen, nread, aload, written, raced>>

\* count -= nread
audio_play_load ==
  /\ apc = "load"
  /\ aload' = count
  /\ apc' = "store"
  /\ UNCHANGED <<ring, count, main, alen, nread, ghosts>>

\* Faulty: the bytes played are not taken off.
audio_play_store_not ==
  /\ apc = "store"
  /\ apc' = "idle"
  /\ UNCHANGED <<ring, count, main, alen, nread, aload, ghosts>>

audio_play_store ==
  /\ apc = "store"
  /\ count' = aload - nread
  /\ raced' = (raced \/ count # aload)
  /\ apc' = "idle"
  /\ UNCHANGED <<ring, main, alen, nread, aload, stream, written, played>>

-----------------------------------------------------------------------------
AInit ==
  /\ sbuf = [c \in Cell |-> 0]
  /\ head = 0 /\ tail = 0 /\ count = 0
  /\ mpc = "idle" /\ len = 0 /\ nwrite = 0 /\ mload = 0
  /\ apc = "closed" /\ alen = 0 /\ nread = 0 /\ aload = 0
  /\ stream = <<>> /\ written = 0 /\ played = 0 /\ raced = FALSE

\* The program inside __am_audio_play.
Play ==
  \/ audio_play_wait
  \/ audio_write_free
  \/ audio_write_copy
  \/ audio_write_load
  \/ audio_write_store

\* SDL's thread.
Callback ==
  \/ \E k \in StreamLens : audio_play_full(k) \/ audio_play_short(k)
  \/ audio_play_nread
  \/ audio_play_copy
  \/ audio_play_load
  \/ audio_play_store

ANext ==
  \/ audio_ctrl
  \/ \E k \in PlayLens : audio_play_begin(k)
  \/ Play
  \/ Callback

ASpec == AInit /\ [][ANext]_avars

\* Both are running threads; an open SDL audio device keeps calling audio_play.
AFairSpec == ASpec /\ WF_avars(Play) /\ WF_avars(Callback)

-----------------------------------------------------------------------------
(* Properties.                                                             *)

\* Type invariant: the indexes stay inside sbuf whatever the threads do, and
\* count is a number of bytes that fits.
ATypeOK ==
  /\ sbuf \in [Cell -> Nat]
  /\ head \in Cell
  /\ tail \in Cell
  /\ count \in Int
  /\ mpc \in {"idle", "wait", "free", "copy", "load", "store", "crashed"}
  /\ len \in Nat
  /\ nwrite \in Int
  /\ mload \in Int
  /\ apc \in {"closed", "none", "idle", "second", "copy", "load", "store"}
  /\ alen \in Nat
  /\ nread \in Int
  /\ aload \in Int
  /\ written \in Nat
  /\ played \in Int
  /\ raced \in BOOLEAN

\* The unlocked updates of count may be lost, but however the two threads
\* interleave count never leaves 0 .. SBUF_SIZE_MAX: neither memcpy is ever
\* given a negative or too large size.
CountInRange ==
  /\ count \in 0 .. SBUF_SIZE_MAX
  /\ mpc \in {"copy", "load", "store"} => nwrite \in 0 .. SBUF_SIZE_MAX
  /\ apc \in {"copy", "load", "store"} => nread \in 0 .. SBUF_SIZE_MAX

\* audio_write never has to shorten what __am_audio_play gives it (which ignores
\* the number written): the room it waited for cannot shrink.
AllAccepted == mpc \in {"copy", "load", "store"} => nwrite = len

\* As long as no update of count was overwritten and none came between the two
\* reads of audio_play, SDL is given every byte once, in the order it was
\* played, and never more than it asked for.
StreamInOrder ==
  ~raced =>
    /\ \A i \in DOMAIN stream : stream[i] = played - Len(stream) + i
    /\ apc \in {"load", "store"} => Len(stream) <= alen
    /\ played <= written

\* With an open audio device AM_AUDIO_PLAY always returns, lost updates or not.
PlayReturns == (mpc = "wait" /\ apc # "none" /\ apc # "closed") ~> mpc = "idle"

=============================================================================
