----------------------------- MODULE AudioProofs ----------------------------
(***************************************************************************)
(* Proofs about Audio, for every size of the ring and all lengths: types,  *)
(* CountInRange and AllAccepted hold however the two threads interleave.   *)
(*                                                                         *)
(* The argument is that each thread moves count one way only.  What the    *)
(* program loaded is never below count (the audio thread may have taken    *)
(* bytes off since), so its store does not lower count; what the audio     *)
(* thread loaded is never above count, so its store does not raise it.     *)
(* Hence the room the program waited for does not shrink and the bytes the *)
(* audio thread saw do not go away before they are accounted for.          *)
(***************************************************************************)
EXTENDS Audio, TLAPS

\* What the program relies on between its test of count and its store.
MainInv ==
  /\ mpc = "wait" => len <= SBUF_SIZE_MAX
  /\ mpc = "free" => len <= SBUF_SIZE_MAX - count
  /\ mpc \in {"copy", "load", "store"} =>
       nwrite = len /\ nwrite <= SBUF_SIZE_MAX - count
  /\ mpc = "store" => count <= mload /\ mload + nwrite <= SBUF_SIZE_MAX

\* What the audio thread relies on.
AudioInv ==
  /\ apc \in {"copy", "load"} => 0 <= nread /\ nread <= count
  /\ apc = "store" => 0 <= nread /\ nread <= aload /\ aload <= count

AInv ==
  /\ ATypeOK
  /\ count \in 0 .. SBUF_SIZE_MAX
  /\ MainInv
  /\ AudioInv

\* Moving an index of the ring by at most the ring's length (both copies of
\* the wrap-around in audio_play and audio_write) gives an index of the ring.
LEMMA AdvanceInRing ==
  ASSUME NEW i \in Cell, NEW k \in 0 .. SBUF_SIZE_MAX
  PROVE  Advance(i, k) \in Cell
BY AudioAssumption DEF Advance, Cell

\* The ring is initially empty and both threads are outside the device.
LEMMA AInitInv == AInit => AInv
<1> SUFFICES ASSUME AInit PROVE AInv
  OBVIOUS
<1>1. 0 \in Cell /\ 0 \in Nat /\ 0 \in Int /\ 0 \in 0 .. SBUF_SIZE_MAX
  BY AudioAssumption DEF Cell
<1>2. sbuf \in [Cell -> Nat]
  BY <1>1 DEF AInit
<1>3. ATypeOK
  BY <1>1, <1>2, Zenon DEF AInit, ATypeOK
<1>4. MainInv /\ AudioInv
  BY Zenon DEF AInit, MainInv, AudioInv
<1> QED
  BY <1>1, <1>3, <1>4 DEF AInit, AInv

\* Every step of either thread keeps the invariant.
LEMMA AStepInv == AInv /\ [ANext]_avars => AInv'
<1> SUFFICES ASSUME AInv, [ANext]_avars PROVE AInv'
  OBVIOUS
<1> USE AudioAssumption
<1>1. CASE audio_ctrl
  BY <1>1 DEF AInv, ATypeOK, MainInv, AudioInv, Cell, audio_ctrl, main
<1>2. ASSUME NEW k \in PlayLens, audio_play_begin(k) PROVE AInv'
  BY <1>2 DEF AInv, ATypeOK, MainInv, AudioInv, audio_play_begin, ring, audio, ghosts
<1>3. CASE audio_play_wait
  BY <1>3 DEF AInv, ATypeOK, MainInv, AudioInv, audio_play_wait, ring, audio, ghosts
<1>4. CASE audio_write_free
  BY <1>4 DEF AInv, ATypeOK, MainInv, AudioInv, audio_write_free, Smaller, ring, audio, ghosts
<1>5. CASE audio_write_copy
  <2>1. nwrite \in 0 .. SBUF_SIZE_MAX
    BY <1>5 DEF AInv, ATypeOK, MainInv, audio_write_copy
  <2>2. head' \in Cell
    BY <1>5, <2>1, AdvanceInRing DEF AInv, ATypeOK, audio_write_copy
  <2>3. sbuf' \in [Cell -> Nat]
    <3>1. ASSUME NEW c \in Cell, \E i \in 0 .. nwrite - 1 : CellAt(head, i) = c
          PROVE  (CHOOSE i \in 0 .. nwrite - 1 : CellAt(head, i) = c) \in Nat
      BY <3>1, <2>1
    <3>2. written \in Nat /\ sbuf \in [Cell -> Nat]
      BY DEF AInv, ATypeOK
    <3> QED
      BY <1>5, <3>1, <3>2 DEF audio_write_copy
  <2>4. ATypeOK'
    BY <1>5, <2>1, <2>2, <2>3 DEF AInv, ATypeOK, audio_write_copy, audio
  <2> QED
    BY <1>5, <2>4 DEF AInv, ATypeOK, MainInv, AudioInv, audio_write_copy, audio
<1>6. CASE audio_write_load
  BY <1>6 DEF AInv, ATypeOK, MainInv, AudioInv, audio_write_load, ring, audio, ghosts
<1>7. CASE audio_write_store
  BY <1>7 DEF AInv, ATypeOK, MainInv, AudioInv, audio_write_store, ring, audio
<1>8. ASSUME NEW k \in StreamLens, audio_play_full(k) PROVE AInv'
  BY <1>8 DEF AInv, ATypeOK, MainInv, AudioInv, audio_play_full, ring, main, ghosts
<1>9. ASSUME NEW k \in StreamLens, audio_play_short(k) PROVE AInv'
  BY <1>9 DEF AInv, ATypeOK, MainInv, AudioInv, audio_play_short, ring, main, ghosts
<1>10. CASE audio_play_nread
  BY <1>10 DEF AInv, ATypeOK, MainInv, AudioInv, audio_play_nread, ring, main
<1>11. CASE audio_play_copy
  <2>1. nread \in 0 .. SBUF_SIZE_MAX
    BY <1>11 DEF AInv, ATypeOK, AudioInv, audio_play_copy
  <2>2. tail' \in Cell
    BY <1>11, <2>1, AdvanceInRing DEF AInv, ATypeOK, audio_play_copy
  <2> QED
    BY <1>11, <2>1, <2>2 DEF AInv, ATypeOK, MainInv, AudioInv, audio_play_copy, main
<1>12. CASE audio_play_load
  BY <1>12 DEF AInv, ATypeOK, MainInv, AudioInv, audio_play_load, ring, main, ghosts
<1>13. CASE audio_play_store
  BY <1>13 DEF AInv, ATypeOK, MainInv, AudioInv, audio_play_store, ring, main
<1>14. CASE UNCHANGED avars
  BY <1>14 DEF AInv, ATypeOK, MainInv, AudioInv, avars, ring, main, audio, ghosts
<1> QED
  BY <1>1, <1>2, <1>3, <1>4, <1>5, <1>6, <1>7, <1>8, <1>9, <1>10, <1>11, <1>12,
     <1>13, <1>14 DEF ANext, Play, Callback

\* The inductive invariant holds of every behaviour of the two threads.
THEOREM AudioInvariant == ASpec => []AInv
BY AInitInv, AStepInv, PTL DEF ASpec

\* Type correctness; in particular head and tail always index the ring.
THEOREM AudioTypes == ASpec => []ATypeOK
<1>1. AInv => ATypeOK
  BY DEF AInv
<1> QED
  BY <1>1, AudioInvariant, PTL

\* No interleaving of audio_write and audio_play, which update count without a
\* lock, takes count or the size of a copy out of 0 .. SBUF_SIZE_MAX.
THEOREM AudioCount == ASpec => []CountInRange
<1>1. AInv => CountInRange
  BY AudioAssumption DEF AInv, ATypeOK, MainInv, AudioInv, CountInRange
<1> QED
  BY <1>1, AudioInvariant, PTL

\* audio_write accepts all of what __am_audio_play waited for.
THEOREM AudioAccepted == ASpec => []AllAccepted
<1>1. AInv => AllAccepted
  BY DEF AInv, MainInv, AllAccepted
<1> QED
  BY <1>1, AudioInvariant, PTL

-----------------------------------------------------------------------------
(* The bytes in the ring.                                                  *)

\* Bytes the program has written and not counted yet; bytes SDL has been given
\* that are still counted.
Uncounted == IF mpc \in {"load", "store"} THEN nwrite ELSE 0
Taken == IF apc \in {"load", "store"} THEN nread ELSE 0

\* The bytes SDL has not been given, as count says them.
InRing == count + Uncounted - Taken

\* Until a racing access does harm, the ring holds from tail to head the bytes
\* after the last one played, in order.
RingInv ==
  /\ written = played + InRing
  /\ head = Advance(tail, InRing)
  /\ \A i \in 0 .. InRing - 1 : sbuf[CellAt(tail, i)] = played + 1 + i

\* What the last callback copied.
CopiedInv ==
  /\ \A i \in 1 .. Len(stream) : stream[i] = played - Len(stream) + i
  /\ apc \in {"copy", "load", "store"} => nread <= alen
  /\ apc \in {"load", "store"} => Len(stream) = nread

StreamInv ==
  /\ AInv
  /\ stream \in Seq(Nat)
  /\ ~raced => RingInv /\ CopiedInv

\* The cells of the ring, counted from an index.
LEMMA CellFacts ==
  ASSUME NEW i \in Cell
  PROVE  /\ \A j \in Cell : CellAt(i, j) \in Cell
         /\ \A j, k \in Cell : CellAt(i, j) = CellAt(i, k) => j = k
BY AudioAssumption DEF Cell, CellAt

\* Counting from an index that was moved.
LEMMA AdvanceFacts ==
  ASSUME NEW i \in Cell, NEW j \in 0 .. SBUF_SIZE_MAX, NEW k \in 0 .. SBUF_SIZE_MAX
  PROVE  /\ j + k <= SBUF_SIZE_MAX => Advance(Advance(i, j), k) = Advance(i, j + k)
         /\ j + k < SBUF_SIZE_MAX => CellAt(Advance(i, j), k) = CellAt(i, j + k)
BY AudioAssumption DEF Cell, CellAt, Advance

\* The bytes in the ring fit into it, and SDL's copy and the program's are
\* inside its used and its free part.
LEMMA InRingFacts ==
  ASSUME AInv
  PROVE  /\ InRing \in 0 .. SBUF_SIZE_MAX
         /\ apc = "copy" => nread \in 0 .. InRing
         /\ mpc = "copy" => nwrite \in 0 .. SBUF_SIZE_MAX /\ InRing + nwrite <= SBUF_SIZE_MAX
BY AudioAssumption DEF AInv, ATypeOK, MainInv, AudioInv, InRing, Uncounted, Taken

\* A step that leaves the ring and the stream alone.
LEMMA QuietStep ==
  ASSUME StreamInv, AInv', UNCHANGED <<sbuf, head, tail, stream, written, played>>,
         ~raced' => /\ ~raced /\ InRing' = InRing
                    /\ apc' \in {"copy", "load", "store"} => nread' <= alen'
                    /\ apc' \in {"load", "store"} => Len(stream) = nread'
  PROVE  StreamInv'
BY DEF StreamInv, RingInv, CopiedInv

\* audio_write_copy appends the bytes of the program.
LEMMA WriteStep ==
  ASSUME StreamInv, AInv', audio_write_copy
  PROVE  StreamInv'
<1> DEFINE d == InRing
<1>1. /\ AInv /\ head \in Cell /\ tail \in Cell /\ sbuf \in [Cell -> Nat]
      /\ written \in Nat /\ played \in Int
      /\ SBUF_SIZE_MAX \in Nat \ {0}
  BY AudioAssumption DEF StreamInv, AInv, ATypeOK
<1>2. d \in 0 .. SBUF_SIZE_MAX /\ nwrite \in 0 .. SBUF_SIZE_MAX /\ d + nwrite <= SBUF_SIZE_MAX
  BY <1>1, InRingFacts DEF audio_write_copy
<1>3. /\ UNCHANGED <<tail, count, stream, played, raced, apc, alen, nread>>
      /\ head' = Advance(head, nwrite)
      /\ mpc = "copy" /\ mpc' = "load" /\ nwrite' = nwrite
  BY DEF audio_write_copy, audio
<1>4. InRing' = d + nwrite
  BY <1>1, <1>2, <1>3 DEF InRing, Uncounted, Taken, AInv, ATypeOK
<1>5. ASSUME ~raced
      PROVE  RingInv' /\ CopiedInv'
  <2>1. /\ written = played + d /\ head = Advance(tail, d)
        /\ \A i \in 0 .. d - 1 : sbuf[CellAt(tail, i)] = played + 1 + i
    BY <1>5 DEF StreamInv, RingInv
  <2>2. /\ written' = written + nwrite
        /\ sbuf' = [c \in Cell |->
                IF \E i \in 0 .. nwrite - 1 : CellAt(head, i) = c
                THEN written + 1 + (CHOOSE i \in 0 .. nwrite - 1 : CellAt(head, i) = c)
                ELSE sbuf[c]]
    BY <1>5 DEF audio_write_copy
  <2> HIDE DEF d
  <2>3. head' = Advance(tail, d + nwrite)
    BY <1>1, <1>2, <1>3, <2>1, AdvanceFacts
  <2>4. \A j \in 0 .. nwrite - 1 : CellAt(head, j) = CellAt(tail, d + j)
    <3> SUFFICES ASSUME NEW j \in 0 .. nwrite - 1
                 PROVE  CellAt(head, j) = CellAt(tail, d + j)
      OBVIOUS
    <3>1. j \in 0 .. SBUF_SIZE_MAX /\ d + j < SBUF_SIZE_MAX
      BY <1>1, <1>2
    <3> QED
      BY <1>1, <1>2, <2>1, <3>1, AdvanceFacts
  <2>5. ASSUME NEW i \in 0 .. (d + nwrite) - 1
        PROVE  sbuf'[CellAt(tail, i)] = played + 1 + i
    <3>0. i \in Cell
      BY <1>1, <1>2 DEF Cell
    <3>1. i \in Cell /\ CellAt(tail, i) \in Cell
      BY <1>1, <3>0, CellFacts
    <3>2. CASE i < d
      <4>1. \A j \in 0 .. nwrite - 1 : d + j \in Cell /\ d + j # i
        BY <1>1, <1>2, <3>2 DEF Cell
      <4>2. ASSUME NEW j \in 0 .. nwrite - 1
            PROVE  CellAt(head, j) # CellAt(tail, i)
        <5>1. CellAt(head, j) = CellAt(tail, d + j) /\ d + j \in Cell /\ d + j # i
          BY <2>4, <4>1
        <5>2. CellAt(tail, d + j) # CellAt(tail, i)
          BY <1>1, <3>1, <5>1, CellFacts
        <5> QED
          BY <5>1, <5>2
      <4>3. sbuf'[CellAt(tail, i)] = sbuf[CellAt(tail, i)]
        BY <2>2, <3>1, <4>2
      <4>4. i \in 0 .. d - 1
        BY <1>2, <3>2
      <4> QED
        BY <2>1, <4>3, <4>4
    <3>3. CASE i >= d
      <4> DEFINE j == CHOOSE j \in 0 .. nwrite - 1 : CellAt(head, j) = CellAt(tail, i)
      <4>1. i - d \in 0 .. nwrite - 1 /\ d + (i - d) = i
        BY <1>2, <3>3
      <4>2. CellAt(head, i - d) = CellAt(tail, i)
        BY <2>4, <4>1
      <4>3. j \in 0 .. nwrite - 1 /\ CellAt(head, j) = CellAt(tail, i)
        BY <4>1, <4>2
      <4>4. sbuf'[CellAt(tail, i)] = written + 1 + j
        BY <2>2, <3>1, <4>1, <4>2
      <4> HIDE DEF j
      <4>5. CellAt(tail, d + j) = CellAt(tail, i) /\ d + j \in Cell
        BY <1>1, <1>2, <2>4, <4>3 DEF Cell
      <4>6. d + j = i
        BY <1>1, <3>1, <4>5, CellFacts
      <4> QED
        BY <1>1, <1>2, <2>1, <4>3, <4>4, <4>6
    <3> QED
      BY <1>2, <3>2, <3>3
  <2>6. RingInv'
    <3>1. written' = played' + InRing'
      BY <1>1, <1>2, <1>3, <1>4, <2>1, <2>2
    <3>2. head' = Advance(tail, InRing')
      BY <1>4, <2>3
    <3>3. \A i \in 0 .. InRing' - 1 : sbuf'[CellAt(tail, i)] = played + 1 + i
      BY <1>4, <2>5
    <3> QED
      BY <1>3, <3>1, <3>2, <3>3 DEF RingInv, Advance, CellAt
  <2>7. CopiedInv'
    BY <1>3, <1>5 DEF StreamInv, CopiedInv
  <2> QED
    BY <2>6, <2>7
<1> QED
  BY <1>3, <1>5 DEF StreamInv

\* audio_play_copy gives SDL the bytes after the last one played.
LEMMA PlayStep ==
  ASSUME StreamInv, AInv', audio_play_copy
  PROVE  StreamInv'
<1> DEFINE d == InRing
<1>1. /\ AInv /\ tail \in Cell /\ sbuf \in [Cell -> Nat]
      /\ written \in Nat /\ played \in Int
      /\ SBUF_SIZE_MAX \in Nat \ {0}
  BY AudioAssumption DEF StreamInv, AInv, ATypeOK
<1>2. d \in 0 .. SBUF_SIZE_MAX /\ nread \in 0 .. d
  BY <1>1, InRingFacts DEF audio_play_copy
<1>3. /\ UNCHANGED <<head, sbuf, count, written, raced, alen, nread, mpc, nwrite>>
      /\ tail' = Advance(tail, nread) /\ apc = "copy" /\ apc' = "load"
      /\ stream' = (IF raced THEN <<>> ELSE [i \in 1 .. nread |-> sbuf[CellAt(tail, i - 1)]])
      /\ played' = (IF raced THEN 0 ELSE played + nread)
  BY DEF audio_play_copy, main
<1>4. InRing' = d - nread
  BY <1>1, <1>2, <1>3 DEF InRing, Uncounted, Taken, AInv, ATypeOK
<1> HIDE DEF d
<1>5. ASSUME NEW i \in 1 .. nread
      PROVE  sbuf[CellAt(tail, i - 1)] \in Nat
  <2>1. i - 1 \in Cell
    BY <1>1, <1>2 DEF Cell
  <2> QED
    BY <1>1, <2>1, CellFacts
<1>6. stream' \in Seq(Nat)
  <2>1. CASE raced
    BY <1>3, <2>1
  <2>2. CASE ~raced
    <3>1. nread \in Nat /\ stream' = [i \in 1 .. nread |-> sbuf[CellAt(tail, i - 1)]]
      BY <1>2, <1>3, <2>2
    <3> QED
      BY <1>5, <3>1
  <2> QED
    BY <2>1, <2>2
<1>7. ASSUME ~raced
      PROVE  RingInv' /\ CopiedInv'
  <2>1. /\ written = played + d /\ head = Advance(tail, d)
        /\ \A i \in 0 .. d - 1 : sbuf[CellAt(tail, i)] = played + 1 + i
    BY <1>7 DEF StreamInv, RingInv, d
  <2>2. nread \in Nat /\ stream' = [i \in 1 .. nread |-> sbuf[CellAt(tail, i - 1)]]
    BY <1>2, <1>3, <1>7
  <2>3. Len(stream') = nread
    BY <1>5, <2>2
  <2>4. ASSUME NEW i \in 1 .. nread
        PROVE  stream'[i] = played' - nread + i
    <3>1. i - 1 \in 0 .. d - 1
      BY <1>2
    <3>2. sbuf[CellAt(tail, i - 1)] = played + 1 + (i - 1)
      BY <2>1, <3>1
    <3>3. stream'[i] = sbuf[CellAt(tail, i - 1)]
      BY <2>2
    <3> QED
      BY <1>1, <1>2, <1>3, <1>7, <3>2, <3>3
  <2>5. head = Advance(tail', d - nread)
    <3>1. d - nread \in 0 .. SBUF_SIZE_MAX /\ nread \in 0 .. SBUF_SIZE_MAX /\ nread + (d - nread) = d
      BY <1>1, <1>2
    <3>2. nread + (d - nread) <= SBUF_SIZE_MAX
      BY <1>2, <3>1
    <3> QED
      BY <1>1, <1>3, <2>1, <3>1, <3>2, AdvanceFacts
  <2>6. ASSUME NEW i \in 0 .. (d - nread) - 1
        PROVE  sbuf[CellAt(tail', i)] = played' + 1 + i
    <3>1. /\ nread \in 0 .. SBUF_SIZE_MAX /\ i \in 0 .. SBUF_SIZE_MAX
          /\ nread + i < SBUF_SIZE_MAX /\ nread + i \in 0 .. d - 1
      BY <1>1, <1>2
    <3>2. CellAt(tail', i) = CellAt(tail, nread + i)
      BY <1>1, <1>3, <3>1, AdvanceFacts
    <3>3. sbuf[CellAt(tail, nread + i)] = played + 1 + (nread + i)
      BY <2>1, <3>1
    <3> QED
      BY <1>1, <1>2, <1>3, <1>7, <3>2, <3>3
  <2>7. RingInv'
    BY <1>1, <1>2, <1>3, <1>4, <1>7, <2>1, <2>5, <2>6 DEF RingInv
  <2>8. nread <= alen
    BY <1>3, <1>7 DEF StreamInv, CopiedInv
  <2>9. CopiedInv'
    BY <1>3, <2>3, <2>4, <2>8 DEF CopiedInv
  <2> QED
    BY <2>7, <2>9
<1> QED
  BY <1>3, <1>6, <1>7 DEF StreamInv

\* Every step of either thread keeps the bytes in order.
LEMMA StreamStep == StreamInv /\ [ANext]_avars => StreamInv'
<1> SUFFICES ASSUME StreamInv, [ANext]_avars PROVE StreamInv'
  OBVIOUS
<1> USE AudioAssumption
<1>0. AInv /\ AInv'
  BY AStepInv DEF StreamInv
<1>1. CASE audio_ctrl
  <2>1. /\ mpc = "idle" /\ mpc' = mpc /\ apc' \in {"idle", "none"}
        /\ head' = 0 /\ tail' = 0 /\ count' = 0 /\ written' = 0 /\ played' = 0 /\ stream' = <<>>
    BY <1>1 DEF audio_ctrl, main
  <2>2. InRing' = 0
    BY <2>1 DEF InRing, Uncounted, Taken
  <2>3. RingInv'
    BY <2>1, <2>2 DEF RingInv, Advance
  <2>4. CopiedInv' /\ stream' \in Seq(Nat)
    BY <2>1 DEF CopiedInv
  <2> QED
    BY <1>0, <2>3, <2>4 DEF StreamInv
<1>2. ASSUME NEW k \in PlayLens, audio_play_begin(k) PROVE StreamInv'
  <2>1. InRing' = InRing
    BY <1>2 DEF audio_play_begin, audio, InRing, Uncounted, Taken
  <2> QED
    BY <1>0, <1>2, <2>1, QuietStep DEF audio_play_begin, ring, audio, ghosts, StreamInv, CopiedInv
<1>3. CASE audio_play_wait
  <2>1. InRing' = InRing
    BY <1>3 DEF audio_play_wait, audio, InRing, Uncounted, Taken
  <2> QED
    BY <1>0, <1>3, <2>1, QuietStep DEF audio_play_wait, ring, audio, ghosts, StreamInv, CopiedInv
<1>4. CASE audio_write_free
  <2>1. InRing' = InRing
    BY <1>4 DEF audio_write_free, audio, InRing, Uncounted, Taken
  <2> QED
    BY <1>0, <1>4, <2>1, QuietStep DEF audio_write_free, ring, audio, ghosts, StreamInv, CopiedInv
<1>5. CASE audio_write_copy
  BY <1>0, <1>5, WriteStep
<1>6. CASE audio_write_load
  <2>1. InRing' = InRing
    BY <1>6 DEF audio_write_load, audio, InRing, Uncounted, Taken
  <2> QED
    BY <1>0, <1>6, <2>1, QuietStep DEF audio_write_load, ring, audio, ghosts, StreamInv, CopiedInv
<1>7. CASE audio_write_store
  <2>1. ~raced' => ~raced /\ count = mload
    BY <1>7 DEF audio_write_store
  <2>2. count = mload => InRing' = InRing
    BY <1>0, <1>7 DEF audio_write_store, audio, InRing, Uncounted, Taken, AInv, ATypeOK
  <2> QED
    BY <1>0, <1>7, <2>1, <2>2, QuietStep DEF audio_write_store, ring, audio, StreamInv, CopiedInv
<1>8. ASSUME NEW k \in StreamLens, audio_play_full(k) PROVE StreamInv'
  <2>1. InRing' = InRing
    BY <1>8 DEF audio_play_full, main, InRing, Uncounted, Taken
  <2>2. nread' <= alen' /\ apc' = "copy"
    BY <1>8 DEF audio_play_full
  <2> QED
    BY <1>0, <1>8, <2>1, <2>2, QuietStep DEF audio_play_full, ring, ghosts
<1>9. ASSUME NEW k \in StreamLens, audio_play_short(k) PROVE StreamInv'
  <2>1. InRing' = InRing
    BY <1>9 DEF audio_play_short, main, InRing, Uncounted, Taken
  <2> QED
    BY <1>0, <1>9, <2>1, QuietStep DEF audio_play_short, ring, ghosts
<1>10. CASE audio_play_nread
  <2>1. InRing' = InRing
    BY <1>10 DEF audio_play_nread, main, InRing, Uncounted, Taken
  <2>2. ~raced' => ~raced /\ nread' <= alen'
    <3>1. ~raced' => ~raced /\ ~(count > alen)
      BY <1>10, Zenon DEF audio_play_nread
    <3>2. ~(count > alen) => count <= alen
      BY <1>0 DEF AInv, ATypeOK
    <3>3. nread' = count /\ alen' = alen
      BY <1>10 DEF audio_play_nread
    <3> QED
      BY <3>1, <3>2, <3>3, Zenon
  <2> QED
    BY <1>0, <1>10, <2>1, <2>2, QuietStep DEF audio_play_nread, ring
<1>11. CASE audio_play_copy
  BY <1>0, <1>11, PlayStep
<1>12. CASE audio_play_load
  <2>1. InRing' = InRing
    BY <1>12 DEF audio_play_load, main, InRing, Uncounted, Taken
  <2> QED
    BY <1>0, <1>12, <2>1, QuietStep DEF audio_play_load, ring, ghosts, StreamInv, CopiedInv
<1>13. CASE audio_play_store
  <2>1. ~raced' => ~raced /\ count = aload
    BY <1>13 DEF audio_play_store
  <2>2. count = aload => InRing' = InRing
    BY <1>0, <1>13 DEF audio_play_store, main, InRing, Uncounted, Taken, AInv, ATypeOK
  <2> QED
    BY <1>0, <1>13, <2>1, <2>2, QuietStep DEF audio_play_store, ring
<1>14. CASE UNCHANGED avars
  <2>1. InRing' = InRing
    BY <1>14 DEF avars, main, audio, InRing, Uncounted, Taken
  <2> QED
    BY <1>0, <1>14, <2>1, QuietStep DEF avars, ring, audio, ghosts, StreamInv, CopiedInv
<1> QED
  BY <1>1, <1>2, <1>3, <1>4, <1>5, <1>6, <1>7, <1>8, <1>9, <1>10, <1>11, <1>12,
     <1>13, <1>14 DEF ANext, Play, Callback

\* The ring is empty at first.
LEMMA StreamInit == AInit => StreamInv
<1> SUFFICES ASSUME AInit PROVE StreamInv
  OBVIOUS
<1>1. InRing = 0
  BY DEF AInit, InRing, Uncounted, Taken
<1>2. RingInv
  BY <1>1, AudioAssumption DEF AInit, RingInv, Advance
<1>3. CopiedInv /\ stream \in Seq(Nat)
  BY DEF AInit, CopiedInv
<1> QED
  BY <1>2, <1>3, AInitInv DEF StreamInv

\* As long as no racing access of count did harm, SDL is given every byte once,
\* in the order it was played, and never more than it asked for.
THEOREM AudioStream == ASpec => []StreamInOrder
<1>1. StreamInv => StreamInOrder
  <2> SUFFICES ASSUME StreamInv, ~raced
               PROVE  /\ \A i \in DOMAIN stream : stream[i] = played - Len(stream) + i
                      /\ apc \in {"load", "store"} => Len(stream) <= alen
                      /\ played <= written
    BY DEF StreamInOrder
  <2>1. stream \in Seq(Nat) /\ RingInv /\ CopiedInv
    BY DEF StreamInv
  <2>2. DOMAIN stream = 1 .. Len(stream)
    BY <2>1
  <2>3. InRing \in Nat /\ played \in Int
    BY InRingFacts DEF StreamInv, AInv, ATypeOK
  <2>4. played <= written
    BY <2>1, <2>3 DEF RingInv
  <2> QED
    BY <2>1, <2>2, <2>4 DEF CopiedInv
<1>2. ASpec => []StreamInv
  BY StreamInit, StreamStep, PTL DEF ASpec
<1> QED
  BY <1>1, <1>2, PTL

=============================================================================
