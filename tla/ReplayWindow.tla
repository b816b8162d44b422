---------------------------- MODULE ReplayWindow ----------------------------
(***************************************************************************)
(* The anti-replay window of the UDP voice session                         *)
(* (crates/zephyrvox-voice/src/replay.rs) and the inbound path that uses   *)
(* it (worker.rs, handle_inbound): a datagram that decodes and             *)
(* authenticates is offered to accept, one that does not never reaches it. *)
(*                                                                         *)
(* The bitmap is two machine words.  A word is modelled as the set of its  *)
(* one bits, bit 0 of word 0 standing for the high-water sequence.  The    *)
(* code's words have 64 bits; the width is a parameter.                    *)
(***************************************************************************)
EXTENDS Naturals

CONSTANTS
    W,             \* bits in a word (64)
    MaxSequence    \* largest sequence number a packet can carry

ASSUME WidthAssumption == W \in Nat \ {0} /\ MaxSequence \in Nat

VARIABLES
    high,    \* ReplayWindow::high
    bits,    \* ReplayWindow::bits, as a function on {0, 1}
    seen     \* history: every sequence the session has recorded

window == <<high, bits, seen>>

Word == SUBSET (0..(W - 1))

\* The shifts of an unsigned word of W bits, for a shift below W.
ShiftUp(word, n) == {b \in 0..(W - 1) : b >= n /\ b - n \in word}

ShiftDown(word, n) == {b \in 0..(W - 1) : b + n \in word}

\* Mutant: no carry from word 0 to word 1.
ShiftLeft_NoCarry(n) ==
    IF n < W
      THEN [bits EXCEPT ![0] = ShiftUp(bits[0], n), ![1] = ShiftUp(bits[1], n)]
      ELSE [bits EXCEPT ![0] = {}, ![1] = ShiftUp(bits[0], n - W)]

\* shift_left, for 0 < n < 2 * W.
ShiftLeft(n) ==
    IF n < W
      THEN [bits EXCEPT ![0] = ShiftUp(bits[0], n),
                        ![1] = ShiftUp(bits[1], n) \cup ShiftDown(bits[0], W - n)]
      ELSE [bits EXCEPT ![0] = {}, ![1] = ShiftUp(bits[0], n - W)]

WouldAccept(sequence) ==
    /\ sequence # 0
    /\ sequence <= high =>
         LET offset == high - sequence
         IN  offset < 2 * W /\ offset % W \notin bits[offset \div W]

\* The branch of accept that advances the high-water mark.
Advance(sequence) ==
    LET shift == sequence - high
        moved == IF shift >= 2 * W THEN [w \in {0, 1} |-> {}] ELSE ShiftLeft(shift)
    IN  /\ bits' = [moved EXCEPT ![0] = @ \cup {0}]
        /\ high' = sequence

\* The branch of accept for a packet that arrives late but inside the window.
MarkLate(sequence) ==
    LET offset == high - sequence
    IN  /\ bits' = [bits EXCEPT ![offset \div W] = @ \cup {offset % W}]
        /\ high' = high

Accept(sequence) ==
    IF sequence > high THEN Advance(sequence) ELSE MarkLate(sequence)

NewWindow ==
    /\ high = 0
    /\ bits = [w \in {0, 1} |-> {}]
    /\ seen = {}

\* handle_inbound up to the verdict; a packet that is refused changes nothing.
Record(sequence) ==
    /\ WouldAccept(sequence)
    /\ Accept(sequence)
    /\ seen' = seen \cup {sequence}

WindowNext == \E sequence \in 0..MaxSequence : Record(sequence)

WindowSpec == NewWindow /\ [][WindowNext]_window

------------------------------------------------------------------------------
\* Each word of the bitmap stays within its W bits through every shift, so an
\* offset of the window is represented by one bit.
WindowTypeOK ==
    /\ high \in Nat
    /\ bits \in [{0, 1} -> Word]
    /\ seen \in SUBSET Nat

\* The reference: a sequence is fresh if it was never recorded and has not
\* fallen out of the window of the last 2 * W sequences.
IsFresh(sequence) ==
    /\ sequence # 0 /\ sequence \notin seen
    /\ sequence + 2 * W > high

\* would_accept decides freshness exactly, through every combination of word
\* shifts: no replay is let in, and no unseen packet inside the window is lost.
WindowExact == \A s \in 0..MaxSequence : WouldAccept(s) <=> IsFresh(s)

==============================================================================
