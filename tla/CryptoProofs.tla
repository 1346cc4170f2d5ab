---------------------------- MODULE CryptoProofs ----------------------------
(***************************************************************************)
(* Proofs about CryptoStream, for every stream length, frame size and      *)
(* buffer size: its type, StoredAhead, BufferBounded, NothingLost, and     *)
(* that it implements InOrderStream.                                       *)
(*                                                                         *)
(* The heart of it is FrameAccepted: whichever way a frame takes through   *)
(* the handler, TLS gets the positions from inStart on without a gap, and  *)
(* all that the window has left behind had been received.                  *)
(***************************************************************************)
EXTENDS CryptoStream, SequenceTheorems, WellFoundedInduction, TLAPS

HeldBack(s, from) == {p \in s : p >= from}

Passed == {given[i] : i \in DOMAIN given}

\* Everything the window has left behind was received, and all that was received is
\* short of the window's end.
WindowReceived ==
    keys = "held" =>
        /\ arrived = inset
        /\ 0 .. inStart - 1 \subseteq inset
        /\ \A p \in inset : p < inEnd

\* Without an error, exactly what the window has left behind was passed on, and there
\* is nothing more to pass on.
Prompt ==
    (keys = "held" /\ ~failed) =>
        /\ inStart \notin inset
        /\ 0 .. inStart - 1 \subseteq Passed

\* What was passed on had arrived, comes in order and lies behind the window.
InOrder ==
    /\ given \in Seq(Positions)
    /\ Stream!Increasing(given)
    /\ Passed \subseteq arrived
    /\ keys = "held" => \A p \in Passed : p < inStart

\* The first frame ends within the buffer size, and no later one may end more than
\* that beyond the smallest position: the window ends before twice the size.
NearStart ==
    /\ inset # {} => \E p \in inset : p < cryptoBufferSize
    /\ inEnd < 2 * cryptoBufferSize

CryptoInv ==
    /\ TypeOK
    /\ WindowReceived
    /\ Prompt
    /\ InOrder
    /\ NearStart
    /\ StoredAhead
    /\ NothingLost

-----------------------------------------------------------------------------
(* The rangeset                                                            *)

\* A set of naturals has a least element, since < is well-founded.
LEMMA LeastElement ==
    ASSUME NEW S \in SUBSET Nat, S # {}
    PROVE  \E p \in S : \A q \in S : p <= q
<1>. DEFINE R == OpToRel(<, Nat)
<1>1. R = {ab \in Nat \X Nat : ab[1] < ab[2]}
  BY DEF OpToRel
<1>2. PICK p \in S : \A q \in S : ~ (<<q, p>> \in R)
  <2>1. IsWellFoundedOn(R, Nat)
    BY NatLessThanWellFounded
  <2>. HIDE DEF R
  <2>. QED  BY <2>1, WFMin
<1>3. \A q \in S : ~ (q < p)
  BY <1>1, <1>2
<1>. QED  BY <1>3

\* insetMin is the least position of a set that is not empty.
LEMMA MinIsLeast ==
    ASSUME NEW s \in SUBSET Positions, s # {}
    PROVE  insetMin(s) \in s /\ \A q \in s : insetMin(s) <= q
<1>1. s \in SUBSET Nat
  BY SizesAssumption DEF Positions
<1>2. \E p \in s : \A q \in s : p <= q
  BY <1>1, LeastElement
<1>. QED  BY <1>2 DEF insetMin

\* The first range of a set that has every position below and at `from` ends after it,
\* at a position that is not in the set.
LEMMA FirstEndIsFirstGap ==
    ASSUME NEW s \in SUBSET Positions, NEW from \in Nat,
           from \in s, 0 .. from - 1 \subseteq s
    PROVE  /\ FirstEnd(s) \in from + 1 .. Limit
           /\ 0 .. FirstEnd(s) - 1 \subseteq s
           /\ FirstEnd(s) \notin s
<1>1. Limit \in Nat
  BY SizesAssumption
<1>2. 0 \in s
  BY <1>1 DEF Positions
<1>3. insetMin(s) = 0
  <2>1. insetMin(s) \in s /\ insetMin(s) <= 0
    BY <1>2, MinIsLeast
  <2>2. insetMin(s) \in Positions
    BY <2>1
  <2>3. insetMin(s) \in Nat
    BY <2>2, <1>1 DEF Positions
  <2>. QED  BY <2>1, <2>3
<1>. DEFINE Gaps == {e \in 1 .. Limit : e \notin s}
<1>4. PICK e \in Gaps : \A q \in Gaps : e <= q
  <2>1. Limit \in Gaps
    BY <1>1, <1>2 DEF Positions
  <2>2. Gaps \in SUBSET Nat
    BY <1>1
  <2>. QED  BY <2>1, <2>2, LeastElement
<1>5. 0 .. e - 1 \subseteq s
  <2>1. ASSUME NEW p \in 0 .. e - 1, p \notin s  PROVE FALSE
    <3>1. p \in 1 .. Limit /\ p < e
      BY <2>1, <1>1, <1>2
    <3>. QED  BY <3>1, <2>1, <1>4
  <2>. QED  BY <2>1
<1>6. \E x \in 1 .. Limit : 0 .. x - 1 \subseteq s /\ x \notin s
  BY <1>4, <1>5
<1>7. FirstEnd(s) = CHOOSE x \in 1 .. Limit : 0 .. x - 1 \subseteq s /\ x \notin s
  BY <1>3 DEF FirstEnd
<1>8. FirstEnd(s) \in 1 .. Limit /\ 0 .. FirstEnd(s) - 1 \subseteq s /\ FirstEnd(s) \notin s
  BY <1>6, <1>7
<1>9. from < FirstEnd(s)
  <2>1. SUFFICES ASSUME FirstEnd(s) <= from  PROVE FALSE
    BY <1>8, <1>1
  <2>2. FirstEnd(s) \in 0 .. from
    BY <2>1, <1>8, <1>1
  <2>3. FirstEnd(s) # from
    BY <1>8
  <2>. QED  BY <2>2, <2>3, <1>8
<1>. QED  BY <1>8, <1>9, <1>1

-----------------------------------------------------------------------------
(* One frame                                                               *)

\* TLS has been given n more positions, from `from` on.
Gains(before, after, from, n) ==
    /\ after \in Seq(Int)
    /\ Len(after) = Len(before) + n
    /\ \A i \in 1 .. Len(before) : after[i] = before[i]
    /\ \A i \in 1 .. n : after[Len(before) + i] = from + i - 1

LEMMA ReadGains ==
    ASSUME NEW before \in Seq(Int), NEW from \in Nat, NEW n \in Nat, NEW kept \in SUBSET Positions,
           \A p \in from .. from + n - 1 : p \in kept
    PROVE  Gains(before, before \o Read(from, n, kept), from, n)
<1>. DEFINE piece == Read(from, n, kept)
<1>1. piece = [i \in 1 .. n |-> from + i - 1]
  <2>1. \A i \in 1 .. n : from + i - 1 \in kept
    OBVIOUS
  <2>. QED  BY <2>1 DEF Read
<1>2. piece \in Seq(Int) /\ Len(piece) = n
  <2>1. piece \in [1 .. n -> Int]
    BY <1>1
  <2>. HIDE DEF piece
  <2>. QED  BY <2>1
<1>3. \A i \in 1 .. n : piece[i] = from + i - 1
  BY <1>1
<1>. HIDE DEF piece
<1>4. /\ before \o piece \in Seq(Int)
      /\ Len(before \o piece) = Len(before) + n
  BY <1>2
<1>5. \A i \in 1 .. Len(before) : (before \o piece)[i] = before[i]
  BY <1>2
<1>6. \A i \in 1 .. n : (before \o piece)[Len(before) + i] = from + i - 1
  BY <1>2, <1>3
<1>7. QED
  <2>1. before \o piece = before \o Read(from, n, kept)
    BY DEF piece
  <2>. QED  BY <1>4, <1>5, <1>6, <2>1 DEF Gains

LEMMA GainsTwice ==
    ASSUME NEW a \in Seq(Int), NEW b, NEW c, NEW from \in Nat, NEW m \in Nat, NEW n \in Nat,
           Gains(a, b, from, m), Gains(b, c, from + m, n)
    PROVE  Gains(a, c, from, m + n)
<1>1. \A i \in 1 .. Len(a) : c[i] = a[i]
  BY DEF Gains
<1>2. ASSUME NEW i \in 1 .. m + n  PROVE c[Len(a) + i] = from + i - 1
  <2>1. CASE i <= m
    <3>1. i \in 1 .. m /\ Len(a) + i \in 1 .. Len(b)
      BY <2>1 DEF Gains
    <3>2. c[Len(a) + i] = b[Len(a) + i]
      BY <3>1 DEF Gains
    <3>3. b[Len(a) + i] = from + i - 1
      BY <3>1 DEF Gains
    <3>. QED  BY <3>2, <3>3
  <2>2. CASE i > m
    <3>. DEFINE j == i - m
    <3>1. j \in 1 .. n /\ Len(a) + i = Len(b) + j
      BY <2>2 DEF Gains
    <3>2. c[Len(b) + j] = (from + m) + j - 1
      BY <3>1 DEF Gains
    <3>. QED  BY <3>1, <3>2
  <2>. QED  BY <2>1, <2>2
<1>. QED  BY <1>1, <1>2 DEF Gains

\* What a frame, or its part from position `from` on, does: the window moves on to s
\* over positions that were received, and TLS is given the first n of them; without an
\* error it is given them all and the next one is missing.
MovesOn(before, from, s, n, received) ==
    /\ inStart' = s
    /\ from + n <= s
    /\ 0 .. s - 1 \subseteq received
    /\ Gains(before, given', from, n)
    /\ failed' \in BOOLEAN /\ (failed => failed')
    /\ ~failed' => (from + n = s /\ s \notin received)

LEMMA DrainMovesOn ==
    ASSUME NEW from \in 0 .. Limit, NEW top \in 0 .. Limit,
           NEW kept \in SUBSET Positions, NEW received \in SUBSET Positions,
           NEW before \in Seq(Int), failed \in BOOLEAN,
           0 .. from - 1 \subseteq received, HeldBack(received, from) \subseteq kept,
           Drain(from, top, kept, received, before)
    PROVE  \E s \in from .. Limit : \E n \in 0 .. s - from :
               /\ MovesOn(before, from, s, n, received)
               /\ inEnd' = Larger(top, s)
               /\ stored' = HeldBack(kept, s)
<1>1. Limit \in Nat /\ from \in Nat
  BY SizesAssumption
<1>2. CASE from \in received
  <2>. DEFINE s == FirstEnd(received)
  <2>1. s \in from + 1 .. Limit /\ 0 .. s - 1 \subseteq received /\ s \notin received
    BY <1>1, <1>2, FirstEndIsFirstGap
  <2>2. from + (s - from) = s /\ s - from \in Nat /\ s > from
    BY <2>1, <1>1
  <2>3. PICK n \in 1 .. s - from, failing \in BOOLEAN :
               /\ n < s - from => failing
               /\ given' = before \o Read(from, n, kept)
               /\ failed' = (failed \/ failing)
               /\ Discard(s, top, kept)
    BY <1>2, <2>2 DEF Drain
  <2>. HIDE DEF s
  <2>4. Gains(before, given', from, n)
    <3>1. ASSUME NEW p \in from .. from + n - 1  PROVE p \in kept
      <4>1. p \in 0 .. s - 1 /\ p >= from
        BY <2>1, <2>3, <1>1
      <4>. QED  BY <4>1, <2>1 DEF HeldBack
    <3>2. n \in Nat
      BY <2>3, <2>2
    <3>. QED  BY <3>1, <3>2, <2>3, <1>1, ReadGains
  <2>5. failed' \in BOOLEAN /\ (failed => failed') /\ (~failed' => n = s - from)
    <3>1. ~failing => n = s - from
      BY <2>3, <2>2
    <3>. QED  BY <3>1, <2>3
  <2>6. inStart' = s /\ inEnd' = Larger(top, s) /\ stored' = HeldBack(kept, s)
    BY <2>3 DEF Discard, EndAfter, HeldBack
  <2>7. s \in from .. Limit /\ n \in 0 .. s - from /\ from + n <= s
    BY <2>1, <2>3, <1>1
  <2>8. MovesOn(before, from, s, n, received)
    BY <2>1, <2>2, <2>4, <2>5, <2>6, <2>7 DEF MovesOn
  <2>. QED  BY <2>6, <2>7, <2>8
<1>3. CASE from \notin received
  <2>1. given' = before /\ Discard(from, top, kept) /\ failed' = failed
    BY <1>3 DEF Drain
  <2>2. Gains(before, given', from, 0)
    BY <2>1 DEF Gains
  <2>3. MovesOn(before, from, from, 0, received)
    BY <1>1, <1>3, <2>1, <2>2 DEF MovesOn, Discard
  <2>4. from \in from .. Limit /\ 0 \in 0 .. from - from
    BY <1>1
  <2>. QED  BY <2>1, <2>3, <2>4 DEF Discard, EndAfter, HeldBack
<1>. QED  BY <1>2, <1>3

\* The frame (off, end) moves the window on, whether it is the next one or not, and
\* what it leaves in the window is stored.
FrameMoves(off, end, s, n) ==
    /\ MovesOn(given, inStart, s, n, inset')
    /\ inEnd' = Larger(Larger(inEnd, end), s)
    /\ stored' \in SUBSET Positions
    /\ HeldBack(inset', s) \subseteq stored'

LEMMA FrameAccepted ==
    ASSUME CryptoInv, keys = "held", NEW off \in 0 .. Limit, NEW end \in off .. Limit,
           inset' = inset \cup off .. end - 1,
           IF IsNext(off) THEN FastPath(off, end) ELSE SlowPath(off, end)
    PROVE  \E s \in inStart .. Limit : \E n \in 0 .. s - inStart : FrameMoves(off, end, s, n)
<1>. DEFINE received == inset \cup off .. end - 1
<1>1. /\ Limit \in Nat /\ inStart \in 0 .. Limit /\ inEnd \in inStart .. Limit
      /\ off \in Nat /\ end \in Nat /\ end \in 0 .. Limit
  BY SizesAssumption DEF CryptoInv, TypeOK
<1>2. /\ received \in SUBSET Positions /\ off .. end - 1 \in SUBSET Positions
      /\ stored \in SUBSET Positions
  BY <1>1 DEF CryptoInv, TypeOK, Positions
<1>3. failed \in BOOLEAN /\ given \in Seq(Int) /\ given \in Seq(Positions)
  BY <1>1 DEF CryptoInv, TypeOK, InOrder, Positions
<1>4. 0 .. inStart - 1 \subseteq inset /\ \A p \in inset : p < inEnd
  BY DEF CryptoInv, WindowReceived
<1>5. HeldBack(inset, inStart) \subseteq stored
  BY DEF CryptoInv, StoredAhead, HeldBack
<1>6. CASE off = inStart
  <2>. DEFINE handed == given \o Read(off, end - off, off .. end - 1)
              size == end - inStart
  <2>1. size \in Nat /\ inStart + size = end /\ end - off = size
    BY <1>1, <1>6
  <2>2. Gains(given, handed, inStart, size)
    <3>1. \A p \in off .. off + (end - off) - 1 : p \in off .. end - 1
      BY <1>1
    <3>2. end - off \in Nat
      BY <1>1
    <3>3. Gains(given, handed, off, end - off)
      BY <3>1, <3>2, <1>1, <1>2, <1>3, ReadGains
    <3>. QED  BY <3>3, <2>1, <1>6
  <2>3. handed \in Seq(Int)
    BY <2>2 DEF Gains
  <2>4. 0 .. end - 1 \subseteq received
    <3>1. ASSUME NEW p \in 0 .. end - 1  PROVE p \in 0 .. inStart - 1 \/ p \in off .. end - 1
      BY <1>1, <1>6
    <3>. QED  BY <3>1, <1>4
  <2>5. ASSUME NEW s \in end .. Limit, NEW p \in HeldBack(received, s)
        PROVE  p \in HeldBack(stored, s)
    <3>1. p \in received /\ p \in Nat /\ p >= s
      BY <1>1, <1>2 DEF HeldBack, Positions
    <3>2. p >= end /\ p >= inStart
      <4>1. s \in Int /\ s >= end /\ end >= inStart
        BY <1>1, <1>6
      <4>. QED  BY <4>1, <3>1, <1>1
    <3>3. p \in inset
      BY <3>1, <3>2, <1>1
    <3>. QED  BY <3>1, <3>2, <3>3, <1>5 DEF HeldBack
  <2>6. ASSUME NEW s  PROVE HeldBack(stored, s) \in SUBSET Positions
    BY <1>2 DEF HeldBack
  <2>7. inset' = received
    OBVIOUS
  <2>8. \/ Drain(end, Larger(inEnd, end), stored, received, handed)
        \/ given' = handed /\ failed' = TRUE /\ Discard(end, inEnd, stored)
    BY <1>6 DEF IsNext, FastPath, EndAfter, AfterFailure
  <2>. HIDE DEF handed, size, received
  <2>9. CASE Drain(end, Larger(inEnd, end), stored, received, handed)
    <3>1. Larger(inEnd, end) \in 0 .. Limit
      BY <1>1 DEF Larger
    <3>2. HeldBack(received, end) \subseteq stored
      <4>1. end \in end .. Limit
        BY <1>1
      <4>. QED  BY <4>1, <2>5 DEF HeldBack
    <3>3. PICK s \in end .. Limit : \E n \in 0 .. s - end :
               /\ MovesOn(handed, end, s, n, received)
               /\ inEnd' = Larger(Larger(inEnd, end), s)
               /\ stored' = HeldBack(stored, s)
      <4>1. end \in 0 .. Limit /\ received \in SUBSET Positions /\ stored \in SUBSET Positions
        BY <1>1, <1>2
      <4>2. failed \in BOOLEAN
        BY <1>3
      <4>. QED  BY <4>1, <4>2, <3>1, <3>2, <2>3, <2>4, <2>9, DrainMovesOn
    <3>4. PICK n \in 0 .. s - end : MovesOn(handed, end, s, n, received)
      BY <3>3
    <3>5. /\ s \in inStart .. Limit /\ n \in Nat /\ size + n \in 0 .. s - inStart
          /\ inStart + (size + n) = end + n
      BY <3>3, <3>4, <2>1, <1>1
    <3>6. Gains(given, given', inStart, size + n)
      <4>1. Gains(handed, given', inStart + size, n)
        BY <3>4, <2>1 DEF MovesOn
      <4>2. given \in Seq(Int) /\ inStart \in Nat /\ size \in Nat /\ n \in Nat
        BY <3>5, <2>1, <1>1, <1>3
      <4>. QED  BY <4>1, <4>2, <2>2, GainsTwice
    <3>7. MovesOn(given, inStart, s, size + n, received)
      BY <3>4, <3>5, <3>6 DEF MovesOn
    <3>8. stored' \in SUBSET Positions /\ HeldBack(received, s) \subseteq stored'
      BY <3>3, <2>5, <2>6
    <3>. QED  BY <3>3, <3>5, <3>7, <3>8, <2>7 DEF FrameMoves
  <2>10. CASE given' = handed /\ failed' = TRUE /\ Discard(end, inEnd, stored)
    <3>1. inStart' = end /\ inEnd' = Larger(inEnd, end) /\ stored' = HeldBack(stored, end)
      BY <2>10 DEF Discard, EndAfter, HeldBack
    <3>2. MovesOn(given, inStart, end, size, received)
      BY <3>1, <2>1, <2>2, <2>4, <2>10, <1>1 DEF MovesOn
    <3>3. Larger(Larger(inEnd, end), end) = Larger(inEnd, end)
      BY <1>1 DEF Larger
    <3>4. end \in inStart .. Limit /\ size \in 0 .. end - inStart /\ end \in end .. Limit
      BY <2>1, <1>1
    <3>5. stored' \in SUBSET Positions /\ HeldBack(received, end) \subseteq stored'
      BY <3>1, <3>4, <2>5, <2>6
    <3>6. FrameMoves(off, end, end, size)
      BY <3>1, <3>2, <3>3, <3>5, <2>7 DEF FrameMoves
    <3>. QED  BY <3>4, <3>6
  <2>. QED  BY <2>8, <2>9, <2>10
<1>7. CASE off # inStart
  <2>. DEFINE kept == stored \cup {p \in off .. end - 1 : p >= inStart}
              top == Larger(inEnd, end)
  <2>1. Drain(inStart, top, kept, received, given)
    BY <1>7 DEF IsNext, SlowPath
  <2>2. kept \in SUBSET Positions /\ top \in 0 .. Limit
    BY <1>1, <1>2 DEF Larger
  <2>3. HeldBack(received, inStart) \subseteq kept
    BY <1>5 DEF HeldBack
  <2>4. 0 .. inStart - 1 \subseteq received
    BY <1>4
  <2>. HIDE DEF kept, top, received
  <2>5. PICK s \in inStart .. Limit : \E n \in 0 .. s - inStart :
               /\ MovesOn(given, inStart, s, n, received)
               /\ inEnd' = Larger(top, s)
               /\ stored' = HeldBack(kept, s)
    BY <2>1, <2>2, <2>3, <2>4, <1>1, <1>2, <1>3, DrainMovesOn
  <2>6. stored' \in SUBSET Positions /\ HeldBack(received, s) \subseteq stored'
    <3>1. HeldBack(kept, s) \subseteq kept
      BY DEF HeldBack
    <3>2. ASSUME NEW p \in HeldBack(received, s)  PROVE p \in HeldBack(kept, s)
      <4>1. p \in received /\ p >= s /\ p \in Positions /\ s >= inStart
        BY <2>5, <1>1, <1>2 DEF HeldBack
      <4>2. p >= inStart
        BY <4>1, <1>1, <2>5 DEF Positions
      <4>. QED  BY <4>1, <4>2, <2>3 DEF HeldBack
    <3>. QED  BY <3>1, <3>2, <2>2, <2>5
  <2>7. inset' = received
    BY DEF received
  <2>. QED  BY <2>5, <2>6, <2>7 DEF FrameMoves, top
<1>. QED  BY <1>6, <1>7

\* The order of what is passed on: positions below `from`, then those from `from` on.
InOrderAfter(a, b, from, n) ==
    /\ b \in Seq(Positions)
    /\ Stream!Increasing(b)
    /\ Stream!Extends(a, b)
    /\ \A i \in DOMAIN b : b[i] < from + n
    /\ \A i \in DOMAIN b : b[i] \in {a[k] : k \in DOMAIN a} \cup from .. from + n - 1
    /\ \A q \in from .. from + n - 1 : \E i \in DOMAIN b : b[i] = q

LEMMA GainsInOrder ==
    ASSUME NEW a \in Seq(Positions), NEW b, NEW from \in Nat, NEW n \in Nat,
           Stream!Increasing(a), \A i \in DOMAIN a : a[i] < from,
           Gains(a, b, from, n), from + n <= Limit
    PROVE  InOrderAfter(a, b, from, n)
<1>1. Limit \in Nat
  BY SizesAssumption
<1>2. /\ b \in Seq(Int) /\ Len(b) = Len(a) + n /\ Len(a) \in Nat
      /\ DOMAIN a = 1 .. Len(a) /\ DOMAIN b = 1 .. Len(b)
  BY DEF Gains
<1>3. \A i \in 1 .. Len(a) : b[i] = a[i] /\ b[i] \in Positions /\ b[i] < from
  BY <1>2 DEF Gains
<1>4. ASSUME NEW i \in Len(a) + 1 .. Len(b)
      PROVE  b[i] = from + (i - Len(a)) - 1 /\ b[i] \in from .. from + n - 1
  <2>1. i - Len(a) \in 1 .. n /\ Len(a) + (i - Len(a)) = i
    BY <1>2
  <2>2. b[Len(a) + (i - Len(a))] = from + (i - Len(a)) - 1
    BY <2>1 DEF Gains
  <2>. QED  BY <2>1, <2>2
<1>5. \A i \in DOMAIN b : i \in 1 .. Len(a) \/ i \in Len(a) + 1 .. Len(b)
  BY <1>2
<1>6. \A q \in from .. from + n - 1 : q \in Positions
  BY <1>1 DEF Positions
<1>7. \A i \in DOMAIN b : b[i] \in Positions
  BY <1>3, <1>4, <1>5, <1>6
<1>8. b \in Seq(Positions)
  BY <1>2, <1>7
<1>9. ASSUME NEW i \in DOMAIN b, NEW j \in DOMAIN b, i < j  PROVE b[i] < b[j]
  <2>1. CASE j \in 1 .. Len(a)
    <3>1. i \in 1 .. Len(a)
      BY <2>1, <1>2, <1>9
    <3>. QED  BY <3>1, <2>1, <1>2, <1>3, <1>9 DEF Stream!Increasing
  <2>2. CASE i \in 1 .. Len(a) /\ j \in Len(a) + 1 .. Len(b)
    <3>1. b[i] < from /\ b[i] \in Int
      BY <2>2, <1>3 DEF Positions
    <3>2. b[j] >= from /\ b[j] \in Int
      BY <2>2, <1>4
    <3>. QED  BY <3>1, <3>2
  <2>3. CASE i \in Len(a) + 1 .. Len(b) /\ j \in Len(a) + 1 .. Len(b)
    <3>1. b[i] = from + (i - Len(a)) - 1 /\ b[j] = from + (j - Len(a)) - 1
      BY <2>3, <1>4
    <3>. QED  BY <3>1, <2>3, <1>2, <1>9
  <2>. QED  BY <2>1, <2>2, <2>3, <1>5
<1>10. ASSUME NEW q \in from .. from + n - 1  PROVE \E i \in DOMAIN b : b[i] = q
  <2>. DEFINE i == Len(a) + (q - from + 1)
  <2>1. i \in DOMAIN b /\ i \in Len(a) + 1 .. Len(b) /\ from + (i - Len(a)) - 1 = q
    BY <1>2
  <2>. HIDE DEF i
  <2>. QED  BY <2>1, <1>4
<1>11. \A i \in DOMAIN b : b[i] < from + n
  <2>1. \A i \in 1 .. Len(a) : b[i] < from + n
    BY <1>3 DEF Positions
  <2>2. \A i \in Len(a) + 1 .. Len(b) : b[i] < from + n
    BY <1>4
  <2>. QED  BY <2>1, <2>2, <1>5
<1>12. Stream!Extends(a, b)
  BY <1>2, <1>3 DEF Stream!Extends
<1>13. \A i \in DOMAIN b : b[i] \in {a[k] : k \in DOMAIN a} \cup from .. from + n - 1
  BY <1>2, <1>3, <1>4, <1>5
<1>14. Stream!Increasing(b)
  BY <1>9 DEF Stream!Increasing
<1>. QED  BY <1>8, <1>10, <1>11, <1>12, <1>13, <1>14 DEF InOrderAfter

\* The bytes before the first gap are those below s, if s is that gap.
LEMMA WholeEndsAtGap ==
    ASSUME NEW r \in SUBSET Positions, NEW s \in Nat, 0 .. s - 1 \subseteq r, s \notin r
    PROVE  Stream!Whole(r) = 0 .. s - 1
<1>1. Limit \in Nat
  BY SizesAssumption
<1>2. ASSUME NEW p \in 0 .. s - 1  PROVE p \in Stream!Whole(r)
  <2>1. \A q \in 0 .. p : q \in 0 .. s - 1
    OBVIOUS
  <2>2. p \in Positions
    OBVIOUS
  <2>. QED  BY <2>1, <2>2 DEF Stream!Whole, Stream!Positions, Positions
<1>3. ASSUME NEW p \in Stream!Whole(r)  PROVE p \in 0 .. s - 1
  <2>1. p \in 0 .. Limit - 1 /\ \A q \in 0 .. p : q \in r
    BY DEF Stream!Whole, Stream!Positions
  <2>2. p \in Int /\ p >= 0
    BY <2>1, <1>1
  <2>3. ~(s <= p)
    BY <2>1, <2>2
  <2>. QED  BY <2>2, <2>3
<1>. QED  BY <1>2, <1>3

-----------------------------------------------------------------------------
(* The invariant                                                           *)

LEMMA CryptoInvInit == Init => CryptoInv
<1>1. Limit \in Nat /\ cryptoBufferSize \in Nat \ {0}
  BY SizesAssumption
<1>. SUFFICES ASSUME Init  PROVE CryptoInv
  OBVIOUS
<1>2. given = <<>> /\ DOMAIN given = {}
  BY DEF Init
<1>3. TypeOK
  <2>1. given \in Seq(Positions \cup {Rubbish})
    BY <1>2, EmptySeq
  <2>2. inStart \in 0 .. Limit /\ inEnd \in inStart .. Limit
    BY <1>1 DEF Init
  <2>. QED  BY <2>1, <2>2 DEF Init, TypeOK
<1>4. InOrder
  BY <1>2 DEF InOrder, Passed, Stream!Increasing
<1>5. WindowReceived /\ Prompt /\ NearStart /\ StoredAhead /\ NothingLost
  BY <1>1 DEF Init, WindowReceived, Prompt, NearStart, StoredAhead, NothingLost
<1>. QED  BY <1>3, <1>4, <1>5 DEF CryptoInv

\* The window ends before twice the buffer size, since a frame that ends too far is
\* refused.
LEMMA AcceptedNearStart ==
    ASSUME CryptoInv, NEW off \in 0 .. Limit, NEW end \in off .. Limit, ~TooFar(end),
           inset' = inset \cup off .. end - 1
    PROVE  /\ inset' # {} => \E p \in inset' : p < cryptoBufferSize
           /\ Larger(inEnd, end) < 2 * cryptoBufferSize
<1>1. /\ Limit \in Nat /\ cryptoBufferSize \in Nat /\ cryptoBufferSize > 0
      /\ off \in Nat /\ end \in Nat /\ off <= end
  BY SizesAssumption
<1>2. inset \in SUBSET Positions /\ inEnd \in Nat
  BY <1>1 DEF CryptoInv, TypeOK
<1>3. inEnd < 2 * cryptoBufferSize
  BY DEF CryptoInv, NearStart
<1>4. CASE inset = {}
  <2>1. end - 0 <= cryptoBufferSize
    <3>1. insetMin(inset) = 0
      BY <1>4 DEF insetMin
    <3>. QED  BY <3>1, <1>1 DEF TooFar
  <2>2. \A p \in inset' : p < cryptoBufferSize
    BY <2>1, <1>1, <1>4
  <2>. QED  BY <2>1, <2>2, <1>1, <1>2, <1>3 DEF Larger
<1>5. CASE inset # {}
  <2>1. PICK p \in inset : p < cryptoBufferSize
    BY <1>5 DEF CryptoInv, NearStart
  <2>2. insetMin(inset) \in Positions /\ insetMin(inset) <= p /\ p \in Positions
    BY <1>2, <1>5, MinIsLeast
  <2>3. insetMin(inset) \in Nat /\ p \in Nat
    BY <2>2, <1>1 DEF Positions
  <2>4. end - insetMin(inset) <= cryptoBufferSize
    BY <2>3, <1>1 DEF TooFar
  <2>5. end < 2 * cryptoBufferSize
    BY <2>1, <2>2, <2>3, <2>4, <1>1
  <2>6. Larger(inEnd, end) < 2 * cryptoBufferSize
    BY <2>5, <1>3 DEF Larger
  <2>. QED  BY <2>1, <2>6
<1>. QED  BY <1>4, <1>5

\* A frame that is accepted keeps the invariant and is a step of the abstract stream.
LEMMA AcceptedStep ==
    ASSUME CryptoInv, keys = "held", keys' = keys,
           NEW off \in 0 .. Limit, NEW end \in off .. Limit, ~TooFar(end),
           inset' = inset \cup off .. end - 1, arrived' = arrived \cup off .. end - 1,
           NEW s \in inStart .. Limit, NEW n \in 0 .. s - inStart, FrameMoves(off, end, s, n)
    PROVE  CryptoInv' /\ Stream!StreamNext
<1>1. /\ Limit \in Nat /\ inStart \in Nat /\ inEnd \in inStart .. Limit
      /\ off \in Nat /\ end \in 0 .. Limit /\ s \in 0 .. Limit /\ n \in Nat /\ inStart <= s
  BY SizesAssumption DEF CryptoInv, TypeOK
<1>2. inset \in SUBSET Positions /\ off .. end - 1 \in SUBSET Positions
  BY <1>1 DEF CryptoInv, TypeOK, Positions
<1>3. inset' \in SUBSET Positions /\ arrived' = inset' /\ arrived = inset
  BY <1>2 DEF CryptoInv, WindowReceived
<1>4. /\ inStart' = s /\ inStart + n <= s /\ 0 .. s - 1 \subseteq inset'
      /\ Gains(given, given', inStart, n)
      /\ failed' \in BOOLEAN /\ (failed => failed')
      /\ ~failed' => (inStart + n = s /\ s \notin inset')
  BY DEF FrameMoves, MovesOn
<1>5. \A p \in inset' : p < Larger(inEnd, end)
  <2>1. \A p \in inset : p < inEnd
    BY DEF CryptoInv, WindowReceived
  <2>2. ASSUME NEW p \in inset  PROVE p < Larger(inEnd, end)
    <3>1. p \in Nat /\ p < inEnd
      BY <2>1, <1>1, <1>2 DEF Positions
    <3>. QED  BY <3>1, <1>1 DEF Larger
  <2>3. ASSUME NEW p \in off .. end - 1  PROVE p < Larger(inEnd, end)
    BY <1>1 DEF Larger
  <2>. QED  BY <2>2, <2>3
<1>6. inEnd' = Larger(inEnd, end) /\ inEnd' \in s .. Limit
  <2>1. s <= Larger(inEnd, end)
    <3>1. CASE s = 0
      BY <3>1, <1>1 DEF Larger
    <3>2. CASE s # 0
      <4>1. s - 1 \in inset' /\ s \in Nat
        BY <3>2, <1>1, <1>4
      <4>2. s - 1 < Larger(inEnd, end)
        BY <4>1, <1>5
      <4>. QED  BY <4>1, <4>2, <1>1 DEF Larger
    <3>. QED  BY <3>1, <3>2
  <2>2. inEnd' = Larger(Larger(inEnd, end), s)
    BY DEF FrameMoves
  <2>3. Larger(inEnd, end) \in 0 .. Limit
    BY <1>1 DEF Larger
  <2>. QED  BY <2>1, <2>2, <2>3, <1>1 DEF Larger
<1>7. /\ given \in Seq(Positions) /\ Stream!Increasing(given)
      /\ \A i \in DOMAIN given : given[i] < inStart /\ given[i] \in arrived
  BY DEF CryptoInv, InOrder, Passed
<1>8. /\ given' \in Seq(Positions)
      /\ Stream!Increasing(given')
      /\ Stream!Extends(given, given')
      /\ \A i \in DOMAIN given' : given'[i] < inStart + n
      /\ \A i \in DOMAIN given' : given'[i] \in Passed \cup inStart .. inStart + n - 1
      /\ \A q \in inStart .. inStart + n - 1 : \E i \in DOMAIN given' : given'[i] = q
  <2>1. inStart + n <= Limit
    BY <1>1, <1>4
  <2>2. \A i \in DOMAIN given : given[i] < inStart
    BY <1>7
  <2>3. Gains(given, given', inStart, n) /\ inStart \in Nat /\ n \in Nat
    BY <1>1, <1>4
  <2>4. given \in Seq(Positions) /\ Stream!Increasing(given)
    BY <1>7
  <2>5. Passed = {given[k] : k \in DOMAIN given}
    BY DEF Passed
  <2>6. InOrderAfter(given, given', inStart, n)
    BY <2>1, <2>2, <2>3, <2>4, GainsInOrder
  <2>. QED  BY <2>5, <2>6 DEF InOrderAfter
<1>9. Passed' \subseteq arrived' /\ \A p \in Passed' : p < s
  <2>1. ASSUME NEW i \in DOMAIN given'  PROVE given'[i] \in arrived' /\ given'[i] < s
    <3>1. given'[i] \in Positions /\ given'[i] < inStart + n
      BY <1>8
    <3>2. given'[i] < s
      BY <3>1, <1>1, <1>4 DEF Positions
    <3>3. Passed \subseteq inset
      BY <1>3, <1>7 DEF Passed
    <3>4. inStart .. inStart + n - 1 \subseteq 0 .. s - 1
      BY <1>1, <1>4
    <3>. QED  BY <3>2, <3>3, <3>4, <1>3, <1>4, <1>8
  <2>. QED  BY <2>1 DEF Passed
<1>10. ASSUME ~failed'  PROVE 0 .. s - 1 \subseteq Passed' /\ s \notin inset'
  <2>1. inStart + n = s /\ s \notin inset' /\ ~failed
    BY <1>10, <1>4
  <2>2. 0 .. inStart - 1 \subseteq Passed
    BY <2>1 DEF CryptoInv, Prompt
  <2>3. Passed \subseteq Passed'
    <3>1. ASSUME NEW i \in DOMAIN given  PROVE \E j \in DOMAIN given' : given'[j] = given[i]
      BY <1>7, <1>8 DEF Stream!Extends
    <3>. QED  BY <3>1 DEF Passed
  <2>4. inStart .. s - 1 \subseteq Passed'
    <3>1. inStart .. s - 1 = inStart .. inStart + n - 1
      <4>1. s - 1 = inStart + n - 1
        BY <2>1, <1>1
      <4>. QED  BY <4>1, Zenon
    <3>2. \A q \in inStart .. inStart + n - 1 : \E i \in DOMAIN given' : given'[i] = q
      BY <1>8
    <3>3. \A i \in DOMAIN given' : given'[i] \in Passed'
      BY DEF Passed
    <3>. QED  BY <3>1, <3>2, <3>3
  <2>5. \A p \in 0 .. s - 1 : p \in 0 .. inStart - 1 \/ p \in inStart .. s - 1
    BY <1>1
  <2>. QED  BY <2>1, <2>2, <2>3, <2>4, <2>5
<1>11. TypeOK'
  <2>1. stored' \in SUBSET Positions
    BY DEF FrameMoves
  <2>2. given' \in Seq(Positions \cup {Rubbish})
    BY <1>8
  <2>3. keys' \in {"held", "dropped", "closed"}
    OBVIOUS
  <2>4. inStart' \in 0 .. Limit /\ inEnd' \in inStart' .. Limit
    BY <1>1, <1>4, <1>6
  <2>. QED  BY <2>1, <2>2, <2>3, <2>4, <1>3, <1>4 DEF TypeOK
<1>12. WindowReceived'
  BY <1>3, <1>4, <1>5, <1>6 DEF WindowReceived
<1>13. Prompt'
  BY <1>4, <1>10 DEF Prompt
<1>14. InOrder'
  BY <1>4, <1>8, <1>9 DEF InOrder
<1>15. NearStart'
  BY <1>6, AcceptedNearStart DEF NearStart
<1>16. StoredAhead'
  BY <1>4 DEF FrameMoves, HeldBack, StoredAhead
<1>17. NothingLost'
  BY DEF NothingLost
<1>18. Stream!StreamNext
  <2>1. ASSUME ~failed'  PROVE {given'[i] : i \in DOMAIN given'} = Stream!Whole(arrived')
    <3>1. Stream!Whole(arrived') = 0 .. s - 1
      BY <2>1, <1>1, <1>3, <1>4, <1>10, WholeEndsAtGap
    <3>2. ASSUME NEW p \in Passed'  PROVE p \in 0 .. s - 1
      <4>1. p \in Positions /\ p < s
        BY <1>3, <1>9
      <4>. QED  BY <4>1, <1>1 DEF Positions
    <3>. QED  BY <3>1, <3>2, <2>1, <1>10 DEF Passed
  <2>2. arrived' \in SUBSET Stream!Positions /\ arrived \subseteq arrived'
    BY <1>3 DEF Positions, Stream!Positions
  <2>. QED  BY <2>1, <2>2, <1>4, <1>8, <1>9 DEF Stream!StreamNext, Passed
<1>. QED
  BY <1>11, <1>12, <1>13, <1>14, <1>15, <1>16, <1>17, <1>18 DEF CryptoInv

LEMMA RefusedStep ==
    ASSUME CryptoInv, failed' = TRUE, keys' \in {keys, "closed"},
           UNCHANGED <<inset, inStart, inEnd, stored, arrived, given>>
    PROVE  CryptoInv' /\ [Stream!StreamNext]_(Stream!streamVars)
<1>1. CryptoInv'
  <2>. USE DEF CryptoInv
  <2>1. TypeOK'
    BY DEF TypeOK
  <2>2. WindowReceived' /\ Prompt' /\ NearStart' /\ StoredAhead' /\ NothingLost'
    BY DEF WindowReceived, Prompt, NearStart, StoredAhead, NothingLost
  <2>3. InOrder'
    BY DEF InOrder, Passed, Stream!Increasing
  <2>. QED  BY <2>1, <2>2, <2>3
<1>2. Stream!StreamNext
  <2>1. arrived \in SUBSET Stream!Positions /\ Passed \subseteq arrived
    BY DEF CryptoInv, TypeOK, InOrder, Positions, Stream!Positions
  <2>2. given \in Seq(Positions) /\ Stream!Increasing(given)
    BY DEF CryptoInv, InOrder
  <2>3. Stream!Extends(given, given)
    BY <2>2 DEF Stream!Extends
  <2>. QED  BY <2>1, <2>2, <2>3 DEF Stream!StreamNext, Passed
<1>. QED  BY <1>1, <1>2

LEMMA DropStep ==
    ASSUME CryptoInv, keys = "held", ~Excess, keys' = "dropped",
           inset' = {}, stored' = {}, inStart' = 0, inEnd' = 0,
           UNCHANGED <<failed, arrived, given>>
    PROVE  CryptoInv'
<1>1. /\ Limit \in Nat /\ cryptoBufferSize \in Nat \ {0}
      /\ inStart \in 0 .. Limit /\ inEnd \in inStart .. Limit
  BY SizesAssumption DEF CryptoInv, TypeOK
<1>2. TypeOK'
  BY <1>1 DEF CryptoInv, TypeOK
<1>3. WindowReceived' /\ Prompt' /\ NearStart' /\ StoredAhead'
  BY <1>1 DEF CryptoInv, WindowReceived, Prompt, NearStart, StoredAhead
<1>4. InOrder'
  BY DEF CryptoInv, InOrder, Passed, Stream!Increasing
<1>5. NothingLost'
  <2>1. inEnd = inStart
    BY <1>1 DEF Excess
  <2>2. ASSUME NEW p \in arrived  PROVE p \in 0 .. inStart - 1
    <3>1. p \in Positions /\ p < inEnd
      BY DEF CryptoInv, TypeOK, WindowReceived
    <3>. QED  BY <3>1, <2>1, <1>1 DEF Positions
  <2>3. ~failed => arrived \subseteq Passed
    BY <2>2 DEF CryptoInv, Prompt
  <2>. QED  BY <2>3 DEF NothingLost, Passed
<1>. QED  BY <1>2, <1>3, <1>4, <1>5 DEF CryptoInv

LEMMA CryptoStep ==
    ASSUME CryptoInv, [Next]_vars
    PROVE  CryptoInv' /\ [Stream!StreamNext]_(Stream!streamVars)
<1>1. ASSUME NEW off \in 0 .. Limit, NEW end \in off .. off + MaxFrame,
             end <= Limit, handleCrypto(off, end)
      PROVE  CryptoInv' /\ [Stream!StreamNext]_(Stream!streamVars)
  <2>1. end \in off .. Limit
    BY <1>1, SizesAssumption
  <2>2. CASE TooFar(end)
    BY <1>1, <2>2, RefusedStep DEF handleCrypto
  <2>3. CASE ~TooFar(end)
    <3>1. /\ keys = "held" /\ keys' = keys
          /\ inset' = inset \cup off .. end - 1 /\ arrived' = arrived \cup off .. end - 1
          /\ IF IsNext(off) THEN FastPath(off, end) ELSE SlowPath(off, end)
      BY <1>1, <2>3 DEF handleCrypto
    <3>2. PICK s \in inStart .. Limit : \E n \in 0 .. s - inStart : FrameMoves(off, end, s, n)
      BY <3>1, <2>1, FrameAccepted
    <3>3. PICK n \in 0 .. s - inStart : FrameMoves(off, end, s, n)
      BY <3>2
    <3>. QED  BY <3>1, <3>3, <2>1, <2>3, AcceptedStep
  <2>. QED  BY <2>2, <2>3
<1>2. CASE discardKeys
  <2>1. CASE Excess
    BY <1>2, <2>1, RefusedStep DEF discardKeys
  <2>2. CASE ~Excess
    BY <1>2, <2>2, DropStep DEF discardKeys, Stream!streamVars
  <2>. QED  BY <2>1, <2>2
<1>3. CASE UNCHANGED vars
  <2>. USE <1>3 DEF CryptoInv, vars
  <2>1. TypeOK' /\ WindowReceived' /\ NearStart' /\ StoredAhead' /\ NothingLost'
    BY DEF TypeOK, WindowReceived, NearStart, StoredAhead, NothingLost
  <2>2. Prompt' /\ InOrder'
    BY DEF Prompt, InOrder, Passed, Stream!Increasing
  <2>. QED  BY <2>1, <2>2 DEF Stream!streamVars
<1>. QED  BY <1>1, <1>2, <1>3 DEF Next

-----------------------------------------------------------------------------
(* The theorems                                                            *)

LEMMA CryptoInvHolds == Spec => []CryptoInv
<1>1. CryptoInv /\ [Next]_vars => CryptoInv'
  BY CryptoStep
<1>. QED  BY <1>1, CryptoInvInit, PTL DEF Spec

\* Every variable of the stream keeps to its type: above all, what is read from a place
\* of the buffer that was not written would be in `given`, and TypeOK allows it there,
\* but InOrder does not.
THEOREM StreamTypeCorrect == Spec => []TypeOK
<1>1. CryptoInv => TypeOK
  BY DEF CryptoInv
<1>. QED  BY <1>1, CryptoInvHolds, PTL

\* handleCrypto's comment holds: what was received from the window's start on is stored.
THEOREM ReceivedIsStored == Spec => []StoredAhead
<1>1. CryptoInv => StoredAhead
  BY DEF CryptoInv
<1>. QED  BY <1>1, CryptoInvHolds, PTL

\* The buffer stays within twice its size, for every size.
THEOREM BufferStaysBounded == Spec => []BufferBounded
<1>1. CryptoInv => BufferBounded
  <2>. SUFFICES ASSUME CryptoInv  PROVE BufferBounded
    OBVIOUS
  <2>1. inStart \in Nat /\ inEnd \in Nat /\ cryptoBufferSize \in Nat
    BY SizesAssumption DEF CryptoInv, TypeOK
  <2>. QED  BY <2>1 DEF CryptoInv, NearStart, BufferBounded
<1>. QED  BY <1>1, CryptoInvHolds, PTL

\* Keys dropped without an error: all that arrived was passed to TLS.
THEOREM NothingIsLost == Spec => []NothingLost
<1>1. CryptoInv => NothingLost
  BY DEF CryptoInv
<1>. QED  BY <1>1, CryptoInvHolds, PTL

\* However frames are cut, reordered, repeated or fail, TLS gets each byte once, in
\* order, as soon as all before it have arrived: every step of the patched handler is a
\* step of InOrderStream or a stutter.
THEOREM StreamIsInOrder == Spec => ImplementsInOrderStream
<1>1. Init => Stream!StreamInit
  BY DEF Init, Stream!StreamInit
<1>2. CryptoInv /\ [Next]_vars => [Stream!StreamNext]_(Stream!streamVars)
  BY CryptoStep
<1>. QED  BY <1>1, <1>2, CryptoInvHolds, PTL DEF Spec, ImplementsInOrderStream, Stream!StreamSpec

=============================================================================
