---------------------------- MODULE CryptoStream ----------------------------
(***************************************************************************)
(* third_party/golang.org/x/net/quic: the receiving side of a cryptoStream *)
(* with this project's patch of handleCrypto, fed by CRYPTO frames that    *)
(* come in any order, overlap, repeat and go on after an error until the   *)
(* connection drains.                                                      *)
(*                                                                         *)
(* A byte is its position in the stream; what is read from a place of the  *)
(* buffer that was not written is Rubbish.  `arrived` and `given` are      *)
(* histories: positions received, positions passed to TLS.                 *)
(***************************************************************************)
EXTENDS Integers, Sequences

CONSTANTS
    Limit,           \* bound: stream positions are below it
    MaxFrame,        \* bound: length of a frame
    cryptoBufferSize

ASSUME SizesAssumption ==
    /\ Limit \in Nat
    /\ MaxFrame \in Nat
    /\ cryptoBufferSize \in Nat \ {0}

VARIABLES
    inset,   \* positions recorded as received
    inStart, \* in.start and in.end: the window of the buffer
    inEnd,
    stored,  \* the positions in the window that were written
    keys,    \* whether the packet protection keys are still there
    failed,  \* an error was returned, the connection is closing
    arrived, given

vars == <<inset, inStart, inEnd, stored, keys, failed, arrived, given>>

Positions == 0 .. Limit - 1
Rubbish == -1

Larger(a, b) == IF a >= b THEN a ELSE b

TypeOK ==
    /\ inset \in SUBSET Positions
    /\ inStart \in 0 .. Limit /\ inEnd \in inStart .. Limit
    /\ stored \in SUBSET Positions
    /\ keys \in {"held", "dropped", "closed"}
    /\ failed \in BOOLEAN
    /\ arrived \in SUBSET Positions
    /\ given \in Seq(Positions \cup {Rubbish})

-----------------------------------------------------------------------------
(* Faulty variants of definitions below                                    *)

\* handleCrypto before the patch.
AfterFailureStaying(end) == inStart

EndUnmoved(top, off) == top

IsNextOrOld(off) == off <= inStart

NeverTooFar(end) == FALSE

-----------------------------------------------------------------------------

\* rangeset: its minimum, and the end of its first range.
insetMin(s) == IF s = {} THEN 0 ELSE CHOOSE p \in s : \A q \in s : p <= q

FirstEnd(s) ==
    CHOOSE e \in insetMin(s) + 1 .. Limit :
        /\ insetMin(s) .. e - 1 \subseteq s
        /\ e \notin s

Init ==
    /\ inset = {} /\ stored = {} /\ arrived = {}
    /\ inStart = 0 /\ inEnd = 0
    /\ keys = "held"
    /\ failed = FALSE
    /\ given = <<>>

TooFar(end) == end - insetMin(inset) > cryptoBufferSize

\* A chunk on which the handler fails is passed over.
AfterFailure(end) == end

\* pipe.discardBefore moves the end as well, if need be.
EndAfter(top, off) == Larger(top, off)

Discard(off, top, kept) ==
    /\ inStart' = off
    /\ inEnd' = EndAfter(top, off)
    /\ stored' = {p \in kept : p >= off}

\* pipe.read of n positions.
Read(from, n, kept) ==
    [i \in 1 .. n |-> IF from + i - 1 \in kept THEN from + i - 1 ELSE Rubbish]

\* What is received from position `from` on is passed on, all of it or, if the handler
\* fails, a part; it is discarded in either case.
Drain(from, top, kept, received, before) ==
    IF from \in received /\ FirstEnd(received) > from
    THEN LET size == FirstEnd(received) - from
         IN  \E n \in 1 .. size, failing \in BOOLEAN :
               /\ n < size => failing
               /\ given' = before \o Read(from, n, kept)
               /\ failed' = (failed \/ failing)
               /\ Discard(from + size, top, kept)
    ELSE given' = before /\ Discard(from, top, kept) /\ UNCHANGED failed

\* The next chunk goes to the handler at once.
IsNext(off) == off = inStart

FastPath(off, end) ==
    LET handed == given \o Read(off, end - off, off .. end - 1)
    IN  \/ Drain(end, EndAfter(inEnd, end), stored, inset \cup off .. end - 1, handed)
        \/ /\ given' = handed
           /\ failed' = TRUE
           /\ Discard(AfterFailure(end), inEnd, stored)

\* Any other frame is stored as far as it lies in the window (pipe.writeAt).
SlowPath(off, end) ==
    Drain(inStart, Larger(inEnd, end), stored \cup {p \in off .. end - 1 : p >= inStart},
          inset \cup off .. end - 1, given)

handleCrypto(off, end) ==
    /\ keys = "held"
    /\ \/ TooFar(end) /\ failed' = TRUE
          /\ UNCHANGED <<inset, inStart, inEnd, stored, arrived, given>>
       \/ /\ ~TooFar(end)
          /\ inset' = inset \cup off .. end - 1
          /\ arrived' = arrived \cup off .. end - 1
          /\ IF IsNext(off) THEN FastPath(off, end) ELSE SlowPath(off, end)
    /\ UNCHANGED keys

\* A faulty variant: only what could be read at once is noticed.
ExcessInFirstRange == inset # {} /\ FirstEnd(inset) > inStart

Excess == inEnd - inStart # 0

\* Data that was not processed makes it an error; the keys are gone in either case.
discardKeys ==
    /\ keys = "held"
    /\ \/ /\ Excess
          /\ keys' = "closed"
          /\ failed' = TRUE
          /\ UNCHANGED <<inset, inStart, inEnd, stored>>
       \/ /\ ~Excess
          /\ keys' = "dropped"
          /\ inset' = {} /\ stored' = {} /\ inStart' = 0 /\ inEnd' = 0
          /\ UNCHANGED failed
    /\ UNCHANGED <<arrived, given>>

Next ==
    \/ discardKeys
    \/ \E off \in 0 .. Limit : \E end \in off .. off + MaxFrame :
         end <= Limit /\ handleCrypto(off, end)

Spec == Init /\ [][Next]_vars

-----------------------------------------------------------------------------
(* Properties                                                              *)

\* The comment of handleCrypto's patch states the invariant: "[s.in.start,
\* s.inset[0].end) is stored in the pipe"; and so is all else that was received and not
\* passed over, which a later frame will make the stream read.
StoredAhead == {p \in inset : p >= inStart} \subseteq stored

\* Out-of-order data is buffered within limits: however frames come, the window is
\* shorter than twice the buffer size, since the first range may begin behind a gap.
BufferBounded == inEnd - inStart < 2 * cryptoBufferSize

\* Keys are dropped without an error only when every byte that arrived has been passed
\* to TLS, as long as no handler failed (discardKeys).
NothingLost ==
    (keys = "dropped" /\ ~failed) => arrived \subseteq {given[i] : i \in DOMAIN given}

\* TLS gets the stream that InOrderStream promises, whatever frames do and after errors
\* of its own: no byte twice, early, late or made up.
Stream == INSTANCE InOrderStream
ImplementsInOrderStream == Stream!StreamSpec

=============================================================================
