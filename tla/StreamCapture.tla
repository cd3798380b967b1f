---------------------------- MODULE StreamCapture ----------------------------
(***************************************************************************)
(* src/src/amicus/sdk/core/streamcap.py: how a stream of characters is cut *)
(* into records of a bounded size, and how records are kept in a head      *)
(* window and a rolling tail under one byte budget.  Operators only: the   *)
(* threads that use them are in ProcessRuntime.  A character is one byte;  *)
(* a record is the sequence of its characters, its separator included.     *)
(***************************************************************************)
EXTENDS Naturals, Sequences, SequencesExt, FiniteSetsExt

CONSTANTS
  Sep,        \* the record separator
  Ellipsis    \* the sentinel of a record that was cut, one byte here

MarkerBytes == 2

(* The record without its separator.                                       *)
Stripped(record) ==
  IF record # <<>> /\ Last(record) = Sep THEN Front(record) ELSE record

(* _truncate_to_marker: what fits beside the marker, which ends in Sep.    *)
CutRecord(text, cap) ==
  SubSeq(text, 1, Max({0, Min({Len(text), cap - MarkerBytes})})) \o <<Ellipsis, Sep>>

Bounded(record, cap) ==
  IF Len(record) > cap THEN CutRecord(Stripped(record), cap) ELSE record

IsLossMarker(record) == Stripped(record) # <<>> /\ Last(Stripped(record)) = Ellipsis

-----------------------------------------------------------------------------
(* The assembler between two chunks: what is pending of a record, and      *)
(* whether it has been cut and the rest of it is being thrown away.        *)
NoRecord == [pending |-> <<>>, over |-> FALSE]

SepAt(chunk) == {i \in DOMAIN chunk : chunk[i] = Sep}

(* The record a separator at i of the chunk completes.                     *)
Completed(asm, chunk, i, cap) ==
  IF asm.over THEN asm.pending ELSE Bounded(asm.pending \o SubSeq(chunk, 1, i), cap)

(* A stretch without separator is added to what is pending.                *)
Absorb(asm, chunk, cap) ==
  LET text == asm.pending \o chunk
      over == Len(text) > cap
  IN  IF asm.over THEN asm
      ELSE [pending |-> IF over THEN CutRecord(text, cap) ELSE text, over |-> over]

-----------------------------------------------------------------------------
(* BoundedCapture.                                                         *)
Empty == [head |-> <<>>, tail |-> <<>>, truncated |-> FALSE]

Bytes(records) == Len(FlattenSeq(records))
Retained(capture) == Bytes(capture.head) + Bytes(capture.tail)

HeadBudget(cap) == Max({1, cap \div 2})

FitsHead(capture, record, cap) ==
  /\ ~capture.truncated
  /\ capture.tail = <<>>
  /\ Bytes(capture.head) + Len(record) <= HeadBudget(cap)

(* The oldest records of the tail go until the rest fits; all of them if   *)
(* need be.                                                                *)
Dropped(head, tail, cap) ==
  Min({k \in 0..Len(tail) :
         k = Len(tail) \/ Bytes(head) + Bytes(SubSeq(tail, k + 1, Len(tail))) <= cap})

(* mutant: a record alone in the tail is never dropped *)
ToTailKeepsOne(capture, record, cap) ==
  LET tail == Append(capture.tail, record)
      k == Min({Len(tail) - 1, Dropped(capture.head, tail, cap)})
  IN  [capture EXCEPT !.tail = SubSeq(tail, k + 1, Len(tail)),
                      !.truncated = @ \/ k > 0]

ToTail(capture, record, cap) ==
  LET tail == Append(capture.tail, record)
      k == Dropped(capture.head, tail, cap)
  IN  [capture EXCEPT !.tail = SubSeq(tail, k + 1, Len(tail)),
                      !.truncated = @ \/ k > 0]

Add(capture, record, cap) ==
  IF FitsHead(capture, record, cap)
  THEN [capture EXCEPT !.head = Append(@, record)]
  ELSE ToTail(capture, record, cap)

=============================================================================
