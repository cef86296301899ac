------------------------------ MODULE NasCount ------------------------------
(***************************************************************************)
(* The NAS COUNT of both ends: an overflow counter above a sequence number *)
(* of which only the latter travels in a message (security.Count, as       *)
(* onvm_test/security.go uses it: 8 bits of sequence number, 16 of         *)
(* overflow), and what the harness does to the pair of counts that a UE    *)
(* context holds, ul and dl.  A count is a record, so that both widths are *)
(* parameters.                                                             *)
(***************************************************************************)
EXTENDS Naturals

CONSTANTS
    SqnMod,   \* 256 in the code: the sequence number is a uint8
    OvfMod    \* 65536 in the code: the overflow counter is a uint16

ASSUME WidthAssumption == SqnMod \in Nat \ {0, 1} /\ OvfMod \in Nat \ {0, 1}

Count == [ovf : 0..OvfMod - 1, sqn : 0..SqnMod - 1]

\* Count.Set(overflow, sqn), and the count of a context just created.
SetCount(overflow, sequenceNumber) == [ovf |-> overflow, sqn |-> sequenceNumber]
ZeroCount == SetCount(0, 0)

\* Variant: the uint16 does not wrap.
WideOverflow(overflow) == overflow + 1

NextOverflow(overflow) == IF overflow + 1 = OvfMod THEN 0 ELSE overflow + 1

\* Variants: the carry is dropped; the uint8 does not wrap.
AddOneNoCarry(c) == [c EXCEPT !.sqn = IF @ + 1 = SqnMod THEN 0 ELSE @ + 1]
AddOneUnwrapped(c) == [c EXCEPT !.sqn = @ + 1]

\* Count.AddOne: a carry out of the sequence number goes to the overflow.
AddOne(c) ==
    IF c.sqn + 1 = SqnMod
    THEN SetCount(NextOverflow(c.ovf), 0)
    ELSE [c EXCEPT !.sqn = @ + 1]

\* Variant: an equal sequence number counts as a wrap.
EagerEstimate(c, sqn) ==
    IF c.sqn >= sqn THEN SetCount(NextOverflow(c.ovf), sqn)
                    ELSE [c EXCEPT !.sqn = sqn]

\* The receiver's estimate of the count behind sequence number sqn, when c is
\* the count of the last message it has decoded.
Estimate(c, sqn) ==
    IF c.sqn > sqn THEN SetCount(NextOverflow(c.ovf), sqn)
                   ELSE [c EXCEPT !.sqn = sqn]

-----------------------------------------------------------------------------
(* What NASEncode, NASDecode and the handovers do to a context c            *)

\* A protected message: the count itself does not travel, only its sequence
\* number; count is kept to state what the receiver should conclude.
Protected(count, newContext) ==
    [sqn |-> count.sqn, count |-> count, newContext |-> newContext]

ProtectedMessage == [sqn : 0..SqnMod - 1, count : Count, newContext : BOOLEAN]

\* NASEncode: a new security context starts both counts...
StartCounts(c, newContext) ==
    IF newContext THEN [c EXCEPT !.ul = ZeroCount, !.dl = ZeroCount] ELSE c

\* ...and the message carries the count before the increment.
AfterEncode(c, newContext) == [StartCounts(c, newContext) EXCEPT !.ul = AddOne(@)]
Encoded(c, newContext) == Protected(StartCounts(c, newContext).ul, newContext)

\* NASDecode: a header type "with new context" resets the count before the
\* estimate; the count moves whether or not the MAC matches.
Decode(c, m) == Estimate(IF m.newContext THEN ZeroCount ELSE c, m.sqn)

\* deepcopy.Copy: the counts' only field is unexported and is not copied.
DeepCopy(c) == [c EXCEPT !.ul = ZeroCount, !.dl = ZeroCount]

\* Variant: the counts are not set again.
CopyUnrestored(c) == DeepCopy(c)

\* The copy made for the target gNB, both counts set from the source's.
TargetCopy(c) ==
    [DeepCopy(c) EXCEPT !.ul = SetCount(c.ul.ovf, c.ul.sqn),
                        !.dl = SetCount(c.dl.ovf, c.dl.sqn)]

=============================================================================
