---------------------------- MODULE NasSecurity -----------------------------
(***************************************************************************)
(* The NAS security context of an emulated UE (RanUeContext, NASEncode and *)
(* NASDecode) against an AMF, over one N2 association: two FIFO queues.    *)
(* The UE decodes some of the downlink messages and only reads past the    *)
(* others, which is how the test procedures treat what they do not need,   *)
(* so its downlink count moves in jumps.  A handover replaces the context  *)
(* by a deep copy, which loses the two counts (their field is unexported)  *)
(* until they are set again.                                               *)
(*                                                                         *)
(* The AMF is not part of this repository: its actions are what the        *)
(* procedures expect of it.                                                *)
(***************************************************************************)
EXTENDS NasCount, Sequences, FiniteSets

CONSTANTS
    MaxContexts,  \* bound: UE contexts, one after the other, as a worker makes them
    MaxUplink,    \* bound: protected uplink messages under one context
    MaxDownlink,  \* bound: protected downlink messages under one context
    MaxInFlight,  \* bound: messages in one queue
    MaxSkipped    \* messages in a row the UE reads without decoding them

ASSUME BoundAssumption ==
    /\ MaxContexts \in Nat \ {0} /\ MaxUplink \in Nat /\ MaxDownlink \in Nat /\ MaxInFlight \in Nat
    /\ MaxSkipped \in Nat
    /\ MaxUplink <= SqnMod * OvfMod

\* The longest procedure skips far fewer than 255 messages in a row.
ASSUME SkipAssumption == MaxSkipped + 1 < SqnMod

VARIABLES
    ue,        \* [key, ul, dl]: the keys derived last (0: none) and the two counts
    phase,     \* where the UE is in the registration
    amf,       \* [key, ul, dl, secured]: the AMF's view of the same UE
    up,        \* uplink queue of protected messages
    down,      \* downlink queue of protected messages
    skipped,   \* messages read since the last one decoded
    used,      \* history: the <<key, count>> pairs of protected uplink messages
    sent       \* history: protected messages sent up and down under this context

vars == <<ue, phase, amf, up, down, skipped, used, sent>>

Phases == {"idle", "authenticated", "secured"}

Init ==
    /\ ue = [key |-> 0, ul |-> ZeroCount, dl |-> ZeroCount]
    /\ phase = "idle"
    /\ amf = [key |-> 0, ul |-> ZeroCount, dl |-> ZeroCount, secured |-> FALSE]
    /\ up = <<>>
    /\ down = <<>>
    /\ skipped = 0
    /\ used = {}
    /\ sent = [up |-> 0, down |-> 0]

-----------------------------------------------------------------------------
(* The UE                                                                   *)

\* DeriveRESstarAndSetKey on the challenge of a plain Authentication Request;
\* every context is authenticated once, with fresh keys.
Authenticate ==
    /\ phase = "idle"
    /\ ue' = [ue EXCEPT !.key = @ + 1]
    /\ phase' = "authenticated"
    /\ UNCHANGED <<amf, up, down, skipped, used, sent>>

\* NASEncode with a security context.
Encode(newContext) ==
    LET m == Encoded(ue, newContext)
    IN  /\ sent.up < MaxUplink
        /\ Len(up) < MaxInFlight
        /\ up' = Append(up, m)
        /\ ue' = AfterEncode(ue, newContext)
        /\ used' = used \cup {<<ue.key, m.count>>}
        /\ sent' = [sent EXCEPT !.up = @ + 1]

\* Security Mode Complete, after the command has been read (decoded or not).
CompleteSecurityMode ==
    /\ phase = "authenticated"
    /\ sent.down > 0
    /\ down = <<>>
    /\ phase' = "secured"
    /\ Encode(TRUE)
    /\ UNCHANGED <<amf, down, skipped>>

\* Every later uplink message: Registration Complete, PDU session
\* establishment, service and mobility registration requests.
SendUplink ==
    /\ phase = "secured"
    /\ Encode(FALSE)
    /\ UNCHANGED <<phase, amf, down, skipped>>

\* NASDecode of the message just read.
DecodeDownlink ==
    /\ down # <<>>
    /\ ue' = [ue EXCEPT !.dl = Decode(@, Head(down))]
    /\ down' = Tail(down)
    /\ skipped' = 0
    /\ UNCHANGED <<phase, amf, up, used, sent>>

\* A Read whose result no procedure hands to NASDecode.
SkipDownlink ==
    /\ down # <<>>
    /\ skipped < MaxSkipped
    /\ down' = Tail(down)
    /\ skipped' = skipped + 1
    /\ UNCHANGED <<ue, phase, amf, up, used, sent>>

\* A handover: the context becomes the copy made for the target gNB.
MoveToTarget ==
    /\ phase = "secured"
    /\ ue' = TargetCopy(ue)
    /\ UNCHANGED <<phase, amf, up, down, skipped, used, sent>>

\* The worker's next UE: connections closed, NewRanUeContext, new association.
NewRanUeContext ==
    /\ phase = "secured"
    /\ ue.key < MaxContexts
    /\ ue' = [ue EXCEPT !.ul = ZeroCount, !.dl = ZeroCount]
    /\ phase' = "idle"
    /\ amf' = [key |-> ue.key, ul |-> ZeroCount, dl |-> ZeroCount, secured |-> FALSE]
    /\ up' = <<>>
    /\ down' = <<>>
    /\ skipped' = 0
    /\ sent' = [up |-> 0, down |-> 0]
    /\ UNCHANGED used

-----------------------------------------------------------------------------
(* The AMF                                                                  *)

Post(c, newContext) ==
    /\ sent.down < MaxDownlink
    /\ Len(down) < MaxInFlight
    /\ down' = Append(down, Protected(c.dl, newContext))
    /\ amf' = [c EXCEPT !.dl = AddOne(@)]
    /\ sent' = [sent EXCEPT !.down = @ + 1]
    /\ UNCHANGED <<ue, phase, up, skipped, used>>

\* The Authentication Response has arrived: Security Mode Command under the
\* new keys, which starts both counts.
CommandSecurityMode ==
    /\ phase = "authenticated"
    /\ amf.key # ue.key
    /\ Post([amf EXCEPT !.key = ue.key, !.ul = ZeroCount, !.dl = ZeroCount], TRUE)

SendDownlink ==
    /\ amf.secured
    /\ Post(amf, FALSE)

ReceiveUplink ==
    /\ up # <<>>
    /\ amf' = [amf EXCEPT !.ul = Decode(@, Head(up)), !.secured = TRUE]
    /\ up' = Tail(up)
    /\ UNCHANGED <<ue, phase, down, skipped, used, sent>>

Next ==
    \/ Authenticate
    \/ CompleteSecurityMode
    \/ SendUplink
    \/ DecodeDownlink
    \/ SkipDownlink
    \/ MoveToTarget
    \/ NewRanUeContext
    \/ CommandSecurityMode
    \/ SendDownlink
    \/ ReceiveUplink

Spec == Init /\ [][Next]_vars

-----------------------------------------------------------------------------
(* Properties                                                               *)

TypeOK ==
    /\ ue \in [key : 0..MaxContexts, ul : Count, dl : Count]
    /\ phase \in Phases
    /\ amf \in [key : 0..MaxContexts, ul : Count, dl : Count, secured : BOOLEAN]
    /\ up \in Seq(ProtectedMessage) /\ Len(up) <= MaxInFlight
    /\ down \in Seq(ProtectedMessage) /\ Len(down) <= MaxInFlight
    /\ skipped \in 0..MaxSkipped
    /\ used \subseteq (0..MaxContexts) \X Count
    /\ sent \in [up : 0..MaxUplink, down : 0..MaxDownlink]

\* Both ends reconstruct the count of every message they decode: the UE however
\* many it has read past since the last one, the AMF although the context has
\* been copied at handovers.
CountsExact ==
    [][/\ DecodeDownlink => ue'.dl = Head(down).count
       /\ ReceiveUplink => amf'.ul = Head(up).count]_vars

\* No two uplink messages are protected under the same keys and count.
UplinkCountFresh ==
    [][Len(up') > Len(up) => <<ue.key, up'[Len(up')].count>> \notin used]_vars

=============================================================================
