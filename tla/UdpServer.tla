------------------------------ MODULE UdpServer -----------------------------
(***************************************************************************)
(* The UDP echo server (udpserver/main.go): one loop reads datagrams, each *)
(* into a buffer of its own, and a goroutine per datagram sends the buffer *)
(* back, in any order.  The network below loses and reorders.              *)
(***************************************************************************)
EXTENDS Naturals, Sequences, FiniteSets

CONSTANTS
    Datagrams,  \* what the clients send: [from, data, len], each once
    BufferSize  \* 1024 in the code

ASSUME ServerAssumption ==
    /\ BufferSize \in Nat \ {0}
    /\ \A d \in Datagrams : d.len \in Nat

VARIABLES
    inFlight,  \* datagrams on their way to the server
    buffers,   \* the buffers allocated so far
    serving,   \* the goroutines that have not sent yet: [addr, buf]
    echoed,    \* what has been sent back: [to, data, len]
    up         \* no read and no write has failed

serverVars == <<inFlight, buffers, serving, echoed, up>>

ServerInit ==
    /\ inFlight = Datagrams
    /\ buffers = <<>>
    /\ serving = {}
    /\ echoed = {}
    /\ up = TRUE

\* What fits of a datagram in a buffer.
Received(d) == [data |-> d.data, len |-> IF d.len > BufferSize THEN BufferSize ELSE d.len]

\* Variant: the buffer is allocated once, before the loop.
ReadIntoShared(d) ==
    /\ up /\ d \in inFlight
    /\ inFlight' = inFlight \ {d}
    /\ buffers' = << Received(d) >>
    /\ serving' = serving \cup {[addr |-> d.from, buf |-> 1]}
    /\ UNCHANGED <<echoed, up>>

\* buf := make([]byte, 1024); ReadFrom(buf); go serve(listener, addr, buf[:n])
ReadFrom(d) ==
    /\ up /\ d \in inFlight
    /\ inFlight' = inFlight \ {d}
    /\ buffers' = Append(buffers, Received(d))
    /\ serving' = serving \cup {[addr |-> d.from, buf |-> Len(buffers) + 1]}
    /\ UNCHANGED <<echoed, up>>

serve(s) ==
    /\ up /\ s \in serving
    /\ echoed' = echoed \cup {[to |-> s.addr, data |-> buffers[s.buf].data,
                               len |-> buffers[s.buf].len]}
    /\ serving' = serving \ {s}
    /\ UNCHANGED <<inFlight, buffers, up>>

Lose(d) ==
    /\ d \in inFlight
    /\ inFlight' = inFlight \ {d}
    /\ UNCHANGED <<buffers, serving, echoed, up>>

\* A failed read makes action return, a failed write ends the process: either
\* way no goroutine sends any more.
Fail ==
    /\ up
    /\ up' = FALSE
    /\ serving' = {}
    /\ UNCHANGED <<inFlight, buffers, echoed>>

ServerNext ==
    \/ \E d \in inFlight : ReadFrom(d) \/ Lose(d)
    \/ \E s \in serving : serve(s)
    \/ Fail

ServerSpec == ServerInit /\ [][ServerNext]_serverVars

-----------------------------------------------------------------------------
\* Whatever is read while goroutines are about to send, each client gets back
\* what it sent itself, cut at the buffer's size, and nobody else's data.
EchoesItsOwn ==
    \A e \in echoed : \E d \in Datagrams :
        d.from = e.to /\ Received(d) = [data |-> e.data, len |-> e.len]

=============================================================================
