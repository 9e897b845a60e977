---------------------------- MODULE ChatWsProxy -----------------------------
(***************************************************************************)
(* One WebSocket passed through by chat_ws_proxy.go: the handler that      *)
(* dials the upstream, hijacks the client's connection and sends the       *)
(* upgrade request on, and the two goroutines that copy bytes from then    *)
(* on, each of which closes both connections when it ends.                 *)
(*                                                                         *)
(* The peers are the client and the upstream server.  A byte is its        *)
(* position in what its peer sends, the upgrade request counts as byte 0.  *)
(* A peer may stop sending and still read ("fin"), or be gone: then writes *)
(* to it fail sooner or later.  Nobody makes a peer read.                  *)
(***************************************************************************)
EXTENDS Naturals, Sequences

CONSTANTS
    MaxBytes,   \* bound: bytes each peer sends
    Window      \* writes that fit into socket buffers before they block

ASSUME ChatWsProxyAssumption == MaxBytes \in Nat /\ Window \in Nat \ {0}

Client == "client"
Upstream == "upstream"
End == {Client, Upstream}
Other(e) == IF e = Client THEN Upstream ELSE Client
Byte == 0..MaxBytes

VARIABLES
    pc,         \* the handler
    conn,       \* the proxy's hold on each connection
    peer,       \* what each peer still does
    sent,       \* bytes each peer has sent
    inbox,      \* of these, the ones that arrived and were not read
    buffered,   \* what the bufio.Reader of the hijacked connection holds
    pending,    \* writes to each peer that it has not read
    got,        \* bytes written to each peer
    copier      \* proxyChatWSBytes, by the connection it reads from

handler == <<pc, buffered>>
streams == <<sent, inbox>>
vars == <<pc, conn, peer, sent, inbox, buffered, pending, got, copier>>

Pc == {"check", "dial", "hijack", "upgrade", "buffered", "spawn", "returned"}
Copier == [at : {"none", "read", "write", "closeDst", "closeSrc", "ended"}, chunk : Seq(Byte)]

TypeOK ==
    /\ pc \in Pc
    /\ conn \in [End -> {"none", "served", "open", "closed"}]
    /\ peer \in [End -> {"open", "fin", "gone"}]
    /\ sent \in [End -> Seq(Byte)]
    /\ inbox \in [End -> Seq(Byte)]
    /\ buffered \in Seq(Byte)
    /\ pending \in [End -> 0..Window]
    /\ got \in [End -> Seq(Byte)]
    /\ copier \in [End -> Copier]

\* The client is connected to the HTTP server, the upstream to nobody.
Init ==
    /\ pc = "check"
    /\ conn = [e \in End |-> IF e = Client THEN "served" ELSE "none"]
    /\ peer = [e \in End |-> "open"]
    /\ sent = [e \in End |-> <<>>]
    /\ inbox = sent
    /\ buffered = <<>>
    /\ pending = [e \in End |-> 0]
    /\ got = sent
    /\ copier = [e \in End |-> [at |-> "none", chunk |-> <<>>]]

-----------------------------------------------------------------------------
(***************************************************************************)
(* The handler.                                                            *)
(***************************************************************************)
At(here) == pc = here
GoTo(there) == pc' = there
CloseBoth == conn' = [e \in End |-> "closed"]

\* No upgrade asked for, no valid app token, or no upstream configured.
Reject ==
    /\ At("check")
    /\ GoTo("returned")
    /\ UNCHANGED <<conn, peer, streams, buffered, pending, got, copier>>

Admit ==
    /\ At("check")
    /\ GoTo("dial")
    /\ UNCHANGED <<conn, peer, streams, buffered, pending, got, copier>>

\* dialChatWSUpstream gives up after five seconds.
Dial ==
    /\ At("dial")
    /\ \/ GoTo("hijack") /\ conn' = [conn EXCEPT ![Upstream] = "open"]
       \/ GoTo("returned") /\ UNCHANGED conn
    /\ UNCHANGED <<peer, streams, buffered, pending, got, copier>>

\* The HTTP server may have read ahead of the request: that part stays in its reader.
Hijack ==
    /\ At("hijack")
    /\ \E n \in 0..Len(inbox[Client]) :
        /\ buffered' = SubSeq(inbox[Client], 1, n)
        /\ inbox' = [inbox EXCEPT ![Client] = SubSeq(@, n + 1, Len(@))]
    /\ conn' = [conn EXCEPT ![Client] = "open"]
    /\ GoTo("upgrade")
    /\ UNCHANGED <<peer, sent, pending, got, copier>>

\* Mutant: the early return forgets the connection it dialed.
LeavesUpstream == conn
ClosesUpstream == [conn EXCEPT ![Upstream] = "closed"]
HijackFails ==
    /\ At("hijack")
    /\ conn' = ClosesUpstream
    /\ GoTo("returned")
    /\ UNCHANGED <<peer, streams, buffered, pending, got, copier>>

\* A write of some bytes, which waits while the socket's buffers are full.
WriteTo(e, bytes) ==
    /\ pending[e] < Window
    /\ pending' = [pending EXCEPT ![e] = @ + 1]
    /\ got' = [got EXCEPT ![e] = @ \o bytes]

WriteUpgradeRequest ==
    /\ At("upgrade")
    /\ WriteTo(Upstream, <<0>>)
    /\ GoTo("buffered")
    /\ UNCHANGED <<conn, peer, streams, buffered, copier>>

\* Mutant: what the reader holds is left there.
ForwardsNothing == <<>>
Forwarded == buffered
ForwardBuffered ==
    /\ At("buffered")
    /\ \/ /\ Forwarded # <<>>
          /\ WriteTo(Upstream, Forwarded)
       \/ /\ Forwarded = <<>>
          /\ UNCHANGED <<pending, got>>
    /\ buffered' = <<>>
    /\ GoTo("spawn")
    /\ UNCHANGED <<conn, peer, streams, copier>>

SetupFails ==
    /\ At("upgrade") \/ (At("buffered") /\ buffered # <<>>)
    /\ peer[Upstream] = "gone"
    /\ CloseBoth
    /\ GoTo("returned")
    /\ UNCHANGED <<peer, streams, buffered, pending, got, copier>>

\* Mutant: nobody copies what the upstream sends.
OneCopier == [copier EXCEPT ![Client].at = "read"]
BothCopiers == [e \in End |-> [at |-> "read", chunk |-> <<>>]]
StartCopiers ==
    /\ At("spawn")
    /\ copier' = BothCopiers
    /\ GoTo("returned")
    /\ UNCHANGED <<conn, peer, streams, buffered, pending, got>>

HandlerStep ==
    \/ Reject \/ Admit \/ Dial \/ Hijack \/ HijackFails
    \/ WriteUpgradeRequest \/ ForwardBuffered \/ SetupFails \/ StartCopiers

-----------------------------------------------------------------------------
(***************************************************************************)
(* proxyChatWSBytes(Other(e), e).                                          *)
(***************************************************************************)
Copies(e, at) == copier[e].at = at
Move(e, at) == copier' = [copier EXCEPT ![e].at = at]

\* Mutant: the copied part stays in the socket.
Unread(s, n) == s
AfterRead(s, n) == SubSeq(s, n + 1, Len(s))
AtEnd(e) == peer[e] = "fin" /\ inbox[e] = <<>>

Read(e) ==
    /\ Copies(e, "read")
    /\ conn[e] = "open"
    /\ \E n \in 1..Len(inbox[e]) :
        /\ copier' = [copier EXCEPT ![e] = [at |-> "write", chunk |-> SubSeq(inbox[e], 1, n)]]
        /\ inbox' = [inbox EXCEPT ![e] = AfterRead(@, n)]
    /\ UNCHANGED <<handler, conn, peer, sent, pending, got>>

ReadEnds(e) ==
    /\ Copies(e, "read")
    /\ conn[e] = "closed" \/ peer[e] = "gone" \/ AtEnd(e)
    /\ Move(e, "closeDst")
    /\ UNCHANGED <<handler, conn, peer, streams, pending, got>>

Write(e) ==
    /\ Copies(e, "write")
    /\ conn[Other(e)] = "open"
    /\ WriteTo(Other(e), copier[e].chunk)
    /\ copier' = [copier EXCEPT ![e] = [at |-> "read", chunk |-> <<>>]]
    /\ UNCHANGED <<handler, conn, peer, streams>>

WriteFails(e) ==
    /\ Copies(e, "write")
    /\ conn[Other(e)] = "closed" \/ peer[Other(e)] = "gone"
    /\ Move(e, "closeDst")
    /\ UNCHANGED <<handler, conn, peer, streams, pending, got>>

\* Mutant: a copier closes the connection it read from only.
ClosedBefore(e) == conn
ClosedDst(e) == [conn EXCEPT ![Other(e)] = "closed"]
CloseDst(e) ==
    /\ Copies(e, "closeDst")
    /\ conn' = ClosedDst(e)
    /\ Move(e, "closeSrc")
    /\ UNCHANGED <<handler, peer, streams, pending, got>>

CloseSrc(e) ==
    /\ Copies(e, "closeSrc")
    /\ conn' = [conn EXCEPT ![e] = "closed"]
    /\ Move(e, "ended")
    /\ UNCHANGED <<handler, peer, streams, pending, got>>

CopierStep(e) ==
    Read(e) \/ ReadEnds(e) \/ Write(e) \/ WriteFails(e) \/ CloseDst(e) \/ CloseSrc(e)

-----------------------------------------------------------------------------
(***************************************************************************)
(* The peers.  What a peer sends to a connection that was closed is lost   *)
(* without a trace and left out.                                           *)
(***************************************************************************)
Connected(e) == conn[e] \in {"served", "open"}

PeerSends(e) ==
    /\ Connected(e)
    /\ peer[e] = "open"
    /\ Len(sent[e]) < MaxBytes
    /\ sent' = [sent EXCEPT ![e] = Append(@, Len(@) + 1)]
    /\ inbox' = [inbox EXCEPT ![e] = Append(@, Len(sent[e]) + 1)]
    /\ UNCHANGED <<handler, conn, peer, pending, got, copier>>

PeerReads(e) ==
    /\ peer[e] # "gone"
    /\ pending[e] > 0
    /\ pending' = [pending EXCEPT ![e] = @ - 1]
    /\ UNCHANGED <<handler, conn, peer, streams, got, copier>>

PeerHangsUp(e) ==
    /\ Connected(e)
    /\ \/ peer[e] = "open" /\ peer' = [peer EXCEPT ![e] = "fin"]
       \/ peer[e] # "gone" /\ peer' = [peer EXCEPT ![e] = "gone"]
    /\ UNCHANGED <<handler, conn, streams, pending, got, copier>>

Next ==
    \/ HandlerStep
    \/ \E e \in End : CopierStep(e) \/ PeerSends(e) \/ PeerReads(e) \/ PeerHangsUp(e)

\* The goroutines run when they can; the dialer has a timeout.  The peers owe nothing.
Spec == Init /\ [][Next]_vars /\ WF_vars(HandlerStep) /\ \A e \in End : WF_vars(CopierStep(e))

-----------------------------------------------------------------------------
Hello(e) == IF e = Client THEN <<0>> ELSE <<>>

Pipe == INSTANCE DuplexPipe WITH
            Word <- Byte,
            said <- [e \in End |-> Hello(e) \o sent[e]],
            heard <- got,
            side <- [e \in End |-> IF conn[e] \in {"none", "served"} THEN "new" ELSE conn[e]]

\* Read-ahead bytes, copies in flight and connections closed under a copier's hands
\* keep the promise of DuplexPipe: the upgrade request first, then the client's bytes.
RelaysInOrder == Pipe!Spec

\* No way out of the handler and no end of the copiers leaves a connection behind.
NobodyRuns == pc = "returned" /\ \A e \in End : copier[e].at \in {"none", "ended"}
NothingLeftOpen == NobodyRuns => \A e \in End : conn[e] # "open"

\* A peer that stops sending but reads on, while the other one does neither stop nor
\* vanish, gets everything it sent through before the connections are closed.
HalfCloseDelivers ==
    \A e \in End :
        /\ peer[e] # "gone"
        /\ peer[Other(e)] = "open"
        /\ copier[e].at \in {"closeDst", "closeSrc", "ended"}
        => got[Other(e)] = Hello(e) \o sent[e]

\* The premise of what must happen in the end: no peer stops reading for good with its
\* socket full.  The proxy sets no deadlines, and a write to a peer that does blocks for
\* as long as the peer lives.
PeersKeepReading == \A e \in End : []<>(pending[e] < Window \/ peer[e] = "gone")

\* Once either peer hangs up, all goroutines end and no connection stays open, provided
\* that the peers keep reading.
Over == NobodyRuns /\ \A e \in End : conn[e] # "open"
HangUpEndsRelay ==
    PeersKeepReading => \A e \in End : conn[e] = "open" /\ peer[e] # "open" ~> Over

\* From the hijack on, every byte either peer has sent gets to the other one in the end,
\* the bytes sent before the copiers ran among them, unless one of the two hangs up: no
\* goroutine waits for the other direction, and none ends while both peers are there.
SentBytesArrive ==
    PeersKeepReading =>
        \A e \in End : \A n \in 1..MaxBytes :
            conn[Client] = "open" /\ Len(sent[e]) >= n
                ~> \/ Len(got[Other(e)]) >= Len(Hello(e)) + n
                   \/ \E d \in End : peer[d] # "open"
=============================================================================
