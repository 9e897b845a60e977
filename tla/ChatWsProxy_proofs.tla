------------------------- MODULE ChatWsProxy_proofs -------------------------
(***************************************************************************)
(* Proofs about ChatWsProxy, for any number of bytes and any window.       *)
(***************************************************************************)
EXTENDS ChatWsProxy, SequenceTheorems, TLAPS

LEMMA Ends ==
    /\ End = {Client, Upstream} /\ Client # Upstream
    /\ \A e \in End : Other(e) \in End /\ Other(e) # e /\ Other(Other(e)) = e
    /\ \A e, d \in End : d # e => d = Other(e)
    /\ \A e \in End : Pipe!Other(e) = Other(e)
<1>1. Client # Upstream
  BY DEF Client, Upstream
<1>2. \A e \in End : Other(e) \in End /\ Other(e) # e /\ Other(Other(e)) = e
  BY <1>1 DEF End, Other
<1>3. \A e, d \in End : d # e => d = Other(e)
  BY <1>1 DEF End, Other
<1>4. ASSUME NEW e \in End PROVE Pipe!Other(e) = Other(e)
  <2>1. (CHOOSE d \in End : d # e) \in End /\ (CHOOSE d \in End : d # e) # e
    BY <1>2
  <2> QED
    BY <2>1, <1>3 DEF Pipe!Other
<1> QED
  BY <1>1, <1>2, <1>3, <1>4 DEF End

LEMMA Bytes == MaxBytes \in Nat /\ Window \in Nat \ {0} /\ 0 \in Byte /\ <<0>> \in Seq(Byte)
BY ChatWsProxyAssumption DEF Byte

\* The two parts of a sequence that is split after its first n.
LEMMA Split ==
    ASSUME NEW s \in Seq(Byte), NEW n \in 0..Len(s)
    PROVE  /\ SubSeq(s, 1, n) \in Seq(Byte) /\ SubSeq(s, n + 1, Len(s)) \in Seq(Byte)
           /\ SubSeq(s, 1, n) \o SubSeq(s, n + 1, Len(s)) = s
           /\ Len(SubSeq(s, 1, n)) = n
<1>1. Len(s) \in Nat /\ \A i \in 1..Len(s) : s[i] \in Byte
  OBVIOUS
<1>2. SubSeq(s, 1, n) \in Seq(Byte) /\ Len(SubSeq(s, 1, n)) = n
  <2>1. \A i \in 1..n : s[i] \in Byte
    BY <1>1
  <2>2. n \in Int /\ (1 <= n \/ n = 0)
    BY <1>1
  <2> QED
    BY <2>1, <2>2, SubSeqProperties
<1>3. SubSeq(s, n + 1, Len(s)) \in Seq(Byte)
  <2>1. \A i \in n + 1..Len(s) : s[i] \in Byte
    BY <1>1
  <2>2. n + 1 \in Int /\ Len(s) \in Int
    BY <1>1
  <2> QED
    BY <2>1, <2>2, SubSeqProperties
<1>4. SubSeq(s, 1, n) \o SubSeq(s, n + 1, Len(s)) = SubSeq(s, 1, Len(s))
  <2>1. /\ 1 \in 1..Len(s) + 1 /\ n \in 1 - 1..Len(s) /\ Len(s) \in n..Len(s)
    BY <1>1
  <2> QED
    BY <2>1, ConcatAdjacentSubSeq
<1>5. SubSeq(s, 1, Len(s)) = s
  BY SubSeqFull
<1> QED
  BY <1>2, <1>3, <1>4, <1>5

\* A sequence without its last part is the front of the whole.
LEMMA Front ==
    ASSUME NEW s \in Seq(Byte), NEW t \in Seq(Byte)
    PROVE  s = SubSeq(s \o t, 1, Len(s))
<1>1. CASE Len(s) = 0
  BY <1>1, SubSeqEmpty
<1>2. CASE Len(s) # 0
  <2>1. 1 \in 1..Len(s) /\ Len(s) \in 1..Len(s)
    BY <1>2
  <2> QED
    BY <2>1, SubSeqOfConcat1, SubSeqFull
<1> QED
  BY <1>1, <1>2

LEMMA InitType == Init => TypeOK
<1> SUFFICES ASSUME Init PROVE TypeOK
  OBVIOUS
<1>1. [at |-> "none", chunk |-> <<>>] \in Copier
  BY DEF Copier
<1>2. 0 \in 0..Window
  BY Bytes
<1> QED
  BY <1>1, <1>2 DEF Init, TypeOK, Pc

LEMMA CopierTypes ==
    ASSUME TypeOK, NEW e \in End
    PROVE  /\ copier[e] \in Copier /\ copier[e].chunk \in Seq(Byte)
           /\ \A at \in {"none", "read", "write", "closeDst", "closeSrc", "ended"} :
                [copier[e] EXCEPT !.at = at] \in Copier
           /\ \A chunk \in Seq(Byte) :
                [at |-> "read", chunk |-> <<>>] \in Copier /\ [at |-> "write", chunk |-> chunk] \in Copier
<1>1. copier[e] \in Copier
  BY DEF TypeOK
<1> QED
  BY <1>1 DEF Copier

\* A write is one more that its receiver has not read.
LEMMA WriteType ==
    ASSUME TypeOK, NEW e \in End, NEW bytes \in Seq(Byte), WriteTo(e, bytes)
    PROVE  pending' \in [End -> 0..Window] /\ got' \in [End -> Seq(Byte)]
<1>1. pending[e] + 1 \in 0..Window
  BY Bytes DEF TypeOK, WriteTo
<1>2. got[e] \o bytes \in Seq(Byte)
  BY ConcatProperties DEF TypeOK
<1> QED
  BY <1>1, <1>2 DEF TypeOK, WriteTo

LEMMA HandlerType == TypeOK /\ HandlerStep => TypeOK'
<1> SUFFICES ASSUME TypeOK, HandlerStep PROVE TypeOK'
  OBVIOUS
<1> USE DEF At, GoTo, Pc, streams
<1>1. CASE Reject
  BY <1>1 DEF Reject, TypeOK
<1>2. CASE Admit
  BY <1>2 DEF Admit, TypeOK
<1>3. CASE Dial
  BY <1>3, Ends DEF Dial, TypeOK
<1>4. CASE Hijack
  <2>1. PICK n \in 0..Len(inbox[Client]) :
          /\ buffered' = SubSeq(inbox[Client], 1, n)
          /\ inbox' = [inbox EXCEPT ![Client] = SubSeq(inbox[Client], n + 1, Len(inbox[Client]))]
    BY <1>4 DEF Hijack
  <2>2. inbox[Client] \in Seq(Byte)
    BY Ends DEF TypeOK
  <2>3. buffered' \in Seq(Byte) /\ inbox' \in [End -> Seq(Byte)]
    BY <2>1, <2>2, Split DEF TypeOK
  <2>4. conn' \in [End -> {"none", "served", "open", "closed"}]
    BY <1>4 DEF Hijack, TypeOK
  <2> QED
    BY <1>4, <2>3, <2>4 DEF Hijack, TypeOK
<1>5. CASE HijackFails
  BY <1>5 DEF HijackFails, ClosesUpstream, TypeOK
<1>6. CASE WriteUpgradeRequest
  <2>1. pending' \in [End -> 0..Window] /\ got' \in [End -> Seq(Byte)]
    BY <1>6, Ends, Bytes, WriteType DEF WriteUpgradeRequest
  <2> QED
    BY <1>6, <2>1 DEF WriteUpgradeRequest, TypeOK
<1>7. CASE ForwardBuffered
  <2>1. pending' \in [End -> 0..Window] /\ got' \in [End -> Seq(Byte)]
    <3>1. CASE WriteTo(Upstream, Forwarded)
      BY <3>1, Ends, WriteType DEF Forwarded, TypeOK
    <3>2. CASE UNCHANGED <<pending, got>>
      BY <3>2 DEF TypeOK
    <3> QED
      BY <1>7, <3>1, <3>2 DEF ForwardBuffered
  <2> QED
    BY <1>7, <2>1 DEF ForwardBuffered, TypeOK
<1>8. CASE SetupFails
  BY <1>8 DEF SetupFails, CloseBoth, TypeOK
<1>9. CASE StartCopiers
  <2>1. [at |-> "read", chunk |-> <<>>] \in Copier
    BY DEF Copier
  <2> QED
    BY <1>9, <2>1 DEF StartCopiers, BothCopiers, TypeOK
<1> QED
  BY <1>1, <1>2, <1>3, <1>3, <1>4, <1>5, <1>6, <1>7, <1>8, <1>9 DEF HandlerStep

LEMMA CopierType ==
    ASSUME TypeOK, NEW e \in End, CopierStep(e)
    PROVE  TypeOK'
<1> USE DEF Copies, Move, handler, streams
<1>1. CASE Read(e)
  <2>1. PICK n \in 1..Len(inbox[e]) :
          /\ copier' = [copier EXCEPT ![e] = [at |-> "write", chunk |-> SubSeq(inbox[e], 1, n)]]
          /\ inbox' = [inbox EXCEPT ![e] = SubSeq(inbox[e], n + 1, Len(inbox[e]))]
    BY <1>1 DEF Read, AfterRead
  <2>2. inbox[e] \in Seq(Byte) /\ n \in 0..Len(inbox[e])
    BY DEF TypeOK
  <2>3. SubSeq(inbox[e], 1, n) \in Seq(Byte) /\ SubSeq(inbox[e], n + 1, Len(inbox[e])) \in Seq(Byte)
    BY <2>2, Split
  <2>4. [at |-> "write", chunk |-> SubSeq(inbox[e], 1, n)] \in Copier
    BY <2>3, CopierTypes
  <2>5. copier' \in [End -> Copier] /\ inbox' \in [End -> Seq(Byte)]
    BY <2>1, <2>3, <2>4 DEF TypeOK
  <2> QED
    BY <1>1, <2>5 DEF Read, TypeOK
<1>2. CASE ReadEnds(e)
  BY <1>2, CopierTypes DEF ReadEnds, TypeOK
<1>3. CASE Write(e)
  <2>1. pending' \in [End -> 0..Window] /\ got' \in [End -> Seq(Byte)]
    BY <1>3, Ends, CopierTypes, WriteType DEF Write
  <2>2. copier' \in [End -> Copier]
    BY <1>3, CopierTypes DEF Write, TypeOK
  <2> QED
    BY <1>3, <2>1, <2>2 DEF Write, TypeOK
<1>4. CASE WriteFails(e)
  BY <1>4, CopierTypes DEF WriteFails, TypeOK
<1>5. CASE CloseDst(e)
  BY <1>5, CopierTypes DEF CloseDst, ClosedDst, TypeOK
<1>6. CASE CloseSrc(e)
  BY <1>6, CopierTypes DEF CloseSrc, TypeOK
<1> QED
  BY <1>1, <1>2, <1>3, <1>4, <1>5, <1>6 DEF CopierStep

\* What a peer sends is appended to what it sent and to what waits for the proxy.
LEMMA SendTypes ==
    ASSUME TypeOK, NEW e \in End, PeerSends(e)
    PROVE  \E b \in Byte :
              /\ sent' = [sent EXCEPT ![e] = sent[e] \o <<b>>]
              /\ inbox' = [inbox EXCEPT ![e] = inbox[e] \o <<b>>]
              /\ sent[e] \o <<b>> \in Seq(Byte) /\ inbox[e] \o <<b>> \in Seq(Byte)
              /\ sent[e] \o <<b>> = Append(sent[e], b)
<1> DEFINE b == Len(sent[e]) + 1
<1>1. sent[e] \in Seq(Byte) /\ inbox[e] \in Seq(Byte)
  BY DEF TypeOK
<1>2. b \in Byte
  BY <1>1, Bytes DEF PeerSends, Byte
<1>3. <<b>> \in Seq(Byte)
  BY <1>2
<1>4. /\ Append(sent[e], b) = sent[e] \o <<b>> /\ Append(inbox[e], b) = inbox[e] \o <<b>>
      /\ sent[e] \o <<b>> \in Seq(Byte) /\ inbox[e] \o <<b>> \in Seq(Byte)
  BY <1>1, <1>2, <1>3, AppendIsConcat, ConcatProperties
<1>5. sent' = [sent EXCEPT ![e] = Append(sent[e], b)] /\ inbox' = [inbox EXCEPT ![e] = Append(inbox[e], b)]
  BY DEF PeerSends
<1> HIDE DEF b
<1> QED
  BY <1>2, <1>4, <1>5

LEMMA PeerType ==
    ASSUME TypeOK, NEW e \in End, PeerSends(e) \/ PeerReads(e) \/ PeerHangsUp(e)
    PROVE  TypeOK'
<1> USE DEF handler, streams
<1>1. CASE PeerSends(e)
  <2>1. sent' \in [End -> Seq(Byte)] /\ inbox' \in [End -> Seq(Byte)]
    BY <1>1, SendTypes DEF TypeOK
  <2> QED
    BY <1>1, <2>1 DEF PeerSends, TypeOK
<1>2. CASE PeerReads(e)
  <2>1. pending' \in [End -> 0..Window]
    BY <1>2, Bytes DEF PeerReads, TypeOK
  <2> QED
    BY <1>2, <2>1 DEF PeerReads, TypeOK
<1>3. CASE PeerHangsUp(e)
  BY <1>3 DEF PeerHangsUp, TypeOK
<1> QED
  BY <1>1, <1>2, <1>3

LEMMA NextType == TypeOK /\ [Next]_vars => TypeOK'
<1> SUFFICES ASSUME TypeOK, [Next]_vars PROVE TypeOK'
  OBVIOUS
<1>1. CASE UNCHANGED vars
  BY <1>1 DEF vars, handler, streams, TypeOK
<1> QED
  BY <1>1, HandlerType, CopierType, PeerType DEF Next

\* Handler, connections, sockets and copiers stay well-typed.
THEOREM TypeCorrect == Spec => []TypeOK
BY InitType, NextType, PTL DEF Spec

-----------------------------------------------------------------------------
(***************************************************************************)
(* Which connections are open at each step of the handler and the copiers. *)
(***************************************************************************)
Closing(e) == copier[e].at \in {"closeDst", "closeSrc", "ended"}

\* The handler holds what it dialed and, from the hijack on, the client's connection.
HeldOK ==
    /\ pc \in {"check", "dial", "hijack"} => conn[Client] = "served"
    /\ pc \in {"check", "dial"} => conn[Upstream] = "none"
    /\ pc = "hijack" => conn[Upstream] = "open"
    /\ pc \in {"upgrade", "buffered", "spawn"} => \A e \in End : conn[e] = "open"
    /\ pc # "returned" => \A e \in End : copier[e].at = "none"

\* Both copiers were started, or none, and then everything is closed.
StartedOK ==
    /\ (\A e \in End : copier[e].at = "none") \/ (\A e \in End : copier[e].at # "none")
    /\ pc = "returned" /\ (\A e \in End : copier[e].at = "none") =>
        \A e \in End : conn[e] # "open"

\* While they run a connection is closed by a copier that ends, and each closes both.
ClosingOK(e) ==
    /\ copier[e].at # "none" => conn[e] = "open" \/ (conn[e] = "closed" /\ \E d \in End : Closing(d))
    /\ copier[e].at \in {"closeSrc", "ended"} => conn[Other(e)] = "closed"
    /\ copier[e].at = "ended" => conn[e] = "closed"

ConnInv == HeldOK /\ StartedOK /\ \A e \in End : ClosingOK(e)

LEMMA InitConn == Init => ConnInv
BY Ends DEF Init, ConnInv, HeldOK, StartedOK, ClosingOK

LEMMA NextConn == TypeOK /\ ConnInv /\ [Next]_vars => ConnInv'
<1> SUFFICES ASSUME TypeOK, ConnInv, [Next]_vars PROVE ConnInv'
  OBVIOUS
<1> USE DEF ConnInv, At, GoTo
<1>1. CASE HandlerStep
  <2>1. ASSUME pc # "returned", UNCHANGED copier PROVE (\A e \in End : ClosingOK(e))'
    BY <2>1, Ends DEF HeldOK, ClosingOK
  <2>2. CASE Reject
    BY <2>1, <2>2, Ends DEF Reject, HeldOK, StartedOK
  <2>3. CASE Admit
    BY <2>1, <2>3, Ends DEF Admit, HeldOK, StartedOK
  <2>4. CASE Dial
    BY <2>1, <2>4, Ends DEF Dial, HeldOK, StartedOK, TypeOK
  <2>5. CASE Hijack
    BY <2>1, <2>5, Ends DEF Hijack, HeldOK, StartedOK, TypeOK
  <2>6. CASE HijackFails
    BY <2>1, <2>6, Ends DEF HijackFails, ClosesUpstream, HeldOK, StartedOK, TypeOK
  <2>7. CASE WriteUpgradeRequest \/ ForwardBuffered
    BY <2>1, <2>7, Ends DEF WriteUpgradeRequest, ForwardBuffered, HeldOK, StartedOK
  <2>8. CASE SetupFails
    BY <2>1, <2>8, Ends DEF SetupFails, CloseBoth, HeldOK, StartedOK
  <2>9. CASE StartCopiers
    <3>1. \A e \in End : copier'[e].at = "read" /\ conn'[e] = "open"
      BY <2>9 DEF StartCopiers, BothCopiers, HeldOK
    <3> QED
      BY <2>9, <3>1, Ends DEF StartCopiers, BothCopiers, HeldOK, StartedOK, ClosingOK
  <2> QED
    BY <1>1, <2>2, <2>3, <2>4, <2>5, <2>6, <2>7, <2>8, <2>9 DEF HandlerStep
<1>2. ASSUME NEW e \in End, CopierStep(e) PROVE ConnInv'
  <2> USE DEF Copies, Move, handler
  <2>1. copier[e].at # "none" /\ pc = "returned" /\ \A d \in End : copier[d].at # "none"
    BY <1>2 DEF HeldOK, StartedOK, CopierStep, Read, ReadEnds, Write, WriteFails, CloseDst, CloseSrc
  <2>2. ASSUME \A d \in End : copier'[d].at # "none" PROVE (HeldOK /\ StartedOK)'
    <3>1. pc' = "returned"
      BY <1>2, <2>1 DEF CopierStep, Read, ReadEnds, Write, WriteFails, CloseDst, CloseSrc
    <3> QED
      BY <2>2, <3>1, Ends DEF HeldOK, StartedOK
  <2>3. CASE Read(e) \/ Write(e)
    <3>1. /\ copier'[e].at \in {"read", "write"} /\ ~Closing(e) /\ UNCHANGED conn
          /\ \A d \in End : d # e => copier'[d] = copier[d]
      BY <2>3 DEF Read, Write, Closing, TypeOK
    <3>2. \A d \in End : Closing(d) => Closing(d)'
      BY <3>1 DEF Closing
    <3>3. \A d \in End : copier'[d].at # "none"
      BY <2>1, <3>1
    <3> QED
      BY <2>1, <2>2, <3>1, <3>2, <3>3 DEF ClosingOK
  <2>4. CASE ReadEnds(e) \/ WriteFails(e)
    <3>1. /\ copier'[e].at = "closeDst" /\ ~Closing(e) /\ UNCHANGED conn
          /\ \A d \in End : d # e => copier'[d] = copier[d]
      <4>1. copier' = [copier EXCEPT ![e].at = "closeDst"] /\ copier[e].at \in {"read", "write"}
        BY <2>4 DEF ReadEnds, WriteFails
      <4>2. UNCHANGED conn
        BY <2>4 DEF ReadEnds, WriteFails
      <4> QED
        BY <4>1, <4>2, CopierTypes DEF Closing, TypeOK, Copier
    <3>2. \A d \in End : Closing(d) => Closing(d)'
      BY <3>1 DEF Closing
    <3>3. \A d \in End : copier'[d].at # "none"
      BY <2>1, <3>1
    <3> QED
      BY <2>1, <2>2, <3>1, <3>2, <3>3 DEF ClosingOK
  <2>5. CASE CloseDst(e)
    <3>1. /\ copier'[e].at = "closeSrc" /\ copier[e].at = "closeDst" /\ conn'[Other(e)] = "closed"
          /\ \A d \in End : d # e => copier'[d] = copier[d]
          /\ conn'[e] = conn[e]
      BY <2>5, Ends DEF CloseDst, ClosedDst, TypeOK
    <3>2. Closing(e)' /\ \A d \in End : Closing(d) => Closing(d)'
      BY <3>1 DEF Closing
    <3>3. \A d \in End : copier'[d].at # "none"
      BY <2>1, <3>1
    <3> QED
      BY <2>1, <2>2, <3>1, <3>2, <3>3, Ends DEF ClosingOK
  <2>6. CASE CloseSrc(e)
    <3>1. /\ copier'[e].at = "ended" /\ copier[e].at = "closeSrc" /\ conn'[e] = "closed"
          /\ \A d \in End : d # e => copier'[d] = copier[d]
          /\ conn'[Other(e)] = conn[Other(e)]
      BY <2>6, Ends DEF CloseSrc, TypeOK
    <3>2. Closing(e)' /\ \A d \in End : Closing(d) => Closing(d)'
      BY <3>1 DEF Closing
    <3>3. \A d \in End : copier'[d].at # "none"
      BY <2>1, <3>1
    <3> QED
      BY <2>1, <2>2, <3>1, <3>2, <3>3, Ends DEF ClosingOK
  <2> QED
    BY <1>2, <2>3, <2>4, <2>5, <2>6 DEF CopierStep
<1>3. CASE UNCHANGED <<pc, conn, copier>>
  BY <1>3 DEF HeldOK, StartedOK, ClosingOK, Closing
<1> QED
  BY <1>1, <1>2, <1>3 DEF Next, vars, handler, PeerSends, PeerReads, PeerHangsUp

\* Whichever way the handler returned and whoever closed first, once nobody runs no
\* connection is open.
THEOREM AllIsClosed == Spec => []NothingLeftOpen
<1>1. ConnInv => NothingLeftOpen
  <2> SUFFICES ASSUME ConnInv, NobodyRuns PROVE \A e \in End : conn[e] # "open"
    BY DEF NothingLeftOpen
  <2>1. (\A e \in End : copier[e].at = "none") \/ (\A e \in End : copier[e].at = "ended")
    BY DEF ConnInv, StartedOK, NobodyRuns
  <2> QED
    BY <2>1 DEF ConnInv, StartedOK, ClosingOK, NobodyRuns
<1> QED
  BY <1>1, InitType, NextType, InitConn, NextConn, PTL DEF Spec

-----------------------------------------------------------------------------
(***************************************************************************)
(* Where each byte is: written to the other side, held by the proxy, or    *)
(* still to be read.                                                       *)
(***************************************************************************)
Said(e) == Hello(e) \o sent[e]

\* Until the copiers start only the handler writes, and only to the upstream.
SetupOK ==
    /\ pc # "returned" => got[Client] = <<>> /\ inbox[Upstream] = sent[Upstream]
    /\ pc \in {"check", "dial", "hijack"} => buffered = <<>> /\ inbox[Client] = sent[Client]
    /\ pc \in {"check", "dial", "hijack", "upgrade"} => got[Upstream] = <<>>
    /\ pc = "buffered" => got[Upstream] = <<0>>
    /\ pc \in {"upgrade", "buffered"} => buffered \o inbox[Client] = sent[Client]
    /\ pc = "spawn" => got[Upstream] \o inbox[Client] = Said(Client)

CopyOK(e) ==
    /\ copier[e].at = "read" => got[Other(e)] \o inbox[e] = Said(e)
    /\ copier[e].at = "write" =>
        /\ copier[e].chunk # <<>>
        /\ got[Other(e)] \o (copier[e].chunk \o inbox[e]) = Said(e)

FlowInv == SetupOK /\ \A e \in End : CopyOK(e)

LEMMA HelloType ==
    /\ Hello(Client) = <<0>> /\ Hello(Upstream) = <<>>
    /\ \A e \in End : Hello(e) \in Seq(Byte)
BY Ends, Bytes DEF Hello

LEMMA Concatenation ==
    \A s, t, u \in Seq(Byte) : (s \o t) \o u = s \o (t \o u) /\ s \o t \in Seq(Byte)
BY ConcatAssociative, ConcatProperties

LEMMA InitFlow == Init => FlowInv
BY Ends DEF Init, FlowInv, SetupOK, CopyOK

LEMMA HandlerFlow ==
    ASSUME TypeOK, ConnInv, FlowInv, HandlerStep
    PROVE  FlowInv'
<1> USE DEF At, GoTo, FlowInv, streams
<1>1. sent[Client] \in Seq(Byte) /\ inbox[Client] \in Seq(Byte) /\ buffered \in Seq(Byte) /\ <<0>> \in Seq(Byte)
  BY Ends, Bytes DEF TypeOK
<1>2. pc # "returned" /\ (\A e \in End : copier[e].at = "none")
  BY DEF ConnInv, HeldOK, HandlerStep, Reject, Admit, Dial, Hijack, HijackFails,
     WriteUpgradeRequest, ForwardBuffered, SetupFails, StartCopiers
<1>3. ASSUME UNCHANGED copier PROVE (\A e \in End : CopyOK(e))'
  BY <1>2, <1>3 DEF CopyOK
<1>4. CASE Reject \/ Admit \/ Dial \/ HijackFails \/ SetupFails
  BY <1>3, <1>4 DEF Reject, Admit, Dial, HijackFails, SetupFails, SetupOK
<1>5. CASE Hijack
  <2>1. PICK n \in 0..Len(inbox[Client]) :
          /\ buffered' = SubSeq(inbox[Client], 1, n)
          /\ inbox' = [inbox EXCEPT ![Client] = SubSeq(inbox[Client], n + 1, Len(inbox[Client]))]
    BY <1>5 DEF Hijack
  <2>2. buffered' \o inbox'[Client] = inbox[Client]
    BY <2>1, <1>1, Split, Ends DEF TypeOK
  <2>3. inbox'[Upstream] = inbox[Upstream]
    BY <2>1, Ends DEF TypeOK
  <2>4. UNCHANGED <<sent, got, copier>> /\ pc = "hijack" /\ pc' = "upgrade"
    BY <1>5 DEF Hijack
  <2>5. SetupOK'
    BY <2>2, <2>3, <2>4 DEF SetupOK
  <2> QED
    BY <1>3, <2>4, <2>5
<1>6. CASE WriteUpgradeRequest
  <2>1. /\ got' = [got EXCEPT ![Upstream] = got[Upstream] \o <<0>>]
        /\ UNCHANGED <<sent, inbox, buffered, copier>> /\ pc = "upgrade" /\ pc' = "buffered"
    BY <1>6 DEF WriteUpgradeRequest, WriteTo
  <2>2. got[Upstream] = <<>>
    BY <2>1 DEF SetupOK
  <2>3. <<>> \o <<0>> = <<0>>
    BY <1>1, ConcatEmptySeq
  <2>4. got'[Upstream] = <<0>> /\ got'[Client] = got[Client]
    BY <2>1, <2>2, <2>3, Ends DEF TypeOK
  <2>5. SetupOK'
    BY <2>1, <2>4 DEF SetupOK
  <2> QED
    BY <1>3, <2>1, <2>5
<1>7. CASE ForwardBuffered
  <2>1. UNCHANGED <<sent, inbox, copier>> /\ pc = "buffered" /\ pc' = "spawn" /\ buffered' = <<>>
    BY <1>7 DEF ForwardBuffered
  <2>2. got[Upstream] = <<0>> /\ buffered \o inbox[Client] = sent[Client]
    BY <2>1 DEF SetupOK
  <2>3. got'[Upstream] = <<0>> \o buffered /\ got'[Client] = got[Client]
    <3>1. CASE WriteTo(Upstream, Forwarded)
      BY <3>1, <2>2, Ends DEF WriteTo, Forwarded, TypeOK
    <3>2. CASE buffered = <<>> /\ UNCHANGED got
      BY <3>2, <2>2, <1>1, ConcatEmptySeq
    <3> QED
      BY <1>7, <3>1, <3>2 DEF ForwardBuffered, Forwarded
  <2>4. (<<0>> \o buffered) \o inbox[Client] = <<0>> \o (buffered \o inbox[Client])
    BY <1>1, Concatenation
  <2>5. got'[Upstream] \o inbox'[Client] = Said(Client)'
    BY <2>1, <2>2, <2>3, <2>4, HelloType DEF Said, Hello
  <2>6. SetupOK'
    BY <2>1, <2>3, <2>5 DEF SetupOK
  <2> QED
    BY <1>3, <2>1, <2>6
<1>8. CASE StartCopiers
  <2>1. /\ UNCHANGED <<sent, inbox, got>> /\ pc = "spawn" /\ pc' = "returned"
        /\ \A e \in End : copier'[e].at = "read"
    BY <1>8 DEF StartCopiers, BothCopiers
  <2>2. got[Other(Client)] \o inbox[Client] = Said(Client)
    BY <2>1 DEF SetupOK, Other
  <2>3. got[Other(Upstream)] \o inbox[Upstream] = Said(Upstream)
    BY <2>1, Ends, HelloType DEF SetupOK, Other, Said
  <2>4. \A e \in End : got[Other(e)] \o inbox[e] = Said(e)
    BY <2>2, <2>3, Ends
  <2>5. \A e \in End : Said(e)' = Said(e)
    BY <2>1 DEF Said, Hello
  <2> QED
    BY <2>1, <2>4, <2>5 DEF SetupOK, CopyOK
<1> QED
  BY <1>4, <1>5, <1>6, <1>7, <1>8 DEF HandlerStep

LEMMA CopierFlow ==
    ASSUME TypeOK, ConnInv, FlowInv, NEW e \in End, CopierStep(e)
    PROVE  FlowInv'
<1> USE DEF Copies, Move, FlowInv, handler, streams
<1>1. pc = "returned" /\ pc' = "returned" /\ UNCHANGED sent
  BY DEF ConnInv, HeldOK, CopierStep, Read, ReadEnds, Write, WriteFails, CloseDst, CloseSrc
<1>2. SetupOK'
  BY <1>1 DEF SetupOK
<1>3. \A d \in End : Said(d)' = Said(d)
  BY <1>1 DEF Said, Hello
<1>4. ASSUME ~ copier'[e].at \in {"read", "write"}, UNCHANGED <<inbox, got>>,
             \A d \in End : d # e => copier'[d] = copier[d]
      PROVE  \A d \in End : CopyOK(d)'
  BY <1>3, <1>4 DEF CopyOK
<1>5. CASE Read(e)
  <2>1. PICK n \in 1..Len(inbox[e]) :
          /\ copier' = [copier EXCEPT ![e] = [at |-> "write", chunk |-> SubSeq(inbox[e], 1, n)]]
          /\ inbox' = [inbox EXCEPT ![e] = SubSeq(inbox[e], n + 1, Len(inbox[e]))]
    BY <1>5 DEF Read, AfterRead
  <2>2. inbox[e] \in Seq(Byte) /\ n \in 0..Len(inbox[e]) /\ n # 0
    BY DEF TypeOK
  <2>3. /\ SubSeq(inbox[e], 1, n) \o SubSeq(inbox[e], n + 1, Len(inbox[e])) = inbox[e]
        /\ Len(SubSeq(inbox[e], 1, n)) # 0
    BY <2>2, Split
  <2>4. /\ copier'[e].at = "write" /\ copier'[e].chunk \o inbox'[e] = inbox[e]
        /\ copier'[e].chunk # <<>>
        /\ \A d \in End : d # e => copier'[d] = copier[d] /\ inbox'[d] = inbox[d]
    <3>1. copier'[e] = [at |-> "write", chunk |-> SubSeq(inbox[e], 1, n)]
      BY <2>1 DEF TypeOK
    <3>2. inbox'[e] = SubSeq(inbox[e], n + 1, Len(inbox[e]))
      BY <2>1 DEF TypeOK
    <3>3. \A d \in End : d # e => copier'[d] = copier[d] /\ inbox'[d] = inbox[d]
      BY <2>1 DEF TypeOK
    <3>4. SubSeq(inbox[e], 1, n) # <<>>
      BY <2>3
    <3> QED
      BY <2>3, <3>1, <3>2, <3>3, <3>4
  <2>5. UNCHANGED got /\ copier[e].at = "read"
    BY <1>5 DEF Read
  <2> QED
    BY <1>2, <1>3, <2>4, <2>5 DEF CopyOK
<1>6. CASE Write(e)
  <2>1. /\ copier[e].at = "write" /\ UNCHANGED inbox
        /\ got' = [got EXCEPT ![Other(e)] = got[Other(e)] \o copier[e].chunk]
        /\ copier' = [copier EXCEPT ![e] = [at |-> "read", chunk |-> <<>>]]
    BY <1>6 DEF Write, WriteTo
  <2>2. /\ copier'[e].at = "read" /\ got'[Other(e)] = got[Other(e)] \o copier[e].chunk
        /\ \A d \in End : d # e => copier'[d] = copier[d] /\ got'[Other(d)] = got[Other(d)]
    BY <2>1, Ends DEF TypeOK
  <2>3. (got[Other(e)] \o copier[e].chunk) \o inbox[e] = got[Other(e)] \o (copier[e].chunk \o inbox[e])
    <3>1. got[Other(e)] \in Seq(Byte) /\ copier[e].chunk \in Seq(Byte) /\ inbox[e] \in Seq(Byte)
      BY Ends, CopierTypes DEF TypeOK
    <3> QED
      BY <3>1, Concatenation
  <2> QED
    BY <1>2, <1>3, <2>1, <2>2, <2>3 DEF CopyOK
<1>7. CASE ReadEnds(e) \/ WriteFails(e)
  <2>1. copier' = [copier EXCEPT ![e].at = "closeDst"] /\ UNCHANGED <<inbox, got>>
    BY <1>7 DEF ReadEnds, WriteFails
  <2>2. copier'[e].at = "closeDst" /\ \A d \in End : d # e => copier'[d] = copier[d]
    BY <2>1, CopierTypes DEF TypeOK, Copier
  <2> QED
    BY <1>2, <1>4, <2>1, <2>2
<1>8. CASE CloseDst(e)
  <2>1. copier' = [copier EXCEPT ![e].at = "closeSrc"] /\ UNCHANGED <<inbox, got>>
    BY <1>8 DEF CloseDst
  <2>2. copier'[e].at = "closeSrc" /\ \A d \in End : d # e => copier'[d] = copier[d]
    BY <2>1, CopierTypes DEF TypeOK, Copier
  <2> QED
    BY <1>2, <1>4, <2>1, <2>2
<1>9. CASE CloseSrc(e)
  <2>1. copier' = [copier EXCEPT ![e].at = "ended"] /\ UNCHANGED <<inbox, got>>
    BY <1>9 DEF CloseSrc
  <2>2. copier'[e].at = "ended" /\ \A d \in End : d # e => copier'[d] = copier[d]
    BY <2>1, CopierTypes DEF TypeOK, Copier
  <2> QED
    BY <1>2, <1>4, <2>1, <2>2
<1> QED
  BY <1>5, <1>6, <1>7, <1>8, <1>9 DEF CopierStep

LEMMA PeerFlow ==
    ASSUME TypeOK, FlowInv, NEW e \in End, PeerSends(e)
    PROVE  FlowInv'
<1> USE DEF FlowInv, handler
<1>1. PICK one \in Seq(Byte) :
        /\ sent' = [sent EXCEPT ![e] = sent[e] \o one]
        /\ inbox' = [inbox EXCEPT ![e] = inbox[e] \o one]
  <2>1. \A b \in Byte : <<b>> \in Seq(Byte)
    OBVIOUS
  <2> QED
    BY <2>1, SendTypes
<1>2. UNCHANGED <<pc, buffered, got, copier>>
  BY DEF PeerSends
<1>3. /\ sent'[e] = sent[e] \o one /\ inbox'[e] = inbox[e] \o one
      /\ \A d \in End : d # e => sent'[d] = sent[d] /\ inbox'[d] = inbox[d]
  BY <1>1 DEF TypeOK
<1>4. Said(e)' = Said(e) \o one /\ \A d \in End : d # e => Said(d)' = Said(d)
  <2>1. (Hello(e) \o sent[e]) \o one = Hello(e) \o (sent[e] \o one)
    BY <1>2, HelloType, Concatenation DEF TypeOK
  <2> QED
    BY <1>3, <2>1 DEF Said, Hello
<1>5. \A s \in Seq(Byte) : s \o inbox'[e] = (s \o inbox[e]) \o one
  <2>1. inbox[e] \in Seq(Byte)
    BY DEF TypeOK
  <2>2. \A s \in Seq(Byte) : s \o (inbox[e] \o one) = (s \o inbox[e]) \o one
    BY <2>1, Concatenation
  <2> QED
    BY <1>3, <2>2
<1>6. /\ got[Other(e)] \in Seq(Byte) /\ buffered \in Seq(Byte) /\ copier[e].chunk \in Seq(Byte)
      /\ got[Upstream] \in Seq(Byte)
  BY Ends, CopierTypes DEF TypeOK
<1>7. SetupOK'
  <2>1. buffered \o inbox[Client] = sent[Client] => buffered' \o inbox'[Client] = sent'[Client]
    <3>1. CASE e = Client
      BY <1>2, <1>3, <1>5, <1>6, <3>1, Zenon
    <3>2. CASE e # Client
      BY <1>2, <1>3, <3>2, Ends, Zenon
    <3> QED
      BY <3>1, <3>2
  <2>2. got[Upstream] \o inbox[Client] = Said(Client) => got'[Upstream] \o inbox'[Client] = Said(Client)'
    <3>1. CASE e = Client
      BY <1>2, <1>3, <1>4, <1>5, <1>6, <3>1, Zenon
    <3>2. CASE e # Client
      BY <1>2, <1>3, <1>4, <3>2, Ends, Zenon
    <3> QED
      BY <3>1, <3>2
  <2>3. \A d \in End : inbox[d] = sent[d] => inbox'[d] = sent'[d]
    BY <1>3
  <2> QED
    BY <1>2, <2>1, <2>2, <2>3, Ends DEF SetupOK
<1>8. got[Other(e)] \o (copier[e].chunk \o inbox'[e]) = (got[Other(e)] \o (copier[e].chunk \o inbox[e])) \o one
  <2>1. copier[e].chunk \o inbox[e] \in Seq(Byte)
    BY <1>6, ConcatProperties DEF TypeOK
  <2>2. copier[e].chunk \o inbox'[e] = (copier[e].chunk \o inbox[e]) \o one
    BY <1>5, <1>6
  <2> QED
    <3>1. got[Other(e)] \o ((copier[e].chunk \o inbox[e]) \o one)
            = (got[Other(e)] \o (copier[e].chunk \o inbox[e])) \o one
      <4>1. PICK c \in Seq(Byte) : c = copier[e].chunk \o inbox[e]
        BY <2>1
      <4>2. \A s \in Seq(Byte) : s \o (c \o one) = (s \o c) \o one
        BY Concatenation
      <4> QED
        BY <1>6, <4>1, <4>2, Zenon
    <3> QED
      BY <2>2, <3>1
<1>9. got[Other(e)] \o inbox'[e] = (got[Other(e)] \o inbox[e]) \o one
  BY <1>5, <1>6
<1>10. CopyOK(e)'
  BY <1>2, <1>4, <1>8, <1>9 DEF CopyOK
<1>11. ASSUME NEW d \in End, d # e PROVE CopyOK(d)'
  BY <1>2, <1>3, <1>4, <1>11 DEF CopyOK
<1> QED
  BY <1>7, <1>10, <1>11

LEMMA NextFlow == TypeOK /\ ConnInv /\ FlowInv /\ [Next]_vars => FlowInv'
<1> SUFFICES ASSUME TypeOK, ConnInv, FlowInv, [Next]_vars PROVE FlowInv'
  OBVIOUS
<1>1. CASE UNCHANGED <<pc, sent, inbox, buffered, got, copier>>
  BY <1>1 DEF FlowInv, SetupOK, CopyOK, Said, Hello
<1>2. ASSUME NEW e \in End, PeerReads(e) \/ PeerHangsUp(e) PROVE FlowInv'
  BY <1>1, <1>2 DEF PeerReads, PeerHangsUp, handler, streams
<1> QED
  BY <1>1, <1>2, HandlerFlow, CopierFlow, PeerFlow DEF Next, vars, handler, streams

-----------------------------------------------------------------------------
(***************************************************************************)
(* Why a copier ends.                                                      *)
(***************************************************************************)
\* The peer stopped sending, and all it sent was written.
Finished(e) == Closing(e) /\ peer[e] = "fin" /\ got[Other(e)] = Said(e)

DoneOK(e) ==
    Closing(e) => peer[e] = "gone" \/ peer[Other(e)] = "gone" \/ Finished(e) \/ Finished(Other(e))

DoneInv == \A e \in End : DoneOK(e)

LEMMA InitDone == Init => DoneInv
BY DEF Init, DoneInv, DoneOK, Closing

LEMMA CopierDone ==
    ASSUME TypeOK, ConnInv, FlowInv, DoneInv, NEW e \in End, CopierStep(e)
    PROVE  DoneInv'
<1> USE DEF Copies, Move, handler, streams
<1>1. UNCHANGED <<peer, sent>> /\ \A d \in End : Said(d)' = Said(d)
  BY DEF CopierStep, Read, ReadEnds, Write, WriteFails, CloseDst, CloseSrc, Said, Hello
<1>2. \A d \in End : copier[d].at # "none"
  BY DEF ConnInv, StartedOK, CopierStep, Read, ReadEnds, Write, WriteFails, CloseDst, CloseSrc
<1>3. ASSUME NEW d \in End, UNCHANGED got, Closing(d)' <=> Closing(d) PROVE Finished(d)' <=> Finished(d)
  BY <1>1, <1>3 DEF Finished
<1>4. CASE Read(e)
  <2>1. copier'[e].at = "write" /\ copier[e].at = "read" /\ UNCHANGED got
        /\ \A d \in End : d # e => copier'[d] = copier[d]
    BY <1>4 DEF Read, TypeOK
  <2>2. \A d \in End : Closing(d)' <=> Closing(d)
    BY <2>1 DEF Closing
  <2> QED
    BY <1>1, <1>3, <2>1, <2>2, Ends DEF DoneInv, DoneOK
<1>5. CASE Write(e)
  <2>1. copier'[e].at = "read" /\ copier[e].at = "write"
        /\ \A d \in End : d # e => copier'[d] = copier[d] /\ got'[Other(d)] = got[Other(d)]
    BY <1>5, Ends DEF Write, WriteTo, TypeOK
  <2>2. \A d \in End : Closing(d)' <=> Closing(d)
    BY <2>1 DEF Closing
  <2>3. ~Closing(e)
    BY <2>1 DEF Closing
  <2>4. \A d \in End : Finished(d)' <=> Finished(d)
    BY <1>1, <2>1, <2>2, <2>3 DEF Finished
  <2> QED
    BY <1>1, <2>2, <2>4, Ends DEF DoneInv, DoneOK
<1>6. CASE ReadEnds(e) \/ WriteFails(e)
  <2>1. copier' = [copier EXCEPT ![e].at = "closeDst"] /\ UNCHANGED got
    BY <1>6 DEF ReadEnds, WriteFails
  <2>2. copier'[e].at = "closeDst" /\ \A d \in End : d # e => copier'[d] = copier[d]
    BY <2>1, CopierTypes DEF TypeOK, Copier
  <2>3. Closing(e)' /\ ~Closing(e) /\ \A d \in End : d # e => (Closing(d)' <=> Closing(d))
    BY <1>6, <2>2 DEF Closing, ReadEnds, WriteFails
  <2>4. \A d \in End : Finished(d) => Finished(d)'
    BY <1>1, <2>1, <2>3 DEF Finished
  <2>5. ASSUME NEW d \in End, conn[d] = "closed"
        PROVE  peer[e] = "gone" \/ peer[Other(e)] = "gone" \/ Finished(Other(e))
    <3>1. Closing(Other(e))
      BY <1>2, <2>3, <2>5, Ends DEF ConnInv, ClosingOK
    <3> QED
      BY <3>1, <2>3, Ends DEF DoneInv, DoneOK, Finished
  <2>6. CASE AtEnd(e) /\ copier[e].at = "read"
    <3>1. got[Other(e)] \o <<>> = Said(e) /\ got[Other(e)] \in Seq(Byte) /\ peer[e] = "fin"
      BY <2>6, Ends DEF FlowInv, CopyOK, AtEnd, TypeOK
    <3>2. got[Other(e)] = Said(e)
      BY <3>1, ConcatEmptySeq
    <3>3. Finished(e)'
      BY <1>1, <2>1, <2>3, <3>1, <3>2 DEF Finished
    <3> QED
      BY <1>1, <2>3, <2>4, <3>3, Ends DEF DoneInv, DoneOK
  <2>7. CASE conn[e] = "closed" \/ conn[Other(e)] = "closed" \/ peer[e] = "gone" \/ peer[Other(e)] = "gone"
    <3>1. peer[e] = "gone" \/ peer[Other(e)] = "gone" \/ Finished(Other(e))
      BY <2>5, <2>7, Ends
    <3> QED
      BY <1>1, <2>3, <2>4, <3>1, Ends DEF DoneInv, DoneOK
  <2> QED
    BY <1>6, <2>6, <2>7 DEF ReadEnds, WriteFails
<1>7. CASE CloseDst(e) \/ CloseSrc(e)
  <2>1. Closing(e) /\ Closing(e)' /\ UNCHANGED got /\ \A d \in End : d # e => copier'[d] = copier[d]
    <3>1. CASE CloseDst(e)
      BY <3>1, CopierTypes DEF CloseDst, Closing, TypeOK, Copier
    <3>2. CASE CloseSrc(e)
      BY <3>2, CopierTypes DEF CloseSrc, Closing, TypeOK, Copier
    <3> QED
      BY <1>7, <3>1, <3>2
  <2>2. \A d \in End : Closing(d)' <=> Closing(d)
    BY <2>1 DEF Closing
  <2> QED
    BY <1>1, <1>3, <2>1, <2>2, Ends DEF DoneInv, DoneOK
<1> QED
  BY <1>4, <1>5, <1>6, <1>7 DEF CopierStep

LEMMA NextDone == TypeOK /\ ConnInv /\ FlowInv /\ DoneInv /\ [Next]_vars => DoneInv'
<1> SUFFICES ASSUME TypeOK, ConnInv, FlowInv, DoneInv, [Next]_vars PROVE DoneInv'
  OBVIOUS
<1>1. CASE HandlerStep
  <2>1. \A e \in End : copier'[e].at \in {"none", "read"}
    <3>1. CASE StartCopiers
      BY <3>1 DEF StartCopiers, BothCopiers
    <3>2. CASE UNCHANGED copier /\ pc # "returned"
      BY <3>2 DEF ConnInv, HeldOK
    <3> QED
      BY <1>1, <3>1, <3>2 DEF At, HandlerStep, Reject, Admit, Dial, Hijack, HijackFails,
         WriteUpgradeRequest, ForwardBuffered, SetupFails
  <2> QED
    BY <2>1 DEF DoneInv, DoneOK, Closing
<1>2. CASE UNCHANGED <<peer, sent, got, copier>>
  BY <1>2 DEF DoneInv, DoneOK, Finished, Closing, Said, Hello
<1>3. ASSUME NEW e \in End, PeerSends(e) PROVE DoneInv'
  <2>1. UNCHANGED <<peer, got, copier>> /\ peer[e] = "open" /\ \A d \in End : d # e => sent'[d] = sent[d]
    BY <1>3 DEF PeerSends, TypeOK
  <2>2. \A d \in End : Finished(d) => Finished(d)'
    BY <2>1 DEF Finished, Closing, Said, Hello
  <2> QED
    BY <2>1, <2>2, Ends DEF DoneInv, DoneOK, Closing
<1>4. ASSUME NEW e \in End, PeerHangsUp(e) PROVE DoneInv'
  <2>1. /\ UNCHANGED <<sent, got, copier>> /\ \A d \in End : d # e => peer'[d] = peer[d]
        /\ (peer[e] = "open" /\ peer'[e] = "fin") \/ peer'[e] = "gone"
    BY <1>4 DEF PeerHangsUp, TypeOK, streams
  <2>2. \A d \in End : Finished(d) => Finished(d)' \/ peer'[d] = "gone"
    BY <2>1 DEF Finished, Closing, Said, Hello
  <2>3. \A d \in End : peer[d] = "gone" => peer'[d] = "gone"
    BY <2>1
  <2> QED
    BY <2>1, <2>2, <2>3, Ends DEF DoneInv, DoneOK, Closing
<1>5. ASSUME NEW e \in End, PeerReads(e) PROVE DoneInv'
  BY <1>2, <1>5 DEF PeerReads, streams
<1> QED
  BY <1>1, <1>2, <1>3, <1>4, <1>5, CopierDone DEF Next, vars, streams

\* A peer that only stops sending loses nothing: no connection is closed before all it
\* sent went through, unless a peer is gone or the other one stopped as well.
THEOREM NothingIsCutOff == Spec => []HalfCloseDelivers
<1>1. DoneInv => HalfCloseDelivers
  BY Ends DEF DoneInv, DoneOK, Finished, Closing, Said, HalfCloseDelivers
<1> QED
  BY <1>1, InitType, NextType, InitConn, NextConn, InitFlow, NextFlow, InitDone, NextDone, PTL DEF Spec

-----------------------------------------------------------------------------
(***************************************************************************)
(* Every step is one of the pipe's, or none.                               *)
(***************************************************************************)
Side(e) == IF conn[e] \in {"none", "served"} THEN "new" ELSE conn[e]

LEMMA PipeState ==
    /\ Pipe!vars = <<[e \in End |-> Said(e)], got, [e \in End |-> Side(e)]>>
    /\ Pipe!Init <=> /\ [e \in End |-> Said(e)] \in [End -> Seq(Byte)]
                     /\ got = [e \in End |-> <<>>]
                     /\ [e \in End |-> Side(e)] = [e \in End |-> "new"]
BY DEF Pipe!vars, Pipe!Init, Said, Side

LEMMA HearStep ==
    ASSUME TypeOK, NEW e \in End, conn[Other(e)] = "open", NEW bytes \in Seq(Byte), bytes # <<>>,
           NEW rest \in Seq(Byte), (got[Other(e)] \o bytes) \o rest = Said(e),
           got' = [got EXCEPT ![Other(e)] = got[Other(e)] \o bytes], UNCHANGED <<sent, conn>>
    PROVE  Pipe!Next
<1> DEFINE front == got[Other(e)] \o bytes
<1>1. got[Other(e)] \in Seq(Byte) /\ Other(e) \in End /\ Pipe!Other(Other(e)) = e
  BY Ends DEF TypeOK
<1>2. front \in Seq(Byte) /\ Len(front) = Len(got[Other(e)]) + Len(bytes)
  BY <1>1, ConcatProperties
<1>3. Len(bytes) # 0 /\ Len(bytes) \in Nat
  OBVIOUS
<1>4. front = SubSeq(Said(e), 1, Len(front)) /\ Len(Said(e)) = Len(front) + Len(rest)
  <2> HIDE DEF front
  <2>1. front \o rest = Said(e)
    BY DEF front
  <2> QED
    BY <1>2, <2>1, Front, ConcatProperties
<1>5. Len(front) \in Len(got[Other(e)]) + 1..Len(Said(e))
  BY <1>1, <1>2, <1>3, <1>4
<1>6. Pipe!Hear(Other(e))
  <2> HIDE DEF front
  <2>1. got' = [got EXCEPT ![Other(e)] = SubSeq(Said(e), 1, Len(front))]
    BY <1>4 DEF front
  <2> QED
    BY <1>1, <1>5, <2>1 DEF Pipe!Hear, Said, Hello
<1> QED
  BY <1>1, <1>6 DEF Pipe!Next

\* Opening one side, closing some, and saying a byte, as the pipe has them.
LEMMA OpenStep ==
    ASSUME NEW e \in End, Side(e) = "new", conn' = [conn EXCEPT ![e] = "open"],
           conn \in [End -> {"none", "served", "open", "closed"}], UNCHANGED <<sent, got>>
    PROVE  Pipe!Next
<1>1. [d \in End |-> Side(d)]' = [[d \in End |-> Side(d)] EXCEPT ![e] = "open"]
  BY DEF Side
<1>2. Pipe!Open(e)
  BY <1>1 DEF Pipe!Open, Side, Hello
<1> QED
  BY <1>2 DEF Pipe!Next

LEMMA CloseStep ==
    ASSUME NEW E \in SUBSET End, conn' = [d \in End |-> IF d \in E THEN "closed" ELSE conn[d]],
           UNCHANGED <<sent, got>>
    PROVE  Pipe!Next
<1>1. [d \in End |-> Side(d)]' = [d \in End |-> IF d \in E THEN "closed" ELSE [x \in End |-> Side(x)][d]]
  BY DEF Side
<1>2. Pipe!Close
  BY <1>1 DEF Pipe!Close, Side, Hello
<1> QED
  BY <1>2 DEF Pipe!Next

LEMMA SayStep ==
    ASSUME TypeOK, NEW e \in End, PeerSends(e)
    PROVE  Pipe!Next
<1>1. PICK b \in Byte :
        /\ sent' = [sent EXCEPT ![e] = Append(sent[e], b)]
        /\ sent[e] \o <<b>> = Append(sent[e], b)
  BY SendTypes
<1>2. Hello(e) \in Seq(Byte) /\ sent[e] \in Seq(Byte) /\ <<b>> \in Seq(Byte)
  BY HelloType DEF TypeOK
<1>3. Hello(e) \o (sent[e] \o <<b>>) = Append(Hello(e) \o sent[e], b)
  <2>1. \A s, t \in Seq(Byte) : s \o (t \o <<b>>) = Append(s \o t, b)
    <3> SUFFICES ASSUME NEW s \in Seq(Byte), NEW t \in Seq(Byte)
                 PROVE  s \o (t \o <<b>>) = Append(s \o t, b)
      OBVIOUS
    <3>1. PICK one \in Seq(Byte) : one = <<b>>
      BY <1>2
    <3>2. s \o (t \o one) = (s \o t) \o one /\ s \o t \in Seq(Byte)
      BY Concatenation
    <3>3. Append(s \o t, b) = (s \o t) \o <<b>>
      BY <3>2, AppendIsConcat
    <3> QED
      BY <3>1, <3>2, <3>3, Zenon
  <2> QED
    BY <1>2, <2>1, Zenon
<1>4. [d \in End |-> Said(d)]' = [[d \in End |-> Said(d)] EXCEPT ![e] = Append(Said(e), b)]
  <2>1. Said(e)' = Append(Said(e), b)
    BY <1>1, <1>3 DEF Said, Hello, TypeOK
  <2>2. \A d \in End : d # e => Said(d)' = Said(d)
    BY <1>1 DEF Said, Hello, TypeOK
  <2> QED
    BY <2>1, <2>2
<1>5. Pipe!Say(e)
  <2>1. UNCHANGED <<got, conn>>
    BY DEF PeerSends
  <2> QED
    BY <1>4, <2>1 DEF Pipe!Say, Said, Side
<1> QED
  BY <1>5 DEF Pipe!Next

LEMMA InitPipe == Init => Pipe!Init
<1> SUFFICES ASSUME Init PROVE Pipe!Init
  OBVIOUS
<1>1. TypeOK
  BY InitType
<1>2. ASSUME NEW e \in End PROVE Said(e) \in Seq(Byte) /\ Side(e) = "new"
  BY <1>1, HelloType, ConcatProperties DEF Said, Side, Init, TypeOK
<1> QED
  BY <1>2, PipeState DEF Init

LEMMA HandlerPipe ==
    ASSUME TypeOK, ConnInv, FlowInv, HandlerStep
    PROVE  Pipe!Next \/ UNCHANGED <<sent, got, conn>>
<1> USE DEF At, GoTo, streams
<1>1. CASE Dial
  <2>1. pc = "dial" /\ (conn' = [conn EXCEPT ![Upstream] = "open"] \/ UNCHANGED conn) /\ UNCHANGED <<sent, got>>
    BY <1>1 DEF Dial
  <2>2. Side(Upstream) = "new"
    BY <2>1 DEF ConnInv, HeldOK, Side
  <2> QED
    BY <2>1, <2>2, Ends, OpenStep DEF TypeOK
<1>2. CASE Hijack
  <2>1. pc = "hijack" /\ conn' = [conn EXCEPT ![Client] = "open"] /\ UNCHANGED <<sent, got>>
    BY <1>2 DEF Hijack
  <2>2. Side(Client) = "new"
    BY <2>1 DEF ConnInv, HeldOK, Side
  <2> QED
    BY <2>1, <2>2, Ends, OpenStep DEF TypeOK
<1>3. CASE HijackFails
  <2>1. conn' = [d \in End |-> IF d \in {Upstream} THEN "closed" ELSE conn[d]] /\ UNCHANGED <<sent, got>>
    BY <1>3 DEF HijackFails, ClosesUpstream, TypeOK
  <2> QED
    BY <2>1, Ends, CloseStep
<1>4. CASE SetupFails
  <2>1. conn' = [d \in End |-> IF d \in End THEN "closed" ELSE conn[d]] /\ UNCHANGED <<sent, got>>
    BY <1>4 DEF SetupFails, CloseBoth
  <2> QED
    BY <2>1, CloseStep
<1>5. CASE WriteUpgradeRequest
  <2>1. /\ got' = [got EXCEPT ![Other(Client)] = got[Other(Client)] \o <<0>>]
        /\ UNCHANGED <<sent, conn>> /\ pc = "upgrade"
    BY <1>5 DEF WriteUpgradeRequest, WriteTo, Other
  <2>2. got[Other(Client)] = <<>> /\ conn[Other(Client)] = "open"
    BY <2>1, Ends DEF FlowInv, ConnInv, SetupOK, HeldOK, Other
  <2>3. (<<>> \o <<0>>) \o sent[Client] = Said(Client) /\ sent[Client] \in Seq(Byte)
    BY HelloType, Ends, Bytes, ConcatEmptySeq DEF Said, TypeOK
  <2>4. <<0>> \in Seq(Byte) /\ <<0>> # <<>>
    BY Bytes
  <2> QED
    BY <2>1, <2>2, <2>3, <2>4, Ends, HearStep
<1>6. CASE ForwardBuffered
  <2>1. pc = "buffered" /\ UNCHANGED <<sent, conn>>
    BY <1>6 DEF ForwardBuffered
  <2>2. CASE buffered # <<>>
    <3>1. got' = [got EXCEPT ![Other(Client)] = got[Other(Client)] \o buffered]
      BY <1>6, <2>2 DEF ForwardBuffered, Forwarded, WriteTo, Other
    <3>2. got[Other(Client)] = <<0>> /\ conn[Other(Client)] = "open" /\ buffered \o inbox[Client] = sent[Client]
      BY <2>1, Ends DEF FlowInv, ConnInv, SetupOK, HeldOK, Other
    <3>3. <<0>> \in Seq(Byte) /\ buffered \in Seq(Byte) /\ inbox[Client] \in Seq(Byte)
      BY Ends, Bytes DEF TypeOK
    <3>4. (<<0>> \o buffered) \o inbox[Client] = <<0>> \o (buffered \o inbox[Client])
      BY <3>3, Concatenation
    <3>5. (got[Other(Client)] \o buffered) \o inbox[Client] = Said(Client)
      BY <3>2, <3>4, HelloType, Zenon DEF Said
    <3> QED
      BY <2>1, <2>2, <3>1, <3>2, <3>3, <3>5, Ends, HearStep
  <2>3. CASE buffered = <<>>
    BY <1>6, <2>1, <2>3 DEF ForwardBuffered, Forwarded
  <2> QED
    BY <2>2, <2>3
<1>7. CASE Reject \/ Admit \/ StartCopiers
  BY <1>7 DEF Reject, Admit, StartCopiers, BothCopiers
<1> QED
  BY <1>1, <1>2, <1>3, <1>4, <1>5, <1>6, <1>7 DEF HandlerStep

LEMMA CopierPipe ==
    ASSUME TypeOK, FlowInv, NEW e \in End, CopierStep(e)
    PROVE  Pipe!Next \/ UNCHANGED <<sent, got, conn>>
<1> USE DEF streams
<1>1. CASE Write(e)
  <2>1. /\ got' = [got EXCEPT ![Other(e)] = got[Other(e)] \o copier[e].chunk]
        /\ UNCHANGED <<sent, conn>> /\ conn[Other(e)] = "open" /\ copier[e].at = "write"
    BY <1>1 DEF Write, WriteTo, Copies
  <2>2. got[Other(e)] \in Seq(Byte) /\ copier[e].chunk \in Seq(Byte) /\ inbox[e] \in Seq(Byte)
    BY Ends, CopierTypes DEF TypeOK
  <2>3. (got[Other(e)] \o copier[e].chunk) \o inbox[e] = got[Other(e)] \o (copier[e].chunk \o inbox[e])
    BY <2>2, Concatenation
  <2>4. (got[Other(e)] \o copier[e].chunk) \o inbox[e] = Said(e) /\ copier[e].chunk # <<>>
    BY <2>1, <2>3 DEF FlowInv, CopyOK
  <2> QED
    BY <2>1, <2>2, <2>4, HearStep
<1>2. CASE CloseDst(e)
  <2>1. conn' = [d \in End |-> IF d \in {Other(e)} THEN "closed" ELSE conn[d]] /\ UNCHANGED <<sent, got>>
    BY <1>2 DEF CloseDst, ClosedDst, TypeOK
  <2>2. {Other(e)} \in SUBSET End
    BY Ends
  <2> QED
    BY <2>1, <2>2, CloseStep
<1>3. CASE CloseSrc(e)
  <2>1. conn' = [d \in End |-> IF d \in {e} THEN "closed" ELSE conn[d]] /\ UNCHANGED <<sent, got>>
    BY <1>3 DEF CloseSrc, TypeOK
  <2> QED
    BY <2>1, CloseStep
<1>4. CASE Read(e) \/ ReadEnds(e) \/ WriteFails(e)
  BY <1>4 DEF Read, ReadEnds, WriteFails
<1> QED
  BY <1>1, <1>2, <1>3, <1>4 DEF CopierStep

LEMMA NextPipe == TypeOK /\ ConnInv /\ FlowInv /\ [Next]_vars => [Pipe!Next]_(Pipe!vars)
<1> SUFFICES ASSUME TypeOK, ConnInv, FlowInv, [Next]_vars PROVE [Pipe!Next]_(Pipe!vars)
  OBVIOUS
<1>1. CASE UNCHANGED <<sent, got, conn>>
  <2>1. /\ [e \in End |-> Said(e)]' = [e \in End |-> Said(e)]
        /\ [e \in End |-> Side(e)]' = [e \in End |-> Side(e)]
    BY <1>1 DEF Said, Side, Hello
  <2> QED
    BY <1>1, <2>1, PipeState DEF Pipe!vars, Said, Side
<1>2. ASSUME NEW e \in End, PeerReads(e) \/ PeerHangsUp(e) PROVE UNCHANGED <<sent, got, conn>>
  BY <1>2 DEF PeerReads, PeerHangsUp, streams
<1>3. CASE UNCHANGED vars
  BY <1>1, <1>3 DEF vars, streams
<1> QED
  BY <1>1, <1>2, <1>3, HandlerPipe, CopierPipe, SayStep DEF Next

\* The proxy is a duplex pipe: what reaches a peer is the beginning of what the other one
\* said, the upgrade request first, and nothing reaches a peer whose side is closed.
THEOREM ImplementsDuplexPipe == Spec => RelaysInOrder
<1> QED
  BY InitType, NextType, InitConn, NextConn, InitFlow, NextFlow, InitPipe, NextPipe, PTL
     DEF Spec, RelaysInOrder, Pipe!Spec

-----------------------------------------------------------------------------
(***************************************************************************)
(* What the peers may rely on, from DuplexPipe alone.                      *)
(***************************************************************************)
words == [e \in End |-> Hello(e) \o sent[e]]
sides == [e \in End |-> IF conn[e] \in {"none", "served"} THEN "new" ELSE conn[e]]

PipeInv ==
    /\ words \in [End -> Seq(Byte)]
    /\ got \in [End -> Seq(Byte)]
    /\ \A e \in End : Pipe!Begins(got[e], words[Other(e)])

KeepsItsWord ==
    \A e \in End :
        /\ Pipe!Begins(got[e], got'[e])
        /\ sides[e] = "closed" => got'[e] = got[e] /\ sides'[e] = "closed"

\* A sequence begins itself, a longer one, and what it is cut from.
LEMMA Beginnings ==
    ASSUME NEW s \in Seq(Byte)
    PROVE  /\ Pipe!Begins(s, s)
           /\ \A t \in Seq(Byte), b \in Byte : Pipe!Begins(t, s) => Pipe!Begins(t, Append(s, b))
           /\ \A n \in 1..Len(s) :
                /\ SubSeq(s, 1, n) \in Seq(Byte)
                /\ Pipe!Begins(SubSeq(s, 1, n), s)
                /\ \A t \in Seq(Byte) :
                    Pipe!Begins(t, s) /\ Len(t) <= n => Pipe!Begins(t, SubSeq(s, 1, n))
<1> USE DEF Pipe!Begins
<1>1. Pipe!Begins(s, s)
  OBVIOUS
<1>2. ASSUME NEW t \in Seq(Byte), NEW b \in Byte, Pipe!Begins(t, s) PROVE Pipe!Begins(t, Append(s, b))
  BY <1>2
<1>3. ASSUME NEW n \in 1..Len(s)
      PROVE  /\ SubSeq(s, 1, n) \in Seq(Byte) /\ Len(SubSeq(s, 1, n)) = n
             /\ \A i \in 1..n : SubSeq(s, 1, n)[i] = s[i]
  <2>1. n \in Int /\ 1 <= n /\ \A i \in 1..n : s[i] \in Byte
    OBVIOUS
  <2> QED
    BY <2>1, SubSeqProperties
<1> QED
  BY <1>1, <1>2, <1>3

LEMMA SayKeeps ==
    ASSUME PipeInv, NEW e \in End, Pipe!Say(e)
    PROVE  PipeInv' /\ KeepsItsWord
<1>1. PICK b \in Byte : words' = [words EXCEPT ![e] = Append(words[e], b)]
  BY DEF Pipe!Say, words
<1>2. got' = got /\ sides' = sides
  BY DEF Pipe!Say, sides
<1>3. words' \in [End -> Seq(Byte)]
  BY <1>1 DEF PipeInv
<1> QED
  BY <1>1, <1>2, <1>3, Ends, Beginnings DEF KeepsItsWord, PipeInv

LEMMA HearKeeps ==
    ASSUME PipeInv, NEW e \in End, Pipe!Hear(e)
    PROVE  PipeInv' /\ KeepsItsWord
<1> DEFINE source == words[Other(e)]
<1>1. /\ Other(e) \in End /\ source \in Seq(Byte) /\ got[e] \in Seq(Byte)
      /\ Pipe!Begins(got[e], source)
  BY Ends DEF PipeInv
<1>2. PICK n \in Len(got[e]) + 1 .. Len(source) : got' = [got EXCEPT ![e] = SubSeq(source, 1, n)]
  BY Ends DEF Pipe!Hear, words
<1>3. words' = words /\ sides' = sides /\ sides[e] = "open"
  BY DEF Pipe!Hear, words, sides
<1> HIDE DEF source
<1>4. n \in 1..Len(source) /\ Len(got[e]) <= n
  BY <1>1, <1>2
<1>5. /\ SubSeq(source, 1, n) \in Seq(Byte)
      /\ Pipe!Begins(SubSeq(source, 1, n), source)
      /\ Pipe!Begins(got[e], SubSeq(source, 1, n))
  BY <1>1, <1>4, Beginnings
<1>6. got' \in [End -> Seq(Byte)] /\ \A d \in End \ {e} : got'[d] = got[d]
  BY <1>2, <1>5 DEF PipeInv
<1>7. got'[e] = SubSeq(source, 1, n)
  BY <1>2 DEF PipeInv
<1>8. PipeInv'
  BY <1>3, <1>5, <1>6, <1>7, Ends DEF source, PipeInv
<1>9. KeepsItsWord
  BY <1>3, <1>5, <1>6, <1>7, Beginnings DEF KeepsItsWord, PipeInv
<1> QED
  BY <1>8, <1>9

LEMMA SideKeeps ==
    ASSUME PipeInv, Pipe!Close \/ \E e \in End : Pipe!Open(e)
    PROVE  PipeInv' /\ KeepsItsWord
<1>1. words' = words /\ got' = got
  BY DEF Pipe!Close, Pipe!Open, words
<1>2. \A e \in End : sides[e] = "closed" => sides'[e] = "closed"
  BY DEF Pipe!Close, Pipe!Open, sides
<1> QED
  BY <1>1, <1>2, Beginnings DEF KeepsItsWord, PipeInv

LEMMA InitKeeps == Pipe!Init => PipeInv
BY Ends DEF PipeInv, Pipe!Init, Pipe!Begins, words

LEMMA NextKeeps ==
    PipeInv /\ [Pipe!Next]_(Pipe!vars) => PipeInv' /\ [KeepsItsWord]_(Pipe!vars)
<1> SUFFICES ASSUME PipeInv, [Pipe!Next]_(Pipe!vars)
             PROVE  PipeInv' /\ [KeepsItsWord]_(Pipe!vars)
  OBVIOUS
<1>1. CASE Pipe!Next
  BY <1>1, SayKeeps, HearKeeps, SideKeeps DEF Pipe!Next
<1>2. CASE UNCHANGED Pipe!vars
  BY <1>2 DEF PipeInv, Pipe!vars, words
<1> QED
  BY <1>1, <1>2

\* Whatever hangs up or fails, at every moment a peer has got the beginning of what the
\* other one said (the upstream after the upgrade request), in order and nothing twice;
\* it only ever grows, and no longer once the peer's connection is closed.
THEOREM PeersGetBeginnings == Spec => []Pipe!HeardWasSaid /\ Pipe!NothingIsTakenBack
<1>1. PipeInv => Pipe!HeardWasSaid
  BY Ends DEF PipeInv, Pipe!HeardWasSaid, words
<1>2. Pipe!Spec => []PipeInv /\ [][KeepsItsWord]_(Pipe!vars)
  BY InitKeeps, NextKeeps, PTL DEF Pipe!Spec
<1>3. KeepsItsWord <=> \A e \in End :
        /\ Pipe!Begins(got[e], got'[e])
        /\ sides[e] = "closed" => got'[e] = got[e] /\ sides'[e] = "closed"
  BY DEF KeepsItsWord
<1> QED
  BY <1>1, <1>2, <1>3, ImplementsDuplexPipe, PTL
     DEF RelaysInOrder, Pipe!NothingIsTakenBack, sides
=============================================================================
