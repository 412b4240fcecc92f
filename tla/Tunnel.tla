-------------------------------- MODULE Tunnel --------------------------------
(***************************************************************************)
(* tunnel(conn1, conn2) of src/net.cc: two loops, one per direction, each  *)
(* reading what one peer sent and writing it to the other connection.      *)
(* A loop's reads are serial (the next one is asked for at the end of the  *)
(* handler), its writes go through the write queue of the other connection *)
(* without waiting for each other, and any error stops both connections.   *)
(*                                                                         *)
(* The bytes a peer sends are numbered 1, 2, ...; a chunk is a sequence of *)
(* consecutive bytes.  A step is what one io thread does between two       *)
(* operations another thread can observe.                                  *)
(***************************************************************************)
EXTENDS Naturals, Sequences, SequencesExt

CONSTANTS
  A, B,      (* the two connections                                         *)
  MaxSent,   (* bound: bytes each peer may send                             *)
  AppStops   (* the connections something else than the tunnel may stop     *)

Conn == {A, B}

ASSUME TunnelAssumption == A # B /\ MaxSent \in Nat /\ AppStops \subseteq Conn

Other(c) == IF c = A THEN B ELSE A

VARIABLES
  sent,       (* sent[c]: how many bytes c's peer has sent                  *)
  closed,     (* closed[c]: c's peer sends no more: end of file             *)
  got,        (* got[c]: how many of them have been read from c             *)
  loop,       (* loop[c]: where transfer_data(c, Other(c)) is               *)
  chunk,      (* chunk[c]: what the running read handler took from c        *)
  writes,     (* writes[c]: c's write queue, its front in flight            *)
  failing,    (* failing[c]: where the error handler of a write to c is     *)
  delivered,  (* delivered[c]: the bytes written to c, in order             *)
  stopped     (* stopped[c]: c->stop() was called                           *)

vars == <<sent, closed, got, loop, chunk, writes, failing, delivered, stopped>>

Init ==
  /\ sent = [c \in Conn |-> 0]
  /\ closed = [c \in Conn |-> FALSE]
  /\ got = [c \in Conn |-> 0]
  /\ loop = [c \in Conn |-> "check"]
  /\ chunk = [c \in Conn |-> <<>>]
  /\ writes = [c \in Conn |-> <<>>]
  /\ failing = [c \in Conn |-> "no"]
  /\ delivered = [c \in Conn |-> <<>>]
  /\ stopped = [c \in Conn |-> FALSE]

-----------------------------------------------------------------------------
(* The peers, and others who hold the connection.                            *)
PeerSends(c) ==
  /\ ~closed[c] /\ sent[c] < MaxSent
  /\ sent' = [sent EXCEPT ![c] = @ + 1]
  /\ UNCHANGED <<closed, got, loop, chunk, writes, failing, delivered, stopped>>

PeerCloses(c) ==
  /\ ~closed[c]
  /\ closed' = [closed EXCEPT ![c] = TRUE]
  /\ UNCHANGED <<sent, got, loop, chunk, writes, failing, delivered, stopped>>

AppStop(c) ==
  /\ c \in AppStops /\ ~stopped[c]
  /\ stopped' = [stopped EXCEPT ![c] = TRUE]
  /\ UNCHANGED <<sent, closed, got, loop, chunk, writes, failing, delivered>>

-----------------------------------------------------------------------------
(* transfer_data's test of stoped(), which reads an unprotected flag: it may *)
(* miss a stop() another thread is just making, but never invents one.       *)
AskRead(c) ==
  /\ loop[c] = "check"
  /\ loop' = [loop EXCEPT ![c] = "reading"]
  /\ UNCHANGED <<sent, closed, got, chunk, writes, failing, delivered, stopped>>

SeeStopped(c) ==
  /\ loop[c] = "check"
  /\ stopped[A] \/ stopped[B]
  /\ loop' = [loop EXCEPT ![c] = "done"]
  /\ UNCHANGED <<sent, closed, got, chunk, writes, failing, delivered, stopped>>

(* Slips the properties below must detect (used by the mutation runs only).  *)
ForwardInFront(c) ==
  /\ loop[c] = "took"
  /\ writes' = [writes EXCEPT ![Other(c)] = <<chunk[c]>> \o @]
  /\ chunk' = [chunk EXCEPT ![c] = <<>>]
  /\ loop' = [loop EXCEPT ![c] = "check"]
  /\ UNCHANGED <<sent, closed, got, failing, delivered, stopped>>

ForwardAndForget(c) ==
  /\ loop[c] = "took"
  /\ writes' = [writes EXCEPT ![Other(c)] = Append(@, chunk[c])]
  /\ chunk' = [chunk EXCEPT ![c] = <<>>]
  /\ loop' = [loop EXCEPT ![c] = "done"]
  /\ UNCHANGED <<sent, closed, got, failing, delivered, stopped>>

StopOnlySource(c) ==
  /\ loop[c] = "stop first"
  /\ stopped' = [stopped EXCEPT ![c] = TRUE]
  /\ loop' = [loop EXCEPT ![c] = "done"]
  /\ UNCHANGED <<sent, closed, got, chunk, writes, failing, delivered>>

(* At least one byte was read; the handler takes all that is buffered.       *)
ReadDone(c) ==
  /\ loop[c] = "reading" /\ ~stopped[c]
  /\ \E n \in got[c] + 1 .. sent[c] :
       /\ chunk' = [chunk EXCEPT ![c] = [i \in 1 .. n - got[c] |-> got[c] + i]]
       /\ got' = [got EXCEPT ![c] = n]
  /\ loop' = [loop EXCEPT ![c] = "took"]
  /\ UNCHANGED <<sent, closed, writes, failing, delivered, stopped>>

(* The handler writes the chunk to the other connection and loops.           *)
Forward(c) ==
  /\ loop[c] = "took"
  /\ writes' = [writes EXCEPT ![Other(c)] = Append(@, chunk[c])]
  /\ chunk' = [chunk EXCEPT ![c] = <<>>]
  /\ loop' = [loop EXCEPT ![c] = "check"]
  /\ UNCHANGED <<sent, closed, got, failing, delivered, stopped>>

(* End of file once everything was read, or the connection was stopped.      *)
ReadFails(c) ==
  /\ loop[c] = "reading"
  /\ stopped[c] \/ (closed[c] /\ got[c] = sent[c])
  /\ loop' = [loop EXCEPT ![c] = "stop first"]
  /\ UNCHANGED <<sent, closed, got, chunk, writes, failing, delivered, stopped>>

StopFirst(c) ==
  /\ loop[c] = "stop first"
  /\ stopped' = [stopped EXCEPT ![c] = TRUE]
  /\ loop' = [loop EXCEPT ![c] = "stop second"]
  /\ UNCHANGED <<sent, closed, got, chunk, writes, failing, delivered>>

StopSecond(c) ==
  /\ loop[c] = "stop second"
  /\ stopped' = [stopped EXCEPT ![Other(c)] = TRUE]
  /\ loop' = [loop EXCEPT ![c] = "done"]
  /\ UNCHANGED <<sent, closed, got, chunk, writes, failing, delivered>>

-----------------------------------------------------------------------------
(* The write queue of c: the socket takes a byte of the front chunk.         *)
WriteByte(c) ==
  /\ writes[c] # <<>> /\ Head(writes[c]) # <<>>
  /\ failing[c] = "no" /\ ~stopped[c]
  /\ delivered' = [delivered EXCEPT ![c] = Append(@, Head(Head(writes[c])))]
  /\ writes' = [writes EXCEPT ![c] = <<Tail(Head(@))>> \o Tail(@)]
  /\ UNCHANGED <<sent, closed, got, loop, chunk, failing, stopped>>

WriteDone(c) ==
  /\ writes[c] # <<>> /\ Head(writes[c]) = <<>>
  /\ failing[c] = "no"
  /\ writes' = [writes EXCEPT ![c] = Tail(@)]
  /\ UNCHANGED <<sent, closed, got, loop, chunk, failing, delivered, stopped>>

(* The write fails, stopped or refused by a peer that closed: its handler    *)
(* stops the source, then the destination, and only then does the write      *)
(* queue pop it and issue the next one.                                      *)
WriteFails(c) ==
  /\ writes[c] # <<>> /\ failing[c] = "no"
  /\ stopped[c] \/ closed[c]
  /\ failing' = [failing EXCEPT ![c] = "stop first"]
  /\ UNCHANGED <<sent, closed, got, loop, chunk, writes, delivered, stopped>>

WriteStopsFirst(c) ==
  /\ failing[c] = "stop first"
  /\ stopped' = [stopped EXCEPT ![Other(c)] = TRUE]
  /\ failing' = [failing EXCEPT ![c] = "stop second"]
  /\ UNCHANGED <<sent, closed, got, loop, chunk, writes, delivered>>

WriteStopsSecond(c) ==
  /\ failing[c] = "stop second"
  /\ stopped' = [stopped EXCEPT ![c] = TRUE]
  /\ failing' = [failing EXCEPT ![c] = "no"]
  /\ writes' = [writes EXCEPT ![c] = Tail(@)]
  /\ UNCHANGED <<sent, closed, got, loop, chunk, delivered>>

LoopStep(c) ==
  \/ AskRead(c) \/ SeeStopped(c) \/ ReadDone(c) \/ Forward(c)
  \/ ReadFails(c) \/ StopFirst(c) \/ StopSecond(c)

WriteStep(c) ==
  \/ WriteByte(c) \/ WriteDone(c)
  \/ WriteFails(c) \/ WriteStopsFirst(c) \/ WriteStopsSecond(c)

Next == \E c \in Conn :
  LoopStep(c) \/ WriteStep(c) \/ PeerSends(c) \/ PeerCloses(c) \/ AppStop(c)

Spec == Init /\ [][Next]_vars

(***************************************************************************)
(* Fairness: asio completes a read or write that can complete and io       *)
(* threads run the handlers.  The peers read (a peer that never reads      *)
(* blocks the write for ever) but need not send or close.                  *)
(***************************************************************************)
FairSpec == Spec /\ \A c \in Conn : WF_vars(LoopStep(c)) /\ WF_vars(WriteStep(c))

-----------------------------------------------------------------------------
(* The variables take values of their types.                                 *)
TypeOK ==
  /\ sent \in [Conn -> 0..MaxSent] /\ got \in [Conn -> 0..MaxSent]
  /\ closed \in [Conn -> BOOLEAN] /\ stopped \in [Conn -> BOOLEAN]
  /\ loop \in [Conn -> {"check", "reading", "took", "stop first", "stop second", "done"}]
  /\ failing \in [Conn -> {"no", "stop first", "stop second"}]
  /\ chunk \in [Conn -> Seq(1..MaxSent)]
  /\ delivered \in [Conn -> Seq(1..MaxSent)]
  /\ writes \in [Conn -> Seq(Seq(1..MaxSent))]

Bytes(n) == [i \in 1..n |-> i]

(* The peer of a connection receives what the other peer sent, in order,     *)
(* nothing twice and nothing skipped, however reads, queued writes and stops *)
(* interleave; and while nothing is stopped every byte read is delivered or  *)
(* still on its way to be.  (With the types.)                                *)
NothingLostOrReordered ==
  TypeOK /\
  \A c \in Conn :
    /\ delivered[c] = Bytes(Len(delivered[c]))
    /\ ~stopped[A] /\ ~stopped[B] =>
         delivered[Other(c)] \o FlattenSeq(writes[Other(c)]) \o chunk[c] = Bytes(got[c])

(* Whatever a peer sends reaches the other peer, unless a connection stops.  *)
SentArrivesOrStops ==
  \A c \in Conn, n \in 1..MaxSent :
     sent[c] >= n ~> Len(delivered[Other(c)]) >= n \/ stopped[A] \/ stopped[B]

(* An error of any of the four activities, a read or a write on either       *)
(* connection, stops both, and all operations the tunnel queued on either of *)
(* them end, so both connections are released; whatever else stops them      *)
(* meanwhile.                                                                *)
SeesError == \E c \in Conn : loop[c] \in {"stop first", "stop second"} \/ failing[c] # "no"
Unwound == \A c \in Conn : stopped[c] /\ loop[c] = "done" /\ writes[c] = <<>>
ErrorUnwindsBoth == SeesError ~> Unwound
=============================================================================
