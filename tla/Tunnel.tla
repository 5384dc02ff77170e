------------------------------- MODULE Tunnel -------------------------------
(***************************************************************************)
(* One redirected connection on its way through the two proxies            *)
(* (pkg/connection/connection.go):                                         *)
(*                                                                         *)
(*    client <-CI-> internalProxy <-IE-> external handler <-ES-> server    *)
(*                                                                         *)
(* internalProxy dials the other proxy, sends it the original destination  *)
(* (the header), waits for an answer (the ack, 'Y') and copies in both     *)
(* directions; handleExternalConnection and handleTLSExternalConnection    *)
(* read the header, dial the server, send the ack and copy.  Both have a   *)
(* goroutine for the direction up (client to server); the handler itself   *)
(* copies down (server to client) and its deferred calls close both of its *)
(* connections when that copy ends.                                        *)
(*                                                                         *)
(* TCP is external: each direction of a connection is a bounded FIFO       *)
(* queue.  Closing an end with unread input, or writing to an end that is  *)
(* closed, resets the connection, and what the closer had sent but was not *)
(* yet delivered may be lost.                                              *)
(***************************************************************************)
EXTENDS Naturals, Sequences

CONSTANTS
  Mode,           \* possible values of tls
  Target,         \* possible answers of findTargetFromConnection
  ClientPieces,   \* how many pieces the client sends at most
  ServerPieces,   \* how many pieces the server sends at most
  SockBuf,        \* capacity of each direction of a connection
  ReadBuf         \* len(tmp), in pieces

ASSUME TunnelAssumption ==
  /\ Mode \subseteq BOOLEAN
  /\ Target \subseteq {"server", "self"}   \* self: c.Address:c.ProxyPort
  /\ {ClientPieces, ServerPieces} \subseteq Nat
  /\ {SockBuf, ReadBuf} \subseteq Nat \ {0}

VARIABLES
  target,     \* what findTargetFromConnection returned
  tls,        \* c.Certificates # nil on both sides when the dial is made
  pc,         \* [{"I", "E"} -> where the handler is]
  ch,         \* [Channel -> [q, fin, dead, rst]]: fin: the sender closed,
              \* dead: the receiver closed, rst: the sender was told so
  run,        \* [Copier -> "off" | "run" | "end"]
  hold,       \* [Copier -> what io.Copy has read and not yet written]
  client,     \* the client process: [st, sent, rcvd, eof]
  server,     \* the server process: [st, sent, rcvd, eof]
  reset       \* history: a connection was reset or a proxy was killed

vars == <<target, tls, pc, ch, run, hold, client, server, reset>>

-----------------------------------------------------------------------------
Header == <<"header", 0>>
Ack    == <<"Y", 0>>
Nothing == <<"nothing", 0>>
ClientData == {"c"} \X (1 .. ClientPieces)
ServerData == {"s"} \X (1 .. ServerPieces)
Piece == ClientData \cup ServerData \cup {Header, Ack}

(* The two directions of CI, IE and ES.                                     *)
Channel == {"c2i", "i2c", "i2e", "e2i", "e2s", "s2e"}
Back == [c2i |-> "i2c", i2c |-> "c2i", i2e |-> "e2i", e2i |-> "i2e",
         e2s |-> "s2e", s2e |-> "e2s"]
Carries ==
  [c2i |-> ClientData, i2c |-> ServerData, e2s |-> ClientData, s2e |-> ServerData,
   i2e |-> ClientData \cup {Header}, e2i |-> ServerData \cup {Ack}]

(* The four calls of io.Copy.                                               *)
Copier == {"Iup", "Idn", "Eup", "Edn"}
Up   == [I |-> "Iup", E |-> "Eup"]
Dn   == [I |-> "Idn", E |-> "Edn"]
Side == [Iup |-> "I", Idn |-> "I", Eup |-> "E", Edn |-> "E"]
From == [Iup |-> "c2i", Idn |-> "e2i", Eup |-> "i2e", Edn |-> "s2e"]
To   == [Iup |-> "i2e", Idn |-> "i2c", Eup |-> "e2s", Edn |-> "e2i"]

TypeOK ==
  /\ target \in Target
  /\ tls \in Mode
  /\ pc \in [I : {"dial", "header", "ack", "copy", "done"},
             E : {"none", "header", "dial", "ack", "copy", "done"}]
  /\ ch \in [Channel -> [q : Seq(Piece), fin : BOOLEAN, dead : BOOLEAN, rst : BOOLEAN]]
  /\ \A c \in Channel : ch[c].q \in Seq(Carries[c]) /\ Len(ch[c].q) <= SockBuf
  /\ run \in [Copier -> {"off", "run", "end"}]
  /\ hold \in [Copier -> Piece \cup {Nothing}]
  /\ \A k \in Copier :
       /\ hold[k] \in (Carries[From[k]] \cap Carries[To[k]]) \cup {Nothing}
       /\ run[k] # "run" => hold[k] = Nothing
  /\ client \in [st : {"open", "half", "closed"}, sent : Seq(ClientData),
                 rcvd : Seq(ServerData), eof : BOOLEAN]
  /\ server \in [st : {"listen", "open", "closed"}, sent : Seq(ServerData),
                 rcvd : Seq(ClientData), eof : BOOLEAN]
  /\ reset \in BOOLEAN

(* internalProxy has been started for an accepted connection.               *)
Init ==
  /\ target \in Target
  /\ tls \in Mode
  /\ pc = [I |-> "dial", E |-> "none"]
  /\ ch = [c \in Channel |-> [q |-> <<>>, fin |-> FALSE, dead |-> FALSE, rst |-> FALSE]]
  /\ run = [k \in Copier |-> "off"]
  /\ hold = [k \in Copier |-> Nothing]
  /\ client = [st |-> "open", sent |-> <<>>, rcvd |-> <<>>, eof |-> FALSE]
  /\ server = [st |-> "listen", sent |-> <<>>, rcvd |-> <<>>, eof |-> FALSE]
  /\ reset = FALSE

-----------------------------------------------------------------------------
(* TCP.                                                                     *)

Prefixes(q) == {SubSeq(q, 1, n) : n \in 0 .. Len(q)}

(* close() of the end that sends on out.                                    *)
Unread(chs, out) == chs[Back[out]].q # <<>>
Closes(chs, out) ==
  {[chs EXCEPT ![out] = [@ EXCEPT !.q = kept, !.fin = TRUE],
               ![Back[out]] = [@ EXCEPT !.q = <<>>, !.dead = TRUE]] :
     kept \in IF Unread(chs, out) THEN Prefixes(chs[out].q) ELSE {chs[out].q}}
CloseTwo(chs, out1, out2) ==
  UNION {Closes(mid, out2) : mid \in Closes(chs, out1)}

(* write() of v on out: blocks on a full queue.  The first write to an end  *)
(* that is closed still succeeds, and is answered by a reset; the next one  *)
(* fails.                                                                   *)
CanWrite(out) ==
  ~ch[out].rst /\ (ch[out].dead \/ Len(ch[out].q) < SockBuf)
Writes(out, v) ==
  IF ch[out].dead
    THEN {[ch EXCEPT ![Back[out]].q = kept, ![out].rst = TRUE] :
            kept \in Prefixes(ch[Back[out]].q)}
    ELSE {[ch EXCEPT ![out].q = Append(@, v)]}

(* What one Read into tmp may take from a queue: a TLS read returns at most *)
(* one record, and each Write is a record of its own; a TCP read returns    *)
(* whatever has arrived.                                                    *)
ReadSizes(q) ==
  IF tls THEN {1} ELSE {n \in 1 .. Len(q) : n <= ReadBuf}
Drop(q, n) == SubSeq(q, n + 1, Len(q))

AtEnd(c) == ch[c].q = <<>> /\ ch[c].fin

(* The deferred closes of a handler: targetConn (if there is one), conn.    *)
Returns(p, open) ==
  /\ pc' = [pc EXCEPT ![p] = "done"]
  /\ \/ /\ p = "I" /\ open
        /\ ch' \in CloseTwo(ch, "i2e", "i2c")
        /\ reset' = (reset \/ Unread(ch, "i2e") \/ Unread(ch, "i2c"))
     \/ /\ p = "I" /\ ~open
        /\ ch' \in Closes(ch, "i2c")
        /\ reset' = (reset \/ Unread(ch, "i2c"))
     \/ /\ p = "E" /\ open
        /\ ch' \in CloseTwo(ch, "e2s", "e2i")
        /\ reset' = (reset \/ Unread(ch, "e2s") \/ Unread(ch, "e2i"))
     \/ /\ p = "E" /\ ~open
        /\ ch' \in Closes(ch, "e2i")
        /\ reset' = (reset \/ Unread(ch, "e2i"))

-----------------------------------------------------------------------------
(* internalProxy.                                                           *)

(* The dial succeeds (the other side's Accept starts a handler), or it      *)
(* fails, is refused or times out.                                          *)
InternalDial ==
  /\ pc.I = "dial"
  /\ \/ /\ pc' = [pc EXCEPT !.I = "header", !.E = "header"]
        /\ UNCHANGED <<ch, reset>>
     \/ Returns("I", FALSE)
  /\ UNCHANGED <<target, tls, run, hold, client, server>>

(* targetConn.Write(targetDestination): an error is only logged.            *)
WriteHeader ==
  /\ pc.I = "header"
  /\ pc' = [pc EXCEPT !.I = "ack"]
  /\ ch' \in Writes("i2e", Header)
  /\ reset' = (reset \/ ch["i2e"].dead)
  /\ UNCHANGED <<target, tls, run, hold, client, server>>

(* Both directions start: the goroutine and the handler's own io.Copy.      *)
StartCopies(p) ==
  /\ pc' = [pc EXCEPT ![p] = "copy"]
  /\ run' = [run EXCEPT ![Up[p]] = "run", ![Dn[p]] = "run"]

(* Mutant: the ack is not read before the copies start.                     *)
MutReadAckSkipped ==
  /\ pc.I = "ack"
  /\ StartCopies("I")
  /\ UNCHANGED <<target, tls, ch, hold, client, server, reset>>

(* targetConn.Read(tmp): what it returns and whether it failed is ignored.  *)
ReadAck ==
  /\ pc.I = "ack"
  /\ \/ /\ ch["e2i"].q # <<>>
        /\ \E n \in ReadSizes(ch["e2i"].q) :
             ch' = [ch EXCEPT !["e2i"].q = Drop(@, n)]
     \/ /\ AtEnd("e2i")
        /\ UNCHANGED ch
  /\ StartCopies("I")
  /\ UNCHANGED <<target, tls, hold, client, server, reset>>

(* The external handlers.                                                   *)

(* Mutant: the header is looked at but left in the stream.                  *)
MutReadHeaderPeeks ==
  /\ pc.E = "header"
  /\ ch["i2e"].q # <<>>
  /\ pc' = [pc EXCEPT !.E = "dial"]
  /\ UNCHANGED <<target, tls, ch, run, hold, client, server, reset>>

(* Mutant: the loopback test is missing.                                    *)
MutReadHeaderNoTest ==
  /\ pc.E = "header"
  /\ ch["i2e"].q # <<>>
  /\ pc' = [pc EXCEPT !.E = "dial"]
  /\ ch' = [ch EXCEPT !["i2e"].q = Tail(@)]
  /\ UNCHANGED <<target, tls, run, hold, client, server, reset>>

(* conn.Read(tmp): exactly the header, or an unusable address (a failed     *)
(* read gives the empty one).  The loopback test follows.  The header is    *)
(* one piece: its at most 21 bytes are the first write of the connection    *)
(* and come in one segment or record, so the read is never shorter.         *)
ReadHeader ==
  /\ pc.E = "header"
  /\ \/ /\ ch["i2e"].q # <<>>
        /\ \E n \in ReadSizes(ch["i2e"].q) :
             LET got == SubSeq(ch["i2e"].q, 1, n)
                 rest == [ch EXCEPT !["i2e"].q = Drop(@, n)]
             IN  IF got = <<Header>> /\ target # "self"
                   THEN /\ pc' = [pc EXCEPT !.E = "dial"]
                        /\ ch' = rest
                        /\ UNCHANGED reset
                   ELSE /\ pc' = [pc EXCEPT !.E = "done"]
                        /\ ch' \in Closes(rest, "e2i")
                        /\ reset' = (reset \/ Unread(rest, "e2i"))
     \/ /\ AtEnd("i2e")
        /\ Returns("E", FALSE)
  /\ UNCHANGED <<target, tls, run, hold, client, server>>

(* Mutant: the early return after a failed dial leaves conn open.           *)
MutExternalDialLeaks ==
  /\ pc.E = "dial"
  /\ \/ /\ pc' = [pc EXCEPT !.E = "ack"]
        /\ server' = [server EXCEPT !.st = "open"]
     \/ /\ pc' = [pc EXCEPT !.E = "done"]
        /\ UNCHANGED server
  /\ UNCHANGED <<target, tls, ch, run, hold, client, reset>>

(* net.DialTimeout to the original destination.                             *)
ExternalDial ==
  /\ pc.E = "dial"
  /\ \/ /\ pc' = [pc EXCEPT !.E = "ack"]
        /\ server' = [server EXCEPT !.st = "open"]
        /\ UNCHANGED <<ch, reset>>
     \/ /\ Returns("E", FALSE)
        /\ UNCHANGED server
  /\ UNCHANGED <<target, tls, run, hold, client>>

WriteAck ==
  /\ pc.E = "ack"
  /\ ch' \in Writes("e2i", Ack)
  /\ reset' = (reset \/ ch["e2i"].dead)
  /\ StartCopies("E")
  /\ UNCHANGED <<target, tls, hold, client, server>>

-----------------------------------------------------------------------------
(* io.Copy: read a piece, write it, until the input ends or an end fails.   *)

CopyRead(k) ==
  /\ run[k] = "run"
  /\ hold[k] = Nothing
  /\ pc[Side[k]] = "copy"
  /\ ch[From[k]].q # <<>>
  /\ hold' = [hold EXCEPT ![k] = Head(ch[From[k]].q)]
  /\ ch' = [ch EXCEPT ![From[k]].q = Tail(@)]
  /\ UNCHANGED <<target, tls, pc, run, client, server, reset>>

CopyWrite(k) ==
  /\ run[k] = "run"
  /\ hold[k] # Nothing
  /\ pc[Side[k]] = "copy"
  /\ CanWrite(To[k])
  /\ hold' = [hold EXCEPT ![k] = Nothing]
  /\ ch' \in Writes(To[k], hold[k])
  /\ reset' = (reset \/ ch[To[k]].dead)
  /\ UNCHANGED <<target, tls, pc, run, client, server>>

(* Mutant: the goroutine closes both connections when its input ends.       *)
MutUpEndsCloses(p) ==
  /\ run[Up[p]] = "run"
  /\ pc[p] = "copy"
  /\ AtEnd(From[Up[p]]) /\ hold[Up[p]] = Nothing
  /\ run' = [run EXCEPT ![Up[p]] = "end", ![Dn[p]] = "end"]
  /\ hold' = [hold EXCEPT ![Up[p]] = Nothing, ![Dn[p]] = Nothing]
  /\ Returns(p, TRUE)
  /\ UNCHANGED <<target, tls, client, server>>

(* The goroutine of the direction up ends: at the end of its input, at an   *)
(* error of a write to a closed end, or because its handler has closed the  *)
(* connections under it.  It closes nothing itself.                         *)
UpEnds(p) ==
  /\ run[Up[p]] = "run"
  /\ \/ AtEnd(From[Up[p]]) /\ hold[Up[p]] = Nothing
     \/ ch[To[Up[p]]].rst /\ hold[Up[p]] # Nothing
     \/ pc[p] = "done"
  /\ run' = [run EXCEPT ![Up[p]] = "end"]
  /\ hold' = [hold EXCEPT ![Up[p]] = Nothing]
  /\ UNCHANGED <<target, tls, pc, ch, client, server, reset>>

(* Mutant: no deferred close, the connections are left to themselves.       *)
MutDownEndsLeaks(p) ==
  /\ run[Dn[p]] = "run"
  /\ AtEnd(From[Dn[p]]) /\ hold[Dn[p]] = Nothing
  /\ run' = [run EXCEPT ![Dn[p]] = "end"]
  /\ pc' = [pc EXCEPT ![p] = "done"]
  /\ UNCHANGED <<target, tls, ch, hold, client, server, reset>>

(* The handler's own copy ends, and the handler returns.                    *)
DownEnds(p) ==
  /\ run[Dn[p]] = "run"
  /\ \/ AtEnd(From[Dn[p]]) /\ hold[Dn[p]] = Nothing
     \/ ch[To[Dn[p]]].rst /\ hold[Dn[p]] # Nothing
  /\ run' = [run EXCEPT ![Dn[p]] = "end"]
  /\ hold' = [hold EXCEPT ![Dn[p]] = Nothing]
  /\ Returns(p, TRUE)
  /\ UNCHANGED <<target, tls, client, server>>

(* The process of a proxy ends (signal, crash): the kernel closes its ends. *)
Kill(p) ==
  /\ pc[p] \notin {"none", "done"}
  /\ pc' = [pc EXCEPT ![p] = "done"]
  /\ run' = [run EXCEPT ![Up[p]] = "end", ![Dn[p]] = "end"]
  /\ hold' = [hold EXCEPT ![Up[p]] = Nothing, ![Dn[p]] = Nothing]
  /\ \/ p = "I" /\ pc.I # "dial" /\ ch' \in CloseTwo(ch, "i2e", "i2c")
     \/ p = "I" /\ pc.I = "dial" /\ ch' \in Closes(ch, "i2c")
     \/ p = "E" /\ pc.E \in {"ack", "copy"} /\ ch' \in CloseTwo(ch, "e2s", "e2i")
     \/ p = "E" /\ pc.E \notin {"ack", "copy"} /\ ch' \in Closes(ch, "e2i")
  /\ reset' = TRUE
  /\ UNCHANGED <<target, tls, client, server>>

-----------------------------------------------------------------------------
(* The applications.                                                        *)

ClientSend ==
  /\ client.st = "open"
  /\ Len(client.sent) < ClientPieces
  /\ CanWrite("c2i")
  /\ LET v == <<"c", Len(client.sent) + 1>>
     IN  /\ client' = [client EXCEPT !.sent = Append(@, v)]
         /\ ch' \in Writes("c2i", v)
  /\ reset' = (reset \/ ch["c2i"].dead)
  /\ UNCHANGED <<target, tls, pc, run, hold, server>>

ClientRead ==
  /\ client.st # "closed"
  /\ ~client.eof
  /\ \/ /\ ch["i2c"].q # <<>>
        /\ client' = [client EXCEPT !.rcvd = Append(@, Head(ch["i2c"].q))]
        /\ ch' = [ch EXCEPT !["i2c"].q = Tail(@)]
     \/ /\ AtEnd("i2c")
        /\ client' = [client EXCEPT !.eof = TRUE]
        /\ UNCHANGED ch
  /\ UNCHANGED <<target, tls, pc, run, hold, server, reset>>

(* shutdown(SHUT_WR): the client has said everything and waits.             *)
ClientShutdown ==
  /\ client.st = "open"
  /\ client' = [client EXCEPT !.st = "half"]
  /\ ch' = [ch EXCEPT !["c2i"].fin = TRUE]
  /\ UNCHANGED <<target, tls, pc, run, hold, server, reset>>

ClientClose ==
  /\ client.st # "closed"
  /\ client' = [client EXCEPT !.st = "closed"]
  /\ ch' \in Closes(ch, "c2i")
  /\ reset' = (reset \/ Unread(ch, "c2i"))
  /\ UNCHANGED <<target, tls, pc, run, hold, server>>

ServerSend ==
  /\ server.st = "open"
  /\ Len(server.sent) < ServerPieces
  /\ CanWrite("s2e")
  /\ LET v == <<"s", Len(server.sent) + 1>>
     IN  /\ server' = [server EXCEPT !.sent = Append(@, v)]
         /\ ch' \in Writes("s2e", v)
  /\ reset' = (reset \/ ch["s2e"].dead)
  /\ UNCHANGED <<target, tls, pc, run, hold, client>>

ServerRead ==
  /\ server.st = "open"
  /\ ~server.eof
  /\ \/ /\ ch["e2s"].q # <<>>
        /\ server' = [server EXCEPT !.rcvd = Append(@, Head(ch["e2s"].q))]
        /\ ch' = [ch EXCEPT !["e2s"].q = Tail(@)]
     \/ /\ AtEnd("e2s")
        /\ server' = [server EXCEPT !.eof = TRUE]
        /\ UNCHANGED ch
  /\ UNCHANGED <<target, tls, pc, run, hold, client, reset>>

ServerClose ==
  /\ server.st = "open"
  /\ server' = [server EXCEPT !.st = "closed"]
  /\ ch' \in Closes(ch, "s2e")
  /\ reset' = (reset \/ Unread(ch, "s2e"))
  /\ UNCHANGED <<target, tls, pc, run, hold, client>>

-----------------------------------------------------------------------------
Proxies ==
  \/ InternalDial \/ WriteHeader \/ ReadAck
  \/ ReadHeader \/ ExternalDial \/ WriteAck
  \/ \E k \in Copier : CopyRead(k) \/ CopyWrite(k)
  \/ \E p \in {"I", "E"} : UpEnds(p) \/ DownEnds(p)

Applications ==
  \/ ClientSend \/ ClientRead \/ ClientShutdown \/ ClientClose
  \/ ServerSend \/ ServerRead \/ ServerClose

Next == Proxies \/ Applications \/ \E p \in {"I", "E"} : Kill(p)

(* Goroutines that can run do run: the Go scheduler is fair, and every dial *)
(* has a timeout.  The applications read what arrives; nothing makes them   *)
(* send or close, and nothing makes a proxy die.                            *)
Fairness ==
  /\ WF_vars(InternalDial) /\ WF_vars(WriteHeader) /\ WF_vars(ReadAck)
  /\ WF_vars(ReadHeader) /\ WF_vars(ExternalDial) /\ WF_vars(WriteAck)
  /\ \A k \in Copier : WF_vars(CopyRead(k)) /\ WF_vars(CopyWrite(k))
  /\ \A p \in {"I", "E"} : WF_vars(UpEnds(p)) /\ WF_vars(DownEnds(p))
  /\ WF_vars(ClientRead) /\ WF_vars(ServerRead)

Spec == Init /\ [][Next]_vars
FairSpec == Spec /\ Fairness

-----------------------------------------------------------------------------
(* Properties.                                                              *)

UpDirection == INSTANCE Pipe
  WITH Data <- ClientData, sent <- client.sent, rcvd <- server.rcvd
DownDirection == INSTANCE Pipe
  WITH Data <- ServerData, sent <- server.sent, rcvd <- client.rcvd
TLSDownDirection == INSTANCE Pipe
  WITH Data <- ServerData,
       sent <- IF tls THEN server.sent ELSE <<>>,
       rcvd <- IF tls THEN client.rcvd ELSE <<>>

(* "From the client to the target server": the server gets a prefix of what *)
(* the client sent, and neither the header nor anything else.               *)
UpIsPipe == UpDirection!Spec

(* "From the target server to the client": likewise, without the ack ...    *)
DownIsPipe == DownDirection!Spec

(* ... which TLS grants, since it keeps the ack apart from the data.  (A    *)
(* connection without TLS is mapped to a pipe that is not used.)            *)
TLSDownIsPipe == TLSDownDirection!Spec

(* What is missing without TLS is only the start: as many pieces as the     *)
(* read of the ack may have taken with it.  From there on the client gets   *)
(* everything in order, and nothing else.                                   *)
Missed == IF tls THEN {0} ELSE 0 .. ReadBuf - 1
DownSkipsOnlyStart ==
  \E m \in Missed : client.rcvd \in Prefixes(Drop(server.sent, m))

(* The end of the stream never overtakes data: unless a connection was      *)
(* reset or a proxy died, a client that sees the end has seen everything    *)
(* the server sent (after what is missing).                                 *)
EndAfterData ==
  client.eof /\ ~reset => \E m \in Missed : client.rcvd = Drop(server.sent, m)

(* The two proxies never wait for each other forever before they copy.      *)
HandshakeEnds == <>(pc.I \in {"copy", "done"})

(* A connection whose destination is the proxy itself does not go round:    *)
(* the external handler refuses it and everything is closed.                *)
LoopbackRefused ==
  target = "self" => <>(pc.I = "done" /\ pc.E \in {"none", "done"})

(* When the server hangs up, both handlers and both goroutines end, and the *)
(* client is told.                                                          *)
ServerEndReachesClient ==
  server.st = "closed" ~>
    /\ pc = [I |-> "done", E |-> "done"]
    /\ run["Iup"] # "run" /\ run["Eup"] # "run"
    /\ client.eof \/ client.st = "closed"

(* An external handler that gives up (no usable header, loopback, dial      *)
(* failed) or dies does not leave the client hanging.                       *)
RemoteEndReachesClient ==
  pc.E = "done" ~> client.eof \/ client.st = "closed"

(* "transparently move traffic from one application to another": when the   *)
(* client hangs up, or says it will send no more, the server is told (or    *)
(* something was reset or killed on the way).                               *)
ClientEndReachesServer ==
  client.st # "open" /\ server.st = "open" ~>
    server.eof \/ server.st = "closed" \/ reset
=============================================================================
