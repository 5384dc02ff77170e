-------------------------- MODULE TunnelDownProofs --------------------------
(* Proofs about the way down through a tunnel, from the server to the       *)
(* client: it is a chain like the way up, with TLS a pipe, without TLS one  *)
(* that misses its start, and unless something is reset or killed its end   *)
(* does not overtake data.                                                  *)
EXTENDS TunnelUpProofs

(* The places from the client's end, which come after the m pieces that the *)
(* read of the ack has taken with it.  Until internalProxy has read the     *)
(* ack, it is the first thing in its channel.                               *)
Received(m, q) ==
  [i \in 1 .. m + Len(q) |-> IF i <= m THEN <<"s", i>> ELSE q[i - m]]
DownPlaces(m) ==
  <<Received(m, client.rcvd), ch["i2c"].q, InHand("Idn"),
    IF pc.I = "copy" THEN ch["e2i"].q ELSE Drop(ch["e2i"].q, 1),
    InHand("Edn"), ch["s2e"].q>>
DownWhole ==
  IF pc.I = "done" \/ ch["i2c"].dead THEN 2 ELSE IF pc.E = "done" THEN 4 ELSE 6
DownAll ==
  IF ~reset \/ (DownWhole = 6 /\ server.st # "closed") THEN "all" ELSE "some"
DownInv(m) ==
  /\ Numbered(server.sent, "s", 0)
  /\ Chain("s", DownPlaces(m), DownWhole, Len(server.sent), DownAll)

(* Without a reset, internalProxy stops only after the external handler,    *)
(* and that one only after the server.                                      *)
EndInv ==
  /\ \A c \in Channel : ch[c].rst => reset
  /\ client.eof => ch["i2c"].fin /\ ch["i2c"].q = <<>>
  /\ ~reset /\ pc.I = "done" => pc.E \in {"none", "done"}
  /\ server.st = "listen" => ch["s2e"].q = <<>>
  /\ pc.E = "done" => ch["s2e"].dead \/ server.st = "listen"
  /\ pc.E = "copy" /\ pc.I \in {"header", "ack"} => ch["e2i"].q # <<>>

(* Before the ack is read nothing has been passed on to the client.         *)
Before == pc.I \in {"dial", "header", "ack"}
NothingYet == Before => client.rcvd = <<>> /\ ch["i2c"].q = <<>>
DownOK ==
  /\ Base /\ EndInv /\ NothingYet
  /\ \E m \in Missed : (Before => m = 0) /\ DownInv(m)

-----------------------------------------------------------------------------
(* A handler that stops without a reset has nothing left to lose.           *)
NoLoss ==
  /\ reset => reset'
  /\ pc.I # "done" /\ pc'.I = "done" /\ ~reset' =>
       /\ ch["c2i"].q = <<>> /\ ch["e2i"].q = <<>> /\ hold["Idn"] = Nothing
       /\ pc.E \in {"none", "done"}
  /\ pc.E # "done" /\ pc'.E = "done" /\ ~reset' =>
       /\ ch["s2e"].q = <<>> /\ hold["Edn"] = Nothing
       /\ ch["i2e"].q = <<>> \/ ch["e2i"].q = <<>>

LEMMA ResetStays ==
  ASSUME [Next]_vars, reset
  PROVE  reset'
<1>1. CASE InternalDial \/ ReadHeader \/ ExternalDial
  BY <1>1, Zenon DEF InternalDial, ReadHeader, ExternalDial, Returns
<1>2. CASE WriteHeader \/ ReadAck \/ WriteAck
  BY <1>2, Zenon DEF WriteHeader, ReadAck, WriteAck
<1>3. ASSUME NEW k \in Copier, CopyRead(k) \/ CopyWrite(k)
      PROVE  reset'
  BY <1>3, Zenon DEF CopyRead, CopyWrite
<1>4. ASSUME NEW p \in {"I", "E"}, UpEnds(p) \/ DownEnds(p) \/ Kill(p)
      PROVE  reset'
  BY <1>4, Zenon DEF UpEnds, DownEnds, Kill, Returns
<1>5. CASE Applications \/ UNCHANGED vars
  BY <1>5, Zenon
     DEF Applications, ClientSend, ClientRead, ClientShutdown, ClientClose,
         ServerSend, ServerRead, ServerClose, vars
<1> QED
  BY <1>1, <1>2, <1>3, <1>4, <1>5, Zenon DEF Next, Proxies

LEMMA NothingLost ==
  ASSUME Base, EndInv, [Next]_vars
  PROVE  NoLoss
<1>1. /\ pc \in PcRec /\ HoldsOK(hold, run) /\ "i2c" \in Channel /\ "e2i" \in Channel
  BY TypeIs DEF Base, Channel
<1>reset. reset => reset'
  BY ResetStays
<1>2. CASE InternalDial
  <2>1. pc.I = "dial"
    BY <1>2 DEF InternalDial
  <2>2. pc.E = "none" /\ ch["e2i"].q = <<>> /\ run["Idn"] = "off"
    BY <2>1 DEF Base, Order, AckFirst, AckOK
  <2>3. hold["Idn"] = Nothing
    BY <1>1, <2>2 DEF HoldsOK
  <2>4. pc'.E # "done"
    BY <1>1, <1>2, <2>2 DEF InternalDial, Returns, PcRec
  <2>5. ASSUME pc'.I = "done", ~reset'
        PROVE  ch["c2i"].q = <<>>
    <3>1. Returns("I", FALSE)
      BY <1>1, <1>2, <2>5 DEF InternalDial, PcRec
    <3> QED
      BY <2>5, <3>1, BackIs DEF Returns, Unread
  <2> QED
    BY <2>1, <2>2, <2>3, <2>4, <2>5, <1>reset DEF NoLoss
<1>3. CASE WriteHeader \/ ReadAck \/ WriteAck
  <2>1. /\ pc'.I # "done" \/ pc.I = "done"
        /\ pc'.E # "done" \/ pc.E = "done"
    BY <1>1, <1>3 DEF WriteHeader, ReadAck, WriteAck, StartCopies, PcRec
  <2> QED
    BY <2>1, <1>reset DEF NoLoss
<1>4. CASE ReadHeader \/ ExternalDial
  <2>1. /\ pc.E \in {"header", "dial"} /\ pc'.I = pc.I
    <3>1. /\ pc.E \in {"header", "dial"}
          /\ pc' = [pc EXCEPT !.E = pc'.E]
      BY <1>1, <1>4 DEF ReadHeader, ExternalDial, Returns, PcRec
    <3> QED
      BY <1>1, <3>1 DEF PcRec
  <2>2. ch["e2i"].q = <<>> /\ run["Edn"] = "off" /\ server.st = "listen"
    BY <2>1 DEF Base, Order, AckFirst, AckOK
  <2>3. hold["Edn"] = Nothing /\ ch["s2e"].q = <<>>
    BY <1>1, <2>2 DEF HoldsOK, EndInv
  <2> QED
    BY <2>1, <2>2, <2>3, <1>reset DEF NoLoss
<1>5. ASSUME NEW k \in Copier, CopyRead(k) \/ CopyWrite(k)
      PROVE  NoLoss
  BY <1>5, <1>reset DEF CopyRead, CopyWrite, NoLoss
<1>6. ASSUME NEW p \in {"I", "E"}, UpEnds(p)
      PROVE  NoLoss
  BY <1>6, <1>reset DEF UpEnds, NoLoss
<1>7. ASSUME NEW p \in {"I", "E"}, Kill(p)
      PROVE  NoLoss
  BY <1>7 DEF Kill, NoLoss
<1>8. CASE DownEnds("I")
  <2>1. /\ pc'.E = pc.E
        /\ ~reset' => ch["c2i"].q = <<>>
    BY <1>1, <1>8, BackIs DEF DownEnds, Returns, Unread, PcRec
  <2>2. ASSUME ~reset'
        PROVE  AtEnd("e2i") /\ hold["Idn"] = Nothing
    <3>1. ~ch["i2c"].rst
      BY <1>1, <1>reset, <2>2 DEF EndInv
    <3>2. \/ AtEnd("e2i") /\ hold["Idn"] = Nothing
          \/ ch["i2c"].rst /\ hold["Idn"] # Nothing
      BY <1>8, RolesAre DEF DownEnds
    <3> QED
      BY <3>1, <3>2
  <2>3. ~reset' => pc.E \in {"none", "done"}
    BY <2>2 DEF AtEnd, Base, EndsInv
  <2> QED
    BY <2>1, <2>2, <2>3, <1>reset DEF NoLoss, AtEnd
<1>9. CASE DownEnds("E")
  <2>1. /\ pc'.I = pc.I
        /\ ~reset' => ch["i2e"].q = <<>>
    BY <1>1, <1>9, BackIs DEF DownEnds, Returns, Unread, PcRec
  <2>2. ASSUME ~reset'
        PROVE  AtEnd("s2e") /\ hold["Edn"] = Nothing
    <3>1. ~ch["e2i"].rst
      BY <1>1, <1>reset, <2>2 DEF EndInv
    <3>2. \/ AtEnd("s2e") /\ hold["Edn"] = Nothing
          \/ ch["e2i"].rst /\ hold["Edn"] # Nothing
      BY <1>9, RolesAre DEF DownEnds
    <3> QED
      BY <3>1, <3>2
  <2> QED
    BY <2>1, <2>2, <1>reset DEF NoLoss, AtEnd
<1>10. CASE Applications \/ UNCHANGED vars
  <2>1. pc' = pc
    BY <1>10 DEF Applications, ClientSend, ClientRead, ClientShutdown, ClientClose,
                 ServerSend, ServerRead, ServerClose, vars
  <2> QED
    BY <2>1, <1>reset DEF NoLoss
<1> QED
  BY <1>2, <1>3, <1>4, <1>5, <1>6, <1>7, <1>8, <1>9, <1>10, Zenon DEF Next, Proxies

-----------------------------------------------------------------------------
(* EndInv is kept.                                                          *)

Calm(c) ==
  /\ ch[c].q = <<>> => ch'[c].q = <<>>
  /\ ch[c].fin => ch'[c].fin
  /\ ch[c].dead => ch'[c].dead

LEMMA CalmIs ==
  ASSUME Base, Base', NEW c \in Channel,
         \/ ch'[c] = ch[c] \/ Got(c) \/ (Cut(ch, ch', c) /\ Flags(ch, ch', c))
         \/ Refused(c) \/ Shut(ch, ch', c) \/ Gone(ch, ch', c)
  PROVE  Calm(c)
<1>1. /\ ch[c].q = <<>> <=> Len(ch[c].q) = 0
      /\ ch'[c].q = <<>> <=> Len(ch'[c].q) = 0
      /\ Len(ch[c].q) \in Nat /\ Len(ch'[c].q) \in Nat
  <2>1. ch' \in [Channel -> ChanRec]
    BY DEF Base, TypeOK, ChanRec
  <2> QED
    BY <2>1, TypeIs, LenType DEF Base
<1>2. CASE ch'[c] = ch[c]
  BY <1>2 DEF Calm
<1>3. CASE Got(c)
  BY <1>1, <1>3 DEF Got, Flags, Calm
<1>4. CASE Cut(ch, ch', c) /\ Flags(ch, ch', c)
  BY <1>1, <1>4 DEF Cut, Flags, Calm
<1>5. CASE Refused(c)
  BY <1>5 DEF Refused, Calm
<1>6. CASE Shut(ch, ch', c)
  BY <1>1, <1>6 DEF Shut, Cut, Calm
<1>7. CASE Gone(ch, ch', c)
  BY <1>7 DEF Gone, Calm
<1> QED
  BY <1>2, <1>3, <1>4, <1>5, <1>6, <1>7

(* A write sets rst only with reset.                                        *)
LEMMA WriteResets ==
  ASSUME NEW out \in Channel, NEW v,
         \/ Put(out, v) /\ Others(ch, ch', {out})
         \/ Refused(out) /\ Others(ch, ch', {out, Back[out]}),
         reset' = (reset \/ ch[out].dead)
  PROVE  /\ \A c \in Channel : ch'[c].rst => ch[c].rst \/ reset'
         /\ Refused(out) => reset'
<1>1. Refused(out) => reset'
  BY Zenon DEF Refused
<1>2. CASE Put(out, v) /\ Others(ch, ch', {out})
  BY <1>1, <1>2 DEF Put, Flags, Others
<1>3. CASE Refused(out)
  BY <1>1, <1>3
<1> QED
  BY <1>1, <1>2, <1>3

LEMMA EndKeeps ==
  ASSUME Base, Base', EndInv, reset => reset',
         \A c \in Channel : ch'[c].rst => ch[c].rst \/ reset',
         client'.eof => client.eof \/ AtEnd("i2c"),
         client.eof \/ AtEnd("i2c") => Calm("i2c"),
         server.st = "listen" \/ pc.E = "done" => Calm("s2e"),
         server'.st = "listen" <=> server.st = "listen",
         pc' = pc,
         pc.E = "copy" /\ pc.I \in {"header", "ack"} => ch'["e2i"].q # <<>>
  PROVE  EndInv'
<1>1. \A c \in Channel : ch'[c].rst => reset'
  BY DEF EndInv
<1>2. client'.eof => ch'["i2c"].fin /\ ch'["i2c"].q = <<>>
  BY DEF EndInv, AtEnd, Calm
<1>3. ~reset' /\ pc'.I = "done" => pc'.E \in {"none", "done"}
  BY DEF EndInv
<1>4. /\ server'.st = "listen" => ch'["s2e"].q = <<>>
      /\ pc'.E = "done" => ch'["s2e"].dead \/ server'.st = "listen"
  BY DEF EndInv, Calm
<1> QED
  BY <1>1, <1>2, <1>3, <1>4 DEF EndInv

LEMMA EndHandshake ==
  ASSUME Base, Base', EndInv, reset => reset',
         \/ Dialled \/ WriteHeader \/ ReadAck \/ HeaderRead \/ ServerDialled
         \/ WriteAck \/ UNCHANGED vars
  PROVE  EndInv'
<1>1. /\ "c2i" \in Channel /\ "i2c" \in Channel /\ "i2e" \in Channel
      /\ "e2i" \in Channel /\ "e2s" \in Channel /\ "s2e" \in Channel
      /\ Header \in Piece /\ Ack \in Piece /\ TypeOK
      /\ ch \in [Channel -> ChanRec] /\ pc \in PcRec
  BY TypeIs DEF Channel, Piece, Base
<1>2. CASE UNCHANGED vars
  BY <1>2 DEF vars, EndInv
<1>3. CASE Dialled
  <2>1. pc'.I = "header" /\ pc'.E = "header" /\ UNCHANGED <<ch, client, server, reset>>
    BY <1>1, <1>3 DEF Dialled, PcRec
  <2> QED
    BY <2>1 DEF EndInv
<1>4. CASE WriteHeader
  <2>1. /\ pc'.I = "ack" /\ pc'.E = pc.E /\ pc.E \in {"header", "done"}
        /\ UNCHANGED <<client, server>>
        /\ ch' \in Writes("i2e", Header) /\ reset' = (reset \/ ch["i2e"].dead)
    BY <1>1, <1>4 DEF WriteHeader, PcRec, Base, Order
  <2>2. \/ Put("i2e", Header) /\ Others(ch, ch', {"i2e"})
        \/ Refused("i2e") /\ Others(ch, ch', {"i2e", "e2i"})
    BY <1>1, <2>1, WritesEffect, BackIs
  <2>3. \A c \in Channel : ch'[c].rst => ch[c].rst \/ reset'
    BY <1>1, <2>1, <2>2, WriteResets, BackIs
  <2>4. ch'["i2c"] = ch["i2c"] /\ ch'["s2e"] = ch["s2e"]
    BY <1>1, <2>2 DEF Others
  <2> QED
    BY <2>1, <2>3, <2>4 DEF EndInv
<1>5. CASE ReadAck
  <2>1. /\ pc'.I = "copy" /\ pc'.E = pc.E /\ UNCHANGED <<client, server, reset>>
    BY <1>1, <1>5 DEF ReadAck, StartCopies, PcRec
  <2>2. /\ ch'["i2c"] = ch["i2c"] /\ ch'["s2e"] = ch["s2e"]
        /\ \A c \in Channel : ch'[c].rst = ch[c].rst
    <3>1. CASE UNCHANGED ch
      BY <3>1
    <3>2. ASSUME ch["e2i"].q # <<>>, NEW n \in ReadSizes(ch["e2i"].q),
                 ch' = [ch EXCEPT !["e2i"].q = Drop(@, n)]
          PROVE  /\ ch'["i2c"] = ch["i2c"] /\ ch'["s2e"] = ch["s2e"]
                 /\ \A c \in Channel : ch'[c].rst = ch[c].rst
      <4>1. Flags(ch, ch', "e2i") /\ Others(ch, ch', {"e2i"})
        BY <1>1, <3>2, DropEffect
      <4> QED
        BY <1>1, <4>1 DEF Flags, Others
    <3> QED
      BY <1>5, <3>1, <3>2 DEF ReadAck
  <2> QED
    BY <2>1, <2>2 DEF EndInv
<1>6. CASE HeaderRead
  <2>1. PICK n \in ReadSizes(ch["i2e"].q) : ch' = [ch EXCEPT !["i2e"].q = Drop(@, n)]
    BY <1>6 DEF HeaderRead
  <2>2. Flags(ch, ch', "i2e") /\ Others(ch, ch', {"i2e"})
    BY <1>1, <1>6, <2>1, DropEffect DEF HeaderRead
  <2>3. /\ ch'["i2c"] = ch["i2c"] /\ ch'["s2e"] = ch["s2e"]
        /\ \A c \in Channel : ch'[c].rst = ch[c].rst
    BY <1>1, <2>2 DEF Flags, Others
  <2>4. /\ pc.E = "header" /\ pc'.E = "dial" /\ pc'.I = pc.I
        /\ UNCHANGED <<client, server, reset>>
    BY <1>1, <1>6 DEF HeaderRead, PcRec
  <2>5. ~reset' /\ pc'.I = "done" => FALSE
    BY <2>4 DEF EndInv
  <2> QED
    BY <2>3, <2>4, <2>5 DEF EndInv
<1>7. CASE ServerDialled
  <2>1. /\ pc.E = "dial" /\ pc'.E = "ack" /\ pc'.I = pc.I
        /\ UNCHANGED <<ch, client, reset>>
    BY <1>1, <1>7 DEF ServerDialled, PcRec
  <2>2. server'.st = "open"
    BY <1>1, <1>7, TypeIs DEF ServerDialled, ServerRec
  <2>3. ~reset' /\ pc'.I = "done" => FALSE
    BY <2>1 DEF EndInv
  <2> QED
    BY <2>1, <2>2, <2>3 DEF EndInv
<1>8. CASE WriteAck
  <2>1. /\ pc.E = "ack" /\ pc'.E = "copy" /\ pc'.I = pc.I
        /\ UNCHANGED <<client, server>>
        /\ ch' \in Writes("e2i", Ack) /\ reset' = (reset \/ ch["e2i"].dead)
    BY <1>1, <1>8 DEF WriteAck, StartCopies, PcRec
  <2>2. \/ Put("e2i", Ack) /\ Others(ch, ch', {"e2i"})
        \/ Refused("e2i") /\ Others(ch, ch', {"e2i", "i2e"})
    BY <1>1, <2>1, WritesEffect, BackIs
  <2>3. \A c \in Channel : ch'[c].rst => ch[c].rst \/ reset'
    BY <1>1, <2>1, <2>2, WriteResets, BackIs
  <2>4. ch'["i2c"] = ch["i2c"] /\ ch'["s2e"] = ch["s2e"]
    BY <1>1, <2>2 DEF Others
  <2>5. ~reset' /\ pc'.I = "done" => FALSE
    BY <2>1 DEF EndInv
  <2>6. pc'.I \in {"header", "ack"} => ch'["e2i"].q # <<>>
    <3>1. CASE Put("e2i", Ack)
      <4>1. Len(ch'["e2i"].q) = Len(ch["e2i"].q) + 1 /\ Len(ch["e2i"].q) \in Nat
        BY <1>1, <3>1, TypeIs DEF Put
      <4>2. Len(<<>>) = 0
        OBVIOUS
      <4> QED
        BY <4>1, <4>2
    <3>2. CASE Refused("e2i")
      BY <2>1, <3>2 DEF Refused, Base, EndsInv
    <3> QED
      BY <2>2, <3>1, <3>2
  <2> QED
    BY <2>1, <2>3, <2>4, <2>5, <2>6 DEF EndInv
<1> QED
  BY <1>2, <1>3, <1>4, <1>5, <1>6, <1>7, <1>8

LEMMA EndCopies ==
  ASSUME Base, Base', EndInv, reset => reset',
         NEW k \in Copier, CopyRead(k) \/ CopyWrite(k)
  PROVE  EndInv'
<1>1. /\ "c2i" \in Channel /\ "i2c" \in Channel /\ "i2e" \in Channel
      /\ "e2i" \in Channel /\ "e2s" \in Channel /\ "s2e" \in Channel
      /\ From[k] \in Channel /\ To[k] \in Channel
      /\ pc[Side[k]] = "copy" /\ UNCHANGED <<pc, client, server>>
  BY RolesAre DEF Channel, Copier, CopyRead, CopyWrite
<1>2. CASE CopyRead(k)
  <2>1. Got(From[k]) /\ Others(ch, ch', {From[k]}) /\ From[k] \in {"c2i", "e2i", "i2e", "s2e"}
    BY <1>2, CopyReadBase, RolesAre DEF Copier
  <2>2. \A c \in Channel : ch'[c].rst = ch[c].rst
    BY <2>1 DEF Got, Flags, Others
  <2>3. Calm("i2c") /\ Calm("s2e")
    BY <1>1, <2>1, CalmIs DEF Others
  <2>4. pc.E = "copy" /\ pc.I \in {"header", "ack"} => ch'["e2i"].q # <<>>
    <3>1. CASE k = "Idn"
      BY <1>1, <3>1, RolesAre
    <3>2. CASE k # "Idn"
      <4>1. ch'["e2i"] = ch["e2i"]
        BY <1>1, <2>1, <3>2, RolesAre DEF Others, Copier
      <4> QED
        BY <4>1 DEF EndInv
    <3> QED
      BY <3>1, <3>2
  <2> QED
    BY <1>1, <2>2, <2>3, <2>4, EndKeeps
<1>3. CASE CopyWrite(k)
  <2>1. /\ \/ Put(To[k], hold[k]) /\ Others(ch, ch', {To[k]})
           \/ Refused(To[k]) /\ Others(ch, ch', {To[k], Back[To[k]]})
        /\ reset' = (reset \/ ch[To[k]].dead)
    BY <1>3, CopyWriteBase DEF CopyWrite
  <2>2. \A c \in Channel : ch'[c].rst => ch[c].rst \/ reset'
    BY <1>1, <2>1, WriteResets
  <2>3. CASE k = "Iup"
    <3>1. /\ \/ Others(ch, ch', {"i2e"})
             \/ ch["i2e"].dead /\ Others(ch, ch', {"i2e", "e2i"})
      BY <2>1, <2>3, RolesAre, BackIs DEF Refused
    <3>2. ch'["i2c"] = ch["i2c"] /\ ch'["s2e"] = ch["s2e"]
      BY <1>1, <3>1 DEF Others
    <3>3. pc.I = "copy"
      BY <1>1, <2>3, RolesAre
    <3> QED
      BY <1>1, <2>2, <3>2, <3>3, CalmIs, EndKeeps
  <2>4. CASE k = "Idn"
    <3>1. /\ \/ Others(ch, ch', {"i2c"})
             \/ Refused("i2c") /\ Others(ch, ch', {"i2c", "c2i"})
      BY <2>1, <2>4, RolesAre, BackIs
    <3>2. ch'["s2e"] = ch["s2e"]
      BY <1>1, <3>1 DEF Others
    <3>3. pc.I = "copy"
      BY <1>1, <2>4, RolesAre
    <3>4. ~client.eof /\ ~AtEnd("i2c")
      BY <3>3 DEF EndInv, AtEnd, Base, EndsInv
    <3> QED
      BY <1>1, <2>2, <3>2, <3>3, <3>4, CalmIs, EndKeeps
  <2>5. CASE k = "Eup"
    <3>1. /\ \/ Others(ch, ch', {"e2s"})
             \/ Refused("e2s") /\ Others(ch, ch', {"e2s", "s2e"})
      BY <2>1, <2>5, RolesAre, BackIs
    <3>2. ch'["i2c"] = ch["i2c"] /\ ch'["e2i"] = ch["e2i"]
      BY <1>1, <3>1 DEF Others
    <3>3. Calm("s2e")
      <4>1. ch'["s2e"] = ch["s2e"] \/ (Cut(ch, ch', "s2e") /\ Flags(ch, ch', "s2e"))
        BY <1>1, <3>1, BackIs DEF Others, Refused
      <4> QED
        BY <1>1, <4>1, CalmIs
    <3>4. pc.E = "copy" /\ pc.I \in {"header", "ack"} => ch'["e2i"].q # <<>>
      BY <3>2 DEF EndInv
    <3> QED
      BY <1>1, <2>2, <3>2, <3>3, <3>4, CalmIs, EndKeeps
  <2>6. CASE k = "Edn"
    <3>1. /\ \/ Put("e2i", hold[k]) /\ Others(ch, ch', {"e2i"})
             \/ Refused("e2i") /\ Others(ch, ch', {"e2i", "i2e"})
      BY <2>1, <2>6, RolesAre, BackIs
    <3>2. ch'["i2c"] = ch["i2c"] /\ ch'["s2e"] = ch["s2e"]
      BY <1>1, <3>1 DEF Others
    <3>3. pc.I \in {"header", "ack"} => ch'["e2i"].q # <<>>
      <4>1. CASE Put("e2i", hold[k])
        <5>1. Len(ch'["e2i"].q) = Len(ch["e2i"].q) + 1 /\ Len(ch["e2i"].q) \in Nat
          BY <1>1, <4>1, TypeIs DEF Base, Put
        <5>2. Len(<<>>) = 0
          OBVIOUS
        <5> QED
          BY <5>1, <5>2
      <4>2. CASE Refused("e2i")
        BY <4>2 DEF Refused, Base, EndsInv
      <4> QED
        BY <3>1, <4>1, <4>2
    <3> QED
      BY <1>1, <2>2, <3>2, <3>3, CalmIs, EndKeeps
  <2> QED
    BY <2>3, <2>4, <2>5, <2>6 DEF Copier
<1> QED
  BY <1>2, <1>3

LEMMA EndStops ==
  ASSUME Base, Base', EndInv, NoLoss, StopsI \/ StopsE
  PROVE  EndInv'
<1>1. /\ "c2i" \in Channel /\ "i2c" \in Channel /\ "i2e" \in Channel
      /\ "e2i" \in Channel /\ "e2s" \in Channel /\ "s2e" \in Channel
      /\ pc \in PcRec /\ UNCHANGED <<client, server>> /\ (reset => reset')
  BY TypeIs DEF Base, Channel, StopsI, StopsE, Stopped, NoLoss
<1>2. \A c \in Channel :
        ch'[c] = ch[c] \/ Shut(ch, ch', c) \/ Gone(ch, ch', c)
  BY DEF StopsI, StopsE, Channel
<1>3. \A c \in Channel : Calm(c)
  BY <1>2, CalmIs
<1>4. \A c \in Channel : ch'[c].rst => reset'
  BY <1>1, <1>2 DEF Shut, Gone, EndInv
<1>5. client'.eof => ch'["i2c"].fin /\ ch'["i2c"].q = <<>>
  BY <1>1, <1>3 DEF EndInv, Calm
<1>6. server'.st = "listen" => ch'["s2e"].q = <<>>
  BY <1>1, <1>3 DEF EndInv, Calm
<1>7. CASE StopsI
  <2>1. pc.I # "done" /\ pc'.I = "done" /\ pc'.E = pc.E /\ ch'["s2e"] = ch["s2e"]
    BY <1>1, <1>7 DEF StopsI, PcRec
  <2>2. ~reset' => pc'.E \in {"none", "done"}
    BY <2>1 DEF NoLoss
  <2>3. pc'.E = "done" => ch'["s2e"].dead \/ server'.st = "listen"
    BY <1>1, <2>1 DEF EndInv
  <2> QED
    BY <1>4, <1>5, <1>6, <2>1, <2>2, <2>3 DEF EndInv
<1>8. CASE StopsE
  <2>1. pc'.E = "done" /\ pc'.I = pc.I
    BY <1>1, <1>8 DEF StopsE, PcRec
  <2>2. ch'["s2e"].dead \/ server'.st = "listen"
    <3>1. CASE pc.E \in {"header", "dial"}
      BY <1>1, <3>1 DEF Base, Order
    <3>2. CASE Gone(ch, ch', "s2e")
      BY <3>2 DEF Gone
    <3> QED
      BY <1>8, <3>1, <3>2 DEF StopsE
  <2> QED
    BY <1>4, <1>5, <1>6, <2>1, <2>2 DEF EndInv
<1> QED
  BY <1>7, <1>8

LEMMA EndClient ==
  ASSUME Base, Base', EndInv, reset => reset',
         ClientSend \/ ClientRead \/ ClientShutdown \/ ClientClose
  PROVE  EndInv'
<1>1. /\ "c2i" \in Channel /\ "i2c" \in Channel /\ "i2e" \in Channel
      /\ "e2i" \in Channel /\ "e2s" \in Channel /\ "s2e" \in Channel
      /\ UNCHANGED <<pc, server>>
  BY DEF Channel, ClientSend, ClientRead, ClientShutdown, ClientClose
<1>2. /\ Calm("i2c") /\ ch'["s2e"] = ch["s2e"] /\ ch'["e2i"] = ch["e2i"]
      /\ \A c \in Channel : ch'[c].rst => ch[c].rst \/ reset'
      /\ client'.eof => client.eof \/ AtEnd("i2c")
  <2>1. CASE ClientSend
    <3> DEFINE v == <<"c", Len(client.sent) + 1>>
    <3>1. /\ \/ Put("c2i", v) /\ Others(ch, ch', {"c2i"})
             \/ Refused("c2i") /\ Others(ch, ch', {"c2i", Back["c2i"]})
          /\ reset' = (reset \/ ch["c2i"].dead) /\ client'.eof = client.eof
      BY <2>1, ClientSendBase DEF ClientSend
    <3> HIDE DEF v
    <3>2. \A c \in Channel : ch'[c].rst => ch[c].rst \/ reset'
      BY <1>1, <3>1, WriteResets
    <3>3. ch'["s2e"] = ch["s2e"] /\ ch'["e2i"] = ch["e2i"]
      BY <1>1, <3>1, BackIs DEF Others
    <3>4. ch'["i2c"] = ch["i2c"] \/ (Cut(ch, ch', "i2c") /\ Flags(ch, ch', "i2c"))
      BY <1>1, <3>1, BackIs DEF Others, Refused
    <3> QED
      BY <1>1, <3>1, <3>2, <3>3, <3>4, CalmIs
  <2>2. CASE ClientRead
    <3>1. CASE /\ Got("i2c") /\ Others(ch, ch', {"i2c"}) /\ client'.eof = client.eof
      <4>1. \A c \in Channel : ch'[c].rst = ch[c].rst
        BY <3>1 DEF Got, Flags, Others
      <4>2. ch'["s2e"] = ch["s2e"] /\ ch'["e2i"] = ch["e2i"]
        BY <1>1, <3>1 DEF Others
      <4> QED
        BY <1>1, <3>1, <4>1, <4>2, CalmIs
    <3>2. CASE UNCHANGED ch /\ AtEnd("i2c")
      BY <1>1, <3>2, CalmIs
    <3> QED
      BY <2>2, <3>1, <3>2, ClientReadBase
  <2>3. CASE ClientShutdown
    BY <1>1, <2>3, ClientShutdownBase, CalmIs
  <2>4. CASE ClientClose
    <3>1. /\ Shut(ch, ch', "c2i") /\ Gone(ch, ch', "i2c")
          /\ Others(ch, ch', {"c2i", "i2c"}) /\ client'.eof = client.eof
      BY <2>4, ClientCloseBase
    <3>2. \A c \in Channel : ch'[c].rst = ch[c].rst
      BY <3>1 DEF Shut, Gone, Others
    <3>3. ch'["s2e"] = ch["s2e"] /\ ch'["e2i"] = ch["e2i"]
      BY <1>1, <3>1 DEF Others
    <3> QED
      BY <1>1, <3>1, <3>2, <3>3, CalmIs
  <2> QED
    BY <2>1, <2>2, <2>3, <2>4
<1>3. pc.E = "copy" /\ pc.I \in {"header", "ack"} => ch'["e2i"].q # <<>>
  BY <1>2 DEF EndInv
<1> QED
  BY <1>1, <1>2, <1>3, CalmIs, EndKeeps

LEMMA EndServer ==
  ASSUME Base, Base', EndInv, reset => reset', ServerSend \/ ServerRead \/ ServerClose
  PROVE  EndInv'
<1>1. /\ "c2i" \in Channel /\ "i2c" \in Channel /\ "i2e" \in Channel
      /\ "e2i" \in Channel /\ "e2s" \in Channel /\ "s2e" \in Channel
      /\ UNCHANGED <<pc, client>> /\ server.st = "open"
  BY DEF Channel, ServerSend, ServerRead, ServerClose
<1>2. /\ pc.E = "done" => Calm("s2e")
      /\ ch'["i2c"] = ch["i2c"] /\ ch'["e2i"] = ch["e2i"]
      /\ \A c \in Channel : ch'[c].rst => ch[c].rst \/ reset'
      /\ server'.st # "listen"
  <2>1. CASE ServerSend
    <3> DEFINE v == <<"s", Len(server.sent) + 1>>
    <3>1. /\ \/ Put("s2e", v) /\ Others(ch, ch', {"s2e"})
             \/ Refused("s2e") /\ Others(ch, ch', {"s2e", Back["s2e"]})
          /\ reset' = (reset \/ ch["s2e"].dead) /\ server'.st = server.st
      BY <2>1, ServerSendBase DEF ServerSend
    <3> HIDE DEF v
    <3>2. \A c \in Channel : ch'[c].rst => ch[c].rst \/ reset'
      BY <1>1, <3>1, WriteResets
    <3>3. ch'["i2c"] = ch["i2c"] /\ ch'["e2i"] = ch["e2i"]
      BY <1>1, <3>1, BackIs DEF Others
    <3>4. pc.E = "done" => Refused("s2e")
      BY <1>1, <3>1 DEF Put, EndInv
    <3> QED
      BY <1>1, <3>1, <3>2, <3>3, <3>4, CalmIs
  <2>2. CASE ServerRead
    <3>1. /\ server'.st = server.st
          /\ (Got("e2s") /\ Others(ch, ch', {"e2s"})) \/ UNCHANGED ch
      BY <2>2, ServerReadBase
    <3>2. \A c \in Channel : ch'[c].rst = ch[c].rst
      BY <3>1 DEF Got, Flags, Others
    <3>3. ch'["i2c"] = ch["i2c"] /\ ch'["e2i"] = ch["e2i"] /\ ch'["s2e"] = ch["s2e"]
      BY <1>1, <3>1 DEF Others
    <3> QED
      BY <1>1, <3>1, <3>2, <3>3, CalmIs
  <2>3. CASE ServerClose
    <3>1. /\ Shut(ch, ch', "s2e") /\ Gone(ch, ch', "e2s")
          /\ Others(ch, ch', {"s2e", "e2s"}) /\ server'.st = "closed"
      BY <2>3, ServerCloseBase
    <3>2. \A c \in Channel : ch'[c].rst = ch[c].rst
      BY <3>1 DEF Shut, Gone, Others
    <3>3. ch'["i2c"] = ch["i2c"] /\ ch'["e2i"] = ch["e2i"]
      BY <1>1, <3>1 DEF Others
    <3> QED
      BY <1>1, <3>1, <3>2, <3>3, CalmIs
  <2> QED
    BY <2>1, <2>2, <2>3
<1>3. pc.E = "copy" /\ pc.I \in {"header", "ack"} => ch'["e2i"].q # <<>>
  BY <1>2 DEF EndInv
<1> QED
  BY <1>1, <1>2, <1>3, CalmIs, EndKeeps

LEMMA EndStep ==
  ASSUME Base, Base', EndInv, NoLoss, Steps
  PROVE  EndInv'
<1>1. reset => reset'
  BY DEF NoLoss
<1>2. CASE \/ Dialled \/ WriteHeader \/ ReadAck \/ HeaderRead \/ ServerDialled
           \/ WriteAck \/ UNCHANGED vars
  BY <1>1, <1>2, EndHandshake
<1>3. ASSUME NEW k \in Copier, CopyRead(k) \/ CopyWrite(k)
      PROVE  EndInv'
  BY <1>1, <1>3, EndCopies
<1>4. ASSUME NEW p \in {"I", "E"}, UpEnds(p)
      PROVE  EndInv'
  BY <1>4 DEF UpEnds, EndInv
<1>5. CASE StopsI \/ StopsE
  BY <1>5, EndStops
<1>6. CASE ClientSend \/ ClientRead \/ ClientShutdown \/ ClientClose
  BY <1>1, <1>6, EndClient
<1>7. CASE ServerSend \/ ServerRead \/ ServerClose
  BY <1>1, <1>7, EndServer
<1> QED
  BY <1>2, <1>3, <1>4, <1>5, <1>6, <1>7 DEF Steps

LEMMA EndInit ==
  ASSUME Init
  PROVE  EndInv
<1>1. /\ \A c \in Channel : ch[c].q = <<>> /\ ch[c].rst = FALSE
      /\ client.eof = FALSE /\ pc.I = "dial" /\ pc.E = "none"
  BY DEF Init
<1> QED
  BY <1>1 DEF EndInv, Channel

-----------------------------------------------------------------------------
(* The places one by one.                                                   *)

(* d is q without its first piece.                                          *)
Rest(q, d) ==
  /\ Len(d) = IF Len(q) = 0 THEN 0 ELSE Len(q) - 1
  /\ \A i \in 1 .. Len(q) - 1 : d[i] = q[i + 1]

LEMMA DropIs ==
  ASSUME NEW S, NEW q \in Seq(S)
  PROVE  Rest(q, Drop(q, 1))
<1>1. \A i \in 2 .. Len(q) : q[i] \in S
  OBVIOUS
<1> QED
  BY <1>1 DEF Drop, Rest

LEMMA RestCut ==
  ASSUME NEW q, NEW d, NEW r, NEW e, Rest(q, d), Rest(r, e),
         Len(q) \in Nat, Len(r) \in Nat, Prefix(q, r)
  PROVE  Prefix(d, e)
<1>1. Len(e) <= Len(d)
  BY DEF Rest, Prefix
<1>2. ASSUME NEW i \in 1 .. Len(e) PROVE e[i] = d[i]
  <2>1. i \in 1 .. Len(r) - 1 /\ i \in 1 .. Len(q) - 1 /\ i + 1 \in 1 .. Len(r)
    BY DEF Rest, Prefix
  <2> QED
    BY <2>1 DEF Rest, Prefix
<1> QED
  BY <1>1, <1>2 DEF Prefix

LEMMA RestAdded ==
  ASSUME NEW q, NEW d, NEW r, NEW e, NEW v, Rest(q, d), Rest(r, e),
         Len(q) \in Nat, Len(q) > 0, Added(q, r, v)
  PROVE  Added(d, e, v)
<1>1. Len(r) = Len(q) + 1 /\ Len(d) = Len(q) - 1 /\ Len(e) = Len(q)
  BY DEF Rest, Added
<1>2. ASSUME NEW i \in 1 .. Len(q) - 1 PROVE e[i] = d[i]
  <2>1. i \in 1 .. Len(r) - 1 /\ i + 1 \in 1 .. Len(q)
    BY <1>1
  <2> QED
    BY <2>1 DEF Rest, Added
<1>3. e[Len(q)] = v
  <2>1. Len(q) \in 1 .. Len(r) - 1
    BY <1>1
  <2> QED
    BY <2>1 DEF Rest, Added
<1> QED
  BY <1>1, <1>2, <1>3 DEF Added

LEMMA ReceivedIs ==
  ASSUME NEW m \in Nat, NEW q \in Seq(ServerData)
  PROVE  /\ Len(Received(m, q)) = m + Len(q) /\ Len(Received(m, q)) \in Nat
         /\ \A i \in 1 .. m : Received(m, q)[i] = <<"s", i>>
         /\ \A i \in 1 .. Len(q) : Received(m, q)[m + i] = q[i]
<1>1. Len(q) \in Nat
  OBVIOUS
<1>2. m + Len(q) \in Nat
  BY <1>1
<1>3. Len(Received(m, q)) = m + Len(q)
  BY <1>2 DEF Received
<1>4. \A i \in 1 .. m : Received(m, q)[i] = <<"s", i>>
  BY <1>1 DEF Received
<1>5. \A i \in 1 .. Len(q) : Received(m, q)[m + i] = q[i]
  BY <1>1 DEF Received
<1> QED
  BY <1>2, <1>3, <1>4, <1>5

LEMMA ReceivedMore ==
  ASSUME NEW m \in Nat, NEW q \in Seq(ServerData), NEW v \in ServerData
  PROVE  Added(Received(m, q), Received(m, Append(q, v)), v)
<1> DEFINE r == Append(q, v)
<1>1. /\ r \in Seq(ServerData) /\ Len(q) \in Nat /\ Len(r) = Len(q) + 1
      /\ \A i \in 1 .. Len(q) : r[i] = q[i]
      /\ r[Len(q) + 1] = v
  OBVIOUS
<1> HIDE DEF r
<1>2. /\ Len(Received(m, q)) = m + Len(q)
      /\ Len(Received(m, r)) = m + Len(r)
  BY <1>1, ReceivedIs
<1>3. ASSUME NEW i \in 1 .. m + Len(q)
      PROVE  Received(m, r)[i] = Received(m, q)[i]
  BY <1>1 DEF Received
<1>4. Received(m, r)[m + Len(q) + 1] = v
  BY <1>1 DEF Received
<1> QED
  BY <1>1, <1>2, <1>3, <1>4 DEF Added, r

LEMMA DownPlacesAre ==
  ASSUME NEW m \in Nat
  PROVE
    /\ DownPlaces(m)[1] = Received(m, client.rcvd)
    /\ DownPlaces(m)[2] = ch["i2c"].q /\ DownPlaces(m)[3] = InHand("Idn")
    /\ DownPlaces(m)[4] = IF pc.I = "copy" THEN ch["e2i"].q ELSE Drop(ch["e2i"].q, 1)
    /\ DownPlaces(m)[5] = InHand("Edn") /\ DownPlaces(m)[6] = ch["s2e"].q
    /\ DownPlaces(m)'[1] = Received(m, client'.rcvd)
    /\ DownPlaces(m)'[2] = ch'["i2c"].q /\ DownPlaces(m)'[3] = InHand("Idn")'
    /\ DownPlaces(m)'[4] =
          IF pc'.I = "copy" THEN ch'["e2i"].q ELSE Drop(ch'["e2i"].q, 1)
    /\ DownPlaces(m)'[5] = InHand("Edn")' /\ DownPlaces(m)'[6] = ch'["s2e"].q
  BY DEF DownPlaces

LEMMA DropAck ==
  ASSUME Base, Base'
  PROVE  LET q == ch["e2i"].q
             r == ch'["e2i"].q
         IN  /\ Len(q) \in Nat /\ Len(r) \in Nat
             /\ Rest(q, Drop(q, 1)) /\ Rest(r, Drop(r, 1))
             /\ Len(Drop(q, 1)) \in Nat /\ Len(Drop(r, 1)) \in Nat
             /\ q = <<>> <=> Len(q) = 0
             /\ r = <<>> <=> Len(r) = 0
<1>1. ch \in [Channel -> ChanRec] /\ ch' \in [Channel -> ChanRec] /\ "e2i" \in Channel
  BY TypeIs DEF Base, TypeOK, ChanRec, Channel
<1>2. ch["e2i"].q \in Seq(Piece) /\ ch'["e2i"].q \in Seq(Piece)
  BY <1>1 DEF ChanRec
<1>3. /\ Len(ch["e2i"].q) \in Nat /\ Len(ch'["e2i"].q) \in Nat
      /\ ch["e2i"].q = <<>> <=> Len(ch["e2i"].q) = 0
      /\ ch'["e2i"].q = <<>> <=> Len(ch'["e2i"].q) = 0
  BY <1>1, LenType
<1>4. /\ Rest(ch["e2i"].q, Drop(ch["e2i"].q, 1))
      /\ Rest(ch'["e2i"].q, Drop(ch'["e2i"].q, 1))
  BY <1>2, DropIs
<1>5. /\ Len(Drop(ch["e2i"].q, 1)) \in Nat
      /\ Len(Drop(ch'["e2i"].q, 1)) \in Nat
  BY <1>3, <1>4 DEF Rest
<1> QED
  BY <1>3, <1>4, <1>5

LEMMA DownType ==
  ASSUME NEW m \in Nat, Base, Base'
  PROVE  /\ Sized(DownPlaces(m)) /\ Sized(DownPlaces(m)')
         /\ DownWhole \in {2, 4, 6} /\ DownWhole' \in {2, 4, 6}
         /\ Len(server.sent) \in Nat /\ Len(server'.sent) \in Nat
         /\ server.sent \in Seq(ServerData) /\ server'.sent \in Seq(ServerData)
<1>1. /\ client \in ClientRec /\ server \in ServerRec /\ ch \in [Channel -> ChanRec]
  BY TypeIs DEF Base
<1>2. /\ client' \in ClientRec /\ server' \in ServerRec /\ ch' \in [Channel -> ChanRec]
  BY DEF Base, TypeOK, ClientRec, ServerRec, ChanRec
<1>3. \A c \in Channel : Len(ch[c].q) \in Nat /\ Len(ch'[c].q) \in Nat
  BY <1>1, <1>2, LenType
<1>4. /\ server.sent \in Seq(ServerData) /\ server'.sent \in Seq(ServerData)
      /\ client.rcvd \in Seq(ServerData) /\ client'.rcvd \in Seq(ServerData)
  BY <1>1, <1>2 DEF ClientRec, ServerRec
<1>5. /\ Len(server.sent) \in Nat /\ Len(server'.sent) \in Nat
      /\ Len(client.rcvd) \in Nat /\ Len(client'.rcvd) \in Nat
  BY <1>4
<1>6. \A k \in Copier : Len(InHand(k)) \in Nat /\ Len(InHand(k)') \in Nat
  BY InHandIs
<1>rcvd. /\ Len(Received(m, client.rcvd)) \in Nat
         /\ Len(Received(m, client'.rcvd)) \in Nat
  BY <1>4, ReceivedIs
<1>drop. Len(Drop(ch["e2i"].q, 1)) \in Nat /\ Len(Drop(ch'["e2i"].q, 1)) \in Nat
  BY DropAck
<1>7. /\ Len(DownPlaces(m)[1]) \in Nat /\ Len(DownPlaces(m)[2]) \in Nat
      /\ Len(DownPlaces(m)[3]) \in Nat /\ Len(DownPlaces(m)[4]) \in Nat
      /\ Len(DownPlaces(m)[5]) \in Nat /\ Len(DownPlaces(m)[6]) \in Nat
  BY <1>3, <1>6, <1>rcvd, <1>drop, DownPlacesAre DEF Channel, Copier
<1>8. /\ Len(DownPlaces(m)'[1]) \in Nat /\ Len(DownPlaces(m)'[2]) \in Nat
      /\ Len(DownPlaces(m)'[3]) \in Nat /\ Len(DownPlaces(m)'[4]) \in Nat
      /\ Len(DownPlaces(m)'[5]) \in Nat /\ Len(DownPlaces(m)'[6]) \in Nat
  BY <1>3, <1>6, <1>rcvd, <1>drop, DownPlacesAre DEF Channel, Copier
<1>9. \A i \in 1 .. 6 : i = 1 \/ i = 2 \/ i = 3 \/ i = 4 \/ i = 5 \/ i = 6
  OBVIOUS
<1> QED
  BY <1>4, <1>5, <1>7, <1>8, <1>9 DEF Sized, DownWhole

(* Pieces on the way down are lost; without a reset, none that exist.       *)
LEMMA DownLoses ==
  ASSUME NEW m \in Nat, Base, Base', DownInv(m), DownWhole' <= DownWhole,
         client'.rcvd = client.rcvd,
         2 < DownWhole' => ch'["i2c"].q = ch["i2c"].q /\ hold'["Idn"] = hold["Idn"],
         4 < DownWhole' => DownPlaces(m)'[4] = DownPlaces(m)[4] /\ hold'["Edn"] = hold["Edn"],
         Prefix(DownPlaces(m)[DownWhole'], DownPlaces(m)'[DownWhole']),
         Len(server.sent) <= Len(server'.sent), Numbered(server'.sent, "s", 0),
         DownAll' = "all" =>
           /\ DownAll = "all" /\ server'.sent = server.sent
           /\ SameLens(DownPlaces(m), DownPlaces(m)')
  PROVE  DownInv(m)'
<1>1. /\ DownWhole' \in {2, 4, 6} /\ DownWhole \in {2, 4, 6}
      /\ "Edn" \in Copier /\ "Idn" \in Copier
      /\ Sized(DownPlaces(m)) /\ Sized(DownPlaces(m)')
      /\ Len(server.sent) \in Nat /\ Len(server'.sent) \in Nat
  BY DownType DEF Copier
<1>2. DownWhole' \in 2 .. 6 /\ DownWhole \in 2 .. 6
  BY <1>1
<1>3. /\ DownPlaces(m)'[1] = DownPlaces(m)[1]
      /\ 2 < DownWhole' =>
           DownPlaces(m)'[2] = DownPlaces(m)[2] /\ DownPlaces(m)'[3] = DownPlaces(m)[3]
      /\ 4 < DownWhole' =>
           DownPlaces(m)'[4] = DownPlaces(m)[4] /\ DownPlaces(m)'[5] = DownPlaces(m)[5]
  BY <1>1, DownPlacesAre, InHandIs
<1>4. SameUpTo(DownPlaces(m), DownPlaces(m)', DownWhole')
  <2>1. 3 < DownWhole' => 2 < DownWhole'
    BY <1>1
  <2>2. 5 < DownWhole' => 4 < DownWhole'
    BY <1>1
  <2> QED
    BY <1>2, <1>3, <2>1, <2>2, SameUpToIs
<1>5. Chain("s", DownPlaces(m), DownWhole, Len(server.sent), DownAll)
  BY DEF DownInv
<1>6. Chain("s", DownPlaces(m)', DownWhole', Len(server'.sent), DownAll')
  BY <1>1, <1>2, <1>4, <1>5, LowerChain
<1> QED
  BY <1>6 DEF DownInv

(* Nothing happens on the way down.                                         *)
LEMMA DownSame ==
  ASSUME NEW m \in Nat, Base, Base', DownInv(m), reset => reset',
         client'.rcvd = client.rcvd, server'.sent = server.sent,
         server'.st = server.st \/ (server.st # "closed" /\ server'.st # "closed"),
         ch'["i2c"].q = ch["i2c"].q, ch'["s2e"].q = ch["s2e"].q,
         ch'["i2c"].dead = ch["i2c"].dead,
         hold'["Edn"] = hold["Edn"], hold'["Idn"] = hold["Idn"],
         DownPlaces(m)'[4] = DownPlaces(m)[4],
         pc'.E = "done" <=> pc.E = "done", pc'.I = "done" <=> pc.I = "done"
  PROVE  DownInv(m)'
<1>1. /\ DownPlaces(m)'[1] = DownPlaces(m)[1] /\ DownPlaces(m)'[2] = DownPlaces(m)[2]
      /\ DownPlaces(m)'[3] = DownPlaces(m)[3] /\ DownPlaces(m)'[4] = DownPlaces(m)[4]
      /\ DownPlaces(m)'[5] = DownPlaces(m)[5] /\ DownPlaces(m)'[6] = DownPlaces(m)[6]
  BY DownPlacesAre, InHandIs DEF Copier
<1>2. DownPlaces(m)' = DownPlaces(m)
  BY <1>1 DEF DownPlaces
<1>3. DownWhole' = DownWhole
  BY DEF DownWhole
<1>4. DownAll' = "all" => DownAll = "all"
  BY <1>3 DEF DownAll
<1>5. /\ DownWhole' \in {2, 4, 6} /\ Sized(DownPlaces(m))
      /\ Len(server.sent) \in Nat
  BY DownType
<1>6. /\ SameLens(DownPlaces(m), DownPlaces(m)')
      /\ Prefix(DownPlaces(m)[DownWhole'], DownPlaces(m)'[DownWhole'])
      /\ Len(server.sent) <= Len(server'.sent) /\ Numbered(server'.sent, "s", 0)
      /\ DownWhole' <= DownWhole
  BY <1>2, <1>3, <1>5, PrefixSelf DEF Sized, SameLens, DownInv
<1> QED
  BY <1>2, <1>4, <1>6, DownLoses

(* A piece goes one place further down.                                     *)
LEMMA DownMove ==
  ASSUME NEW m \in Nat, Base, Base', DownInv(m), reset => reset',
         NEW i \in 1 .. 5, i # DownWhole,
         Taken(DownPlaces(m)[i + 1], DownPlaces(m)'[i + 1]),
         Added(DownPlaces(m)[i], DownPlaces(m)'[i], DownPlaces(m)[i + 1][1]),
         SameBut(DownPlaces(m), DownPlaces(m)', i),
         UNCHANGED <<pc, server>>, ch'["i2c"].dead = ch["i2c"].dead
  PROVE  DownInv(m)'
<1>1. /\ Sized(DownPlaces(m)) /\ Sized(DownPlaces(m)') /\ DownWhole \in 2 .. 6
      /\ Len(server.sent) \in Nat
  BY DownType
<1>2. Chain("s", DownPlaces(m), DownWhole, Len(server.sent), DownAll)
  BY DEF DownInv
<1>3. Chain("s", DownPlaces(m)', DownWhole, Len(server.sent), DownAll)
  BY <1>1, <1>2, MoveChain
<1>4. DownWhole' = DownWhole
  BY DEF DownWhole
<1>5. DownAll' = "all" => DownAll = "all"
  BY <1>4 DEF DownAll
<1>6. Chain("s", DownPlaces(m)', DownWhole, Len(server.sent), DownAll')
  BY <1>3, <1>5 DEF Chain, Linked
<1> QED
  BY <1>4, <1>6 DEF DownInv

-----------------------------------------------------------------------------
(* DownInv(m) is kept, step by step.                                           *)

LEMMA DownHandshake ==
  ASSUME NEW m \in Nat, Base, Base', DownInv(m), reset => reset',
         \/ Dialled \/ WriteHeader \/ HeaderRead \/ ServerDialled
         \/ WriteAck \/ UNCHANGED vars
  PROVE  DownInv(m)'
<1>1. /\ "c2i" \in Channel /\ "i2c" \in Channel /\ "i2e" \in Channel
      /\ "e2i" \in Channel /\ "e2s" \in Channel /\ "s2e" \in Channel
      /\ Header \in Piece /\ Ack \in Piece /\ TypeOK
      /\ ch \in [Channel -> ChanRec] /\ pc \in PcRec
  BY TypeIs DEF Channel, Piece, Base
<1>2. CASE Dialled \/ HeaderRead \/ ServerDialled \/ UNCHANGED vars
  <2>1. /\ ch'["i2c"] = ch["i2c"] /\ ch'["e2i"] = ch["e2i"] /\ ch'["s2e"] = ch["s2e"]
    <3>1. CASE Dialled \/ ServerDialled \/ UNCHANGED vars
      BY <3>1 DEF Dialled, ServerDialled, vars
    <3>2. CASE HeaderRead
      <4>1. PICK n \in ReadSizes(ch["i2e"].q) : ch' = [ch EXCEPT !["i2e"].q = Drop(@, n)]
        BY <3>2 DEF HeaderRead
      <4>2. Others(ch, ch', {"i2e"})
        BY <3>2, <4>1, ReadHeaderBase DEF HeaderRead
      <4> QED
        BY <1>1, <4>2 DEF Others
    <3> QED
      BY <1>2, <3>1, <3>2
  <2>2. /\ pc'.I = pc.I \/ (pc.I = "dial" /\ pc'.I = "header")
        /\ pc'.E = "done" <=> pc.E = "done"
    <3>1. CASE Dialled
      BY <1>1, <3>1 DEF Dialled, PcRec, Base, Order
    <3>2. CASE HeaderRead \/ ServerDialled
      BY <1>1, <3>2 DEF HeaderRead, ServerDialled, PcRec
    <3>3. CASE UNCHANGED vars
      BY <3>3 DEF vars
    <3> QED
      BY <1>2, <3>1, <3>2, <3>3
  <2>3. /\ hold' = hold /\ client' = client /\ server'.sent = server.sent
        /\ server'.st = server.st \/ (server.st # "closed" /\ server'.st # "closed")
    <3>1. CASE Dialled \/ HeaderRead \/ UNCHANGED vars
      BY <3>1 DEF Dialled, HeaderRead, vars
    <3>2. CASE ServerDialled
      <4>1. server'.sent = server.sent /\ server'.st = "open"
        BY <3>2, TypeIs DEF Base, ServerDialled, ServerRec
      <4>2. server.st = "listen"
        BY <3>2 DEF ServerDialled, Base, Order
      <4> QED
        BY <3>2, <4>1, <4>2 DEF ServerDialled
    <3> QED
      BY <1>2, <3>1, <3>2
  <2>4. DownPlaces(m)'[4] = DownPlaces(m)[4]
    BY <2>1, <2>2, DownPlacesAre
  <2> QED
    BY <2>1, <2>2, <2>3, <2>4, DownSame
<1>3. CASE WriteHeader
  <2>1. /\ pc.I = "header" /\ pc'.I = "ack" /\ pc'.E = pc.E
        /\ UNCHANGED <<hold, client, server>>
        /\ ch' \in Writes("i2e", Header) /\ reset' = (reset \/ ch["i2e"].dead)
    BY <1>1, <1>3 DEF WriteHeader, PcRec
  <2>2. \/ Put("i2e", Header) /\ Others(ch, ch', {"i2e"})
        \/ Refused("i2e") /\ Others(ch, ch', {"i2e", "e2i"})
    BY <1>1, <2>1, WritesEffect, BackIs
  <2>3. ch'["i2c"] = ch["i2c"] /\ ch'["s2e"] = ch["s2e"]
    BY <1>1, <2>2 DEF Others
  <2>4. CASE Others(ch, ch', {"i2e"})
    <3>1. DownPlaces(m)'[4] = DownPlaces(m)[4]
      BY <1>1, <2>1, <2>4, DownPlacesAre DEF Others
    <3> QED
      BY <2>1, <2>3, <3>1, DownSame
  <2>5. CASE Refused("i2e")
    <3>1. Cut(ch, ch', "e2i") /\ pc.E = "done"
      BY <2>5, BackIs DEF Refused, Base, EndsInv
    <3>2. reset'
      BY <2>1, <2>5, Zenon DEF Refused
    <3>3. DownWhole' = DownWhole /\ DownWhole \in {2, 4} /\ DownAll' # "all"
      BY <2>1, <2>3, <3>1, <3>2 DEF DownWhole, DownAll
    <3>4. Prefix(DownPlaces(m)[4], DownPlaces(m)'[4])
      <4>1. Prefix(Drop(ch["e2i"].q, 1), Drop(ch'["e2i"].q, 1))
        <5>1. Prefix(ch["e2i"].q, ch'["e2i"].q)
          BY <3>1 DEF Cut, Prefix
        <5> QED
          BY <5>1, DropAck, RestCut
      <4> QED
        BY <2>1, <4>1, DownPlacesAre
    <3>5. DownPlaces(m)'[2] = DownPlaces(m)[2]
      BY <2>3, DownPlacesAre
    <3>6. Prefix(DownPlaces(m)[DownWhole'], DownPlaces(m)'[DownWhole'])
      BY <3>3, <3>4, <3>5, DownType, PrefixSelf DEF Sized
    <3>7. DownWhole' <= DownWhole /\ Len(server.sent) <= Len(server'.sent)
      BY <2>1, <3>3, DownType
    <3> QED
      BY <2>1, <2>3, <3>3, <3>6, <3>7, DownLoses DEF DownInv
  <2> QED
    BY <2>2, <2>4, <2>5
<1>4. CASE WriteAck
  <2>1. /\ pc.E = "ack" /\ pc'.E = "copy" /\ pc'.I = pc.I /\ pc.I # "copy"
        /\ UNCHANGED <<hold, client, server>>
        /\ ch' \in Writes("e2i", Ack)
    BY <1>1, <1>4 DEF WriteAck, StartCopies, PcRec, Base, Order
  <2>2. \/ Put("e2i", Ack) /\ Others(ch, ch', {"e2i"})
        \/ Refused("e2i") /\ Others(ch, ch', {"e2i", "i2e"})
    BY <1>1, <2>1, WritesEffect, BackIs
  <2>3. ch'["i2c"] = ch["i2c"] /\ ch'["s2e"] = ch["s2e"]
    BY <1>1, <2>2 DEF Others
  <2>4. ch["e2i"].q = <<>>
    BY <2>1 DEF Base, AckFirst, AckOK
  <2>5. Drop(ch'["e2i"].q, 1) = Drop(ch["e2i"].q, 1)
    <3>1. CASE Put("e2i", Ack)
      <4>1. Len(ch'["e2i"].q) = 1
        BY <2>4, <3>1, DropAck DEF Put
      <4>2. Drop(ch'["e2i"].q, 1) = <<>> /\ Drop(<<>>, 1) = <<>>
        BY <4>1 DEF Drop
      <4> QED
        BY <2>4, <4>2
    <3>2. CASE Refused("e2i")
      BY <3>2 DEF Refused
    <3> QED
      BY <2>2, <3>1, <3>2
  <2>6. DownPlaces(m)'[4] = DownPlaces(m)[4]
    BY <2>1, <2>5, DownPlacesAre
  <2> QED
    BY <2>1, <2>3, <2>6, DownSame
<1> QED
  BY <1>2, <1>3, <1>4

(* Without TLS the read of the ack may take pieces with it.                 *)
LEMMA DownReadAck ==
  ASSUME Base, Base', DownInv(0), NothingYet, reset => reset', ReadAck
  PROVE  \E m \in Missed : DownInv(m)'
<1>1. /\ "c2i" \in Channel /\ "i2c" \in Channel /\ "i2e" \in Channel
      /\ "e2i" \in Channel /\ "e2s" \in Channel /\ "s2e" \in Channel
      /\ "Idn" \in Copier /\ "Edn" \in Copier
      /\ ch \in [Channel -> ChanRec] /\ pc \in PcRec /\ HoldsOK(hold, run)
  BY TypeIs DEF Channel, Copier, Base
<1>2. /\ pc.I = "ack" /\ pc'.I = "copy" /\ pc'.E = pc.E
      /\ UNCHANGED <<hold, client, server, reset>>
  BY <1>1 DEF ReadAck, StartCopies, PcRec
<1>3. /\ client.rcvd = <<>> /\ ch["i2c"].q = <<>> /\ hold["Idn"] = Nothing
  BY <1>1, <1>2 DEF NothingYet, Before, Base, Order, HoldsOK
<1>4. /\ DownWhole \in {2, 4, 6} /\ DownWhole' \in {2, 4, 6} /\ 0 \in Nat
      /\ Sized(DownPlaces(0)) /\ Len(server.sent) \in Nat
      /\ server.sent \in Seq(ServerData)
  BY DownType
<1>5. 0 \in Missed
  BY TunnelAssumption DEF Missed
<1>6. CASE UNCHANGED ch /\ ch["e2i"].q = <<>>
  <2>1. Drop(<<>>, 1) = <<>>
    BY DEF Drop
  <2>2. DownPlaces(0)'[4] = DownPlaces(0)[4]
    BY <1>2, <1>4, <1>6, <2>1, DownPlacesAre
  <2>3. DownInv(0)'
    BY <1>2, <1>4, <1>6, <2>2, DownSame
  <2> QED
    BY <1>5, <2>3
<1>7. ASSUME ch["e2i"].q # <<>>, NEW n \in ReadSizes(ch["e2i"].q),
             ch' = [ch EXCEPT !["e2i"].q = Drop(@, n)]
      PROVE  \E m \in Missed : DownInv(m)'
  <2> DEFINE q == ch["e2i"].q
             d == Drop(q, 1)
             j == n - 1
  <2>1. /\ n \in 1 .. Len(q) /\ (tls => n = 1)
        /\ Len(ch'["e2i"].q) = Len(q) - n
        /\ \A i \in 1 .. Len(q) - n : ch'["e2i"].q[i] = q[i + n]
        /\ Others(ch, ch', {"e2i"})
    BY <1>1, <1>7, DropEffect
  <2>2. ch'["i2c"] = ch["i2c"] /\ ch'["s2e"] = ch["s2e"]
    BY <1>1, <2>1 DEF Others
  <2>3. DownWhole' = DownWhole /\ DownAll' = DownAll
    BY <1>2, <2>2 DEF DownWhole, DownAll
  <2>4. j \in Missed /\ j \in Nat
    <3>1. ~tls => n <= ReadBuf
      BY <1>7 DEF ReadSizes
    <3>2. n \in Nat /\ n >= 1 /\ ReadBuf \in Nat
      BY <1>1, <2>1, LenType, TunnelAssumption
    <3> QED
      BY <2>1, <3>1, <3>2 DEF Missed
  <2>5. Len(q) \in Nat /\ Len(q) > 0 /\ Rest(q, d)
    BY <1>7, DropAck
  <2>6. /\ Len(d) = Len(q) - 1 /\ j <= Len(d)
        /\ Len(ch'["e2i"].q) = Len(d) - j
    BY <2>1, <2>5 DEF Rest
  <2>7. \A i \in 1 .. Len(d) - j : ch'["e2i"].q[i] = d[i + j]
    <3> SUFFICES ASSUME NEW i \in 1 .. Len(d) - j
                 PROVE  ch'["e2i"].q[i] = d[i + j]
      OBVIOUS
    <3>1. /\ i \in 1 .. Len(q) - n /\ i + j \in 1 .. Len(q) - 1
          /\ (i + j) + 1 = i + n
      BY <2>1, <2>5, <2>6
    <3> QED
      BY <2>1, <2>5, <3>1 DEF Rest
  <2> HIDE DEF d, j
  <2>8. CASE DownWhole # 2 \/ DownAll = "all"
    <3>1. Sized(DownPlaces(j)')
      BY <2>4, DownType
    <3>2. /\ DownPlaces(0)[1] = Received(0, <<>>) /\ DownPlaces(0)[2] = <<>>
          /\ DownPlaces(0)[3] = InHand("Idn") /\ InHand("Idn") = <<>>
          /\ DownPlaces(0)[4] = d
          /\ DownPlaces(0)[5] = InHand("Edn") /\ DownPlaces(0)[6] = ch["s2e"].q
      BY <1>1, <1>2, <1>3, <1>4, DownPlacesAre, InHandIs DEF d
    <3>3. /\ DownPlaces(j)'[1] = Received(j, <<>>) /\ DownPlaces(j)'[2] = <<>>
          /\ DownPlaces(j)'[3] = InHand("Idn") /\ DownPlaces(j)'[4] = ch'["e2i"].q
          /\ DownPlaces(j)'[5] = InHand("Edn") /\ DownPlaces(j)'[6] = ch["s2e"].q
      BY <1>1, <1>2, <1>3, <2>2, <2>4, DownPlacesAre, InHandIs
    <3>4. /\ <<>> \in Seq(ServerData) /\ Len(<<>>) = 0
      OBVIOUS
    <3>5. /\ Len(Received(0, <<>>)) = 0 /\ Len(Received(j, <<>>)) = j
          /\ \A i \in 1 .. j : Received(j, <<>>)[i] = <<"s", i>>
      <4>1. 0 + Len(<<>>) = 0 /\ j + Len(<<>>) = j
        BY <2>4, <3>4
      <4> QED
        BY <1>4, <2>4, <3>4, <4>1, ReceivedIs
    <3>6. Numbered(DownPlaces(j)'[1], "s", 0)
      <4>1. \A i \in 1 .. j : 0 + i = i
        BY <2>4
      <4> QED
        BY <3>3, <3>5, <4>1 DEF Numbered
    <3>7. Chain("s", DownPlaces(0), DownWhole, Len(server.sent), DownAll)
      BY DEF DownInv
    <3>8. Chain("s", DownPlaces(j)', DownWhole, Len(server.sent), DownAll)
      <4> DEFINE p == DownPlaces(0)
                 r == DownPlaces(j)'
                 s == Len(server.sent)
                 w == DownWhole
                 a == DownAll
      <4>1. /\ Sized(p) /\ Sized(r) /\ w \in {2, 4, 6} /\ s \in Nat /\ j \in Nat
            /\ Chain("s", p, w, s, a) /\ (w # 2 \/ a = "all")
        BY <1>4, <2>4, <2>8, <3>1, <3>7
      <4>2. Len(p[1]) = 0 /\ Len(p[2]) = 0 /\ Len(p[3]) = 0 /\ j <= Len(p[4])
        BY <2>6, <3>2, <3>4, <3>5
      <4>3. /\ Numbered(r[1], "s", 0) /\ Len(r[1]) = j /\ r[2] = p[2] /\ r[3] = p[3]
            /\ Len(r[4]) = Len(p[4]) - j /\ r[5] = p[5] /\ r[6] = p[6]
        BY <2>6, <3>2, <3>3, <3>5, <3>6
      <4>4. \A i \in 1 .. Len(r[4]) : r[4][i] = p[4][i + j]
        BY <2>6, <2>7, <3>2, <3>3
      <4> HIDE DEF p, r, s, w, a
      <4>5. Chain("s", r, w, s, a)
        BY <4>1, <4>2, <4>3, <4>4, SkipChain
      <4> QED
        BY <4>5 DEF r, s, w, a
    <3>9. DownInv(j)'
      BY <1>2, <2>3, <3>8 DEF DownInv
    <3> QED
      BY <2>4, <3>9
  <2>9. CASE DownWhole = 2 /\ DownAll # "all"
    <3>1. Prefix(DownPlaces(0)[DownWhole'], DownPlaces(0)'[DownWhole'])
      BY <1>4, <2>2, <2>3, <2>9, DownPlacesAre, PrefixSelf DEF Sized
    <3>2. Len(server.sent) <= Len(server'.sent) /\ DownWhole' <= DownWhole
      BY <1>2, <1>4, <2>3
    <3>3. DownInv(0)'
      BY <1>2, <1>4, <2>3, <2>9, <3>1, <3>2, DownLoses DEF DownInv
    <3> QED
      BY <1>5, <3>3
  <2> QED
    BY <2>8, <2>9
<1> QED
  BY <1>6, <1>7 DEF ReadAck, AtEnd

LEMMA DownCopyRead ==
  ASSUME NEW m \in Nat, Base, Base', DownInv(m), NEW k \in Copier, CopyRead(k)
  PROVE  DownInv(m)'
<1>1. /\ Got(From[k]) /\ Others(ch, ch', {From[k]})
      /\ hold'[k] = ch[From[k]].q[1] /\ hold[k] = Nothing
      /\ \A o \in Copier \ {k} : hold'[o] = hold[o]
      /\ pc[Side[k]] = "copy" /\ UNCHANGED <<pc, client, server, reset>>
  BY CopyReadBase DEF CopyRead
<1>2. /\ \A c \in Channel : From[k] # c => ch'[c] = ch[c]
      /\ "i2c" \in Channel /\ "e2i" \in Channel /\ "s2e" \in Channel
      /\ "Idn" \in Copier /\ "Edn" \in Copier
  BY <1>1 DEF Others, Channel, Copier
<1>3. hold'[k] # Nothing
  <2>1. From[k] \in Channel /\ 1 \in 1 .. Len(ch[From[k]].q)
    BY <1>1, TypeIs, RolesAre DEF Base, Got, Copier, Channel
  <2>2. ch[From[k]].q[1] \in Carries[From[k]]
    BY <2>1, TypeIs, QueuesAll DEF Base, Queue
  <2>3. Nothing \notin Carries[From[k]]
    BY RolesAre, CarriesAre, PiecesDiffer DEF Copier
  <2> QED
    BY <1>1, <2>2, <2>3
<1>4. CASE k \in {"Iup", "Eup"}
  <2>1. From[k] \in {"c2i", "i2e"}
    BY <1>4, RolesAre
  <2>2. /\ ch'["i2c"] = ch["i2c"] /\ ch'["e2i"] = ch["e2i"] /\ ch'["s2e"] = ch["s2e"]
        /\ hold'["Idn"] = hold["Idn"] /\ hold'["Edn"] = hold["Edn"]
    BY <1>1, <1>2, <1>4, <2>1
  <2>3. DownPlaces(m)'[4] = DownPlaces(m)[4]
    BY <1>1, <2>2, DownPlacesAre
  <2> QED
    BY <1>1, <2>2, <2>3, DownSame
<1>5. CASE k = "Edn"
  <2>1. /\ Taken(ch["s2e"].q, ch'["s2e"].q)
        /\ Added(InHand("Edn"), InHand("Edn")', ch["s2e"].q[1])
        /\ ch'["e2i"] = ch["e2i"] /\ ch'["i2c"] = ch["i2c"]
        /\ hold'["Idn"] = hold["Idn"]
    BY <1>1, <1>2, <1>3, <1>5, RolesAre, QueueMoves, HandMoves DEF Copier
  <2>2. InHand("Idn")' = InHand("Idn")
    BY <1>2, <2>1, InHandIs
  <2>3. SameBut(DownPlaces(m), DownPlaces(m)', 5)
    BY <1>1, <2>1, <2>2, DownPlacesAre, SameButIs
  <2>4. 5 # DownWhole /\ 5 \in 1 .. 5 /\ 5 + 1 = 6
    BY DEF DownWhole
  <2>5. /\ Taken(DownPlaces(m)[5 + 1], DownPlaces(m)'[5 + 1])
        /\ Added(DownPlaces(m)[5], DownPlaces(m)'[5], DownPlaces(m)[5 + 1][1])
    BY <2>1, <2>4, DownPlacesAre
  <2> QED
    BY <1>1, <2>1, <2>3, <2>4, <2>5, DownMove
<1>6. CASE k = "Idn"
  <2>1. /\ Taken(ch["e2i"].q, ch'["e2i"].q)
        /\ Added(InHand("Idn"), InHand("Idn")', ch["e2i"].q[1])
        /\ ch'["s2e"] = ch["s2e"] /\ ch'["i2c"] = ch["i2c"]
        /\ hold'["Edn"] = hold["Edn"] /\ pc.I = "copy"
    BY <1>1, <1>2, <1>3, <1>6, RolesAre, QueueMoves, HandMoves DEF Copier
  <2>2. InHand("Edn")' = InHand("Edn")
    BY <1>2, <2>1, InHandIs
  <2>3. SameBut(DownPlaces(m), DownPlaces(m)', 3)
    BY <1>1, <2>1, <2>2, DownPlacesAre, SameButIs
  <2>4. 3 # DownWhole /\ 3 \in 1 .. 5 /\ 3 + 1 = 4
    BY DEF DownWhole
  <2>5. /\ Taken(DownPlaces(m)[3 + 1], DownPlaces(m)'[3 + 1])
        /\ Added(DownPlaces(m)[3], DownPlaces(m)'[3], DownPlaces(m)[3 + 1][1])
    BY <1>1, <2>1, <2>4, DownPlacesAre
  <2> QED
    BY <1>1, <2>1, <2>3, <2>4, <2>5, DownMove
<1> QED
  BY <1>4, <1>5, <1>6 DEF Copier

LEMMA DownCopyWrite ==
  ASSUME NEW m \in Nat, Base, Base', DownInv(m), EndInv, reset => reset',
         NEW k \in Copier, CopyWrite(k)
  PROVE  DownInv(m)'
<1>1. /\ \/ Put(To[k], hold[k]) /\ Others(ch, ch', {To[k]})
         \/ Refused(To[k]) /\ Others(ch, ch', {To[k], Back[To[k]]})
      /\ hold[k] # Nothing /\ hold'[k] = Nothing
      /\ \A o \in Copier \ {k} : hold'[o] = hold[o]
      /\ pc[Side[k]] = "copy" /\ UNCHANGED <<pc, client, server>>
      /\ reset' = (reset \/ ch[To[k]].dead)
  BY CopyWriteBase DEF CopyWrite
<1>2. /\ "i2c" \in Channel /\ "e2i" \in Channel /\ "s2e" \in Channel
      /\ "Idn" \in Copier /\ "Edn" \in Copier
      /\ DownWhole \in {2, 4, 6} /\ DownWhole' \in {2, 4, 6}
      /\ Sized(DownPlaces(m)) /\ Sized(DownPlaces(m)')
      /\ Len(server.sent) \in Nat /\ To[k] \in Channel
  BY DownType, RolesAre DEF Channel, Copier
<1>3. CASE k = "Idn" /\ Put(To[k], hold[k])
  <2>1. /\ Added(ch["i2c"].q, ch'["i2c"].q, hold["Idn"])
        /\ Taken(InHand("Idn"), InHand("Idn")') /\ InHand("Idn")[1] = hold["Idn"]
        /\ hold'["Edn"] = hold["Edn"] /\ ~ch["i2c"].dead
        /\ ch'["i2c"].dead = ch["i2c"].dead /\ pc.I = "copy"
    BY <1>1, <1>2, <1>3, RolesAre, QueueMoves, HandMoves DEF Copier, Put, Flags
  <2>2. ch'["e2i"] = ch["e2i"] /\ ch'["s2e"] = ch["s2e"]
    BY <1>1, <1>2, <1>3, <2>1, RolesAre DEF Others, Refused
  <2>3. InHand("Edn")' = InHand("Edn")
    BY <1>2, <2>1, InHandIs
  <2>4. SameBut(DownPlaces(m), DownPlaces(m)', 2)
    BY <1>1, <2>1, <2>2, <2>3, DownPlacesAre, SameButIs
  <2>5. 2 # DownWhole /\ 2 \in 1 .. 5 /\ 2 + 1 = 3
    BY <2>1 DEF DownWhole
  <2>6. /\ Taken(DownPlaces(m)[2 + 1], DownPlaces(m)'[2 + 1])
        /\ Added(DownPlaces(m)[2], DownPlaces(m)'[2], DownPlaces(m)[2 + 1][1])
    BY <2>1, <2>5, DownPlacesAre
  <2> QED
    BY <1>1, <2>1, <2>4, <2>5, <2>6, DownMove
<1>4. CASE k = "Edn" /\ Put(To[k], hold[k])
  <2>1. /\ Put("e2i", hold["Edn"])
        /\ Taken(InHand("Edn"), InHand("Edn")') /\ InHand("Edn")[1] = hold["Edn"]
        /\ hold'["Idn"] = hold["Idn"] /\ ~ch["e2i"].dead /\ pc.E = "copy"
    BY <1>1, <1>2, <1>4, RolesAre, HandMoves DEF Copier, Put
  <2>2. ch'["i2c"] = ch["i2c"] /\ ch'["s2e"] = ch["s2e"]
    BY <1>1, <1>2, <1>4, <2>1, RolesAre DEF Others, Refused
  <2>3. InHand("Idn")' = InHand("Idn")
    BY <1>2, <2>1, InHandIs
  <2>4. SameBut(DownPlaces(m), DownPlaces(m)', 4)
    BY <1>1, <2>1, <2>2, <2>3, DownPlacesAre, SameButIs
  <2>5. 4 # DownWhole /\ 4 \in 1 .. 5 /\ 4 + 1 = 5
    BY <2>1 DEF DownWhole
  <2>6. pc.I # "copy" => ch["e2i"].q # <<>>
    BY <2>1, TypeIs DEF Base, EndsInv, Order, EndInv, PcRec
  <2>7. Added(DownPlaces(m)[4], DownPlaces(m)'[4], hold["Edn"])
    <3>1. CASE pc.I = "copy"
      BY <1>1, <1>2, <2>1, <3>1, DownPlacesAre, QueueMoves
    <3>2. CASE pc.I # "copy"
      <4>1. Added(Drop(ch["e2i"].q, 1), Drop(ch'["e2i"].q, 1), hold["Edn"])
        <5>1. Added(ch["e2i"].q, ch'["e2i"].q, hold["Edn"])
          BY <2>1 DEF Put, Added
        <5>2. Len(ch["e2i"].q) \in Nat /\ Len(ch["e2i"].q) > 0
          BY <2>6, <3>2, DropAck
        <5> QED
          BY <5>1, <5>2, DropAck, RestAdded
      <4> QED
        BY <1>1, <3>2, <4>1, DownPlacesAre
    <3> QED
      BY <3>1, <3>2
  <2>8. /\ Taken(DownPlaces(m)[4 + 1], DownPlaces(m)'[4 + 1])
        /\ Added(DownPlaces(m)[4], DownPlaces(m)'[4], DownPlaces(m)[4 + 1][1])
    BY <2>1, <2>5, <2>7, DownPlacesAre
  <2> QED
    BY <1>1, <2>2, <2>4, <2>5, <2>8, DownMove
<1>5. CASE k \in {"Iup", "Eup"} /\ Put(To[k], hold[k])
  <2>1. To[k] \in {"i2e", "e2s"}
    BY <1>5, RolesAre
  <2>2. ~ch[To[k]].dead
    BY <1>5 DEF Put
  <2>3. Others(ch, ch', {To[k]})
    BY <1>1, <2>2 DEF Refused
  <2>4. /\ ch'["i2c"] = ch["i2c"] /\ ch'["e2i"] = ch["e2i"] /\ ch'["s2e"] = ch["s2e"]
        /\ hold'["Idn"] = hold["Idn"] /\ hold'["Edn"] = hold["Edn"]
    BY <1>1, <1>2, <1>5, <2>1, <2>3 DEF Others
  <2>5. DownPlaces(m)'[4] = DownPlaces(m)[4]
    BY <1>1, <2>4, DownPlacesAre
  <2> QED
    BY <1>1, <2>4, <2>5, DownSame
<1>6. CASE /\ Refused(To[k]) /\ Others(ch, ch', {To[k], Back[To[k]]})
  <2>1. /\ ch[To[k]].dead /\ ch'[To[k]].q = ch[To[k]].q
        /\ ch'[To[k]].dead = ch[To[k]].dead
        /\ Cut(ch, ch', Back[To[k]]) /\ Flags(ch, ch', Back[To[k]])
    BY <1>6 DEF Refused
  <2>2. reset'
    BY <1>1, <2>1, Zenon
  <2>3. /\ client'.rcvd = client.rcvd
        /\ Len(server.sent) <= Len(server'.sent) /\ Numbered(server'.sent, "s", 0)
    BY <1>1, <1>2 DEF DownInv
  <2>4. CASE k = "Idn"
    <3>1. /\ ch["i2c"].dead /\ ch'["i2c"].q = ch["i2c"].q
          /\ ch'["i2c"].dead = ch["i2c"].dead
      BY <2>1, <2>4, RolesAre
    <3>2. DownWhole = 2 /\ DownWhole' = 2 /\ DownAll' # "all"
      BY <2>2, <3>1 DEF DownWhole, DownAll
    <3>3. Prefix(DownPlaces(m)[2], DownPlaces(m)'[2])
      <4>1. DownPlaces(m)'[2] = DownPlaces(m)[2] /\ Len(DownPlaces(m)[2]) \in Nat
        BY <1>2, <3>1, DownPlacesAre DEF Sized
      <4> QED
        BY <4>1, PrefixSelf
    <3> QED
      BY <2>3, <3>2, <3>3, DownLoses
  <2>5. CASE k = "Edn"
    <3>1. ch["e2i"].dead
      BY <2>1, <2>5, RolesAre
    <3>2. ch'["i2c"] = ch["i2c"] /\ pc.I = "done"
      BY <1>2, <1>6, <2>5, <3>1, RolesAre, BackIs DEF Others, Base, EndsInv
    <3>3. DownWhole = 2 /\ DownWhole' = 2 /\ DownAll' # "all"
      BY <1>1, <2>2, <3>2 DEF DownWhole, DownAll
    <3>4. Prefix(DownPlaces(m)[2], DownPlaces(m)'[2])
      BY <1>2, <3>2, DownPlacesAre, PrefixSelf DEF Sized
    <3> QED
      BY <2>3, <3>3, <3>4, DownLoses
  <2>6. CASE k = "Iup"
    <3>1. /\ ch["i2e"].dead /\ Cut(ch, ch', "e2i") /\ pc.I = "copy"
          /\ ch'["i2c"] = ch["i2c"] /\ hold'["Idn"] = hold["Idn"]
      BY <1>1, <1>2, <1>6, <2>1, <2>6, RolesAre, BackIs DEF Others
    <3>2. pc.E = "done"
      BY <3>1 DEF Base, EndsInv
    <3>3. DownWhole' = DownWhole /\ DownWhole \in {2, 4} /\ DownAll' # "all"
      BY <1>1, <2>2, <3>1, <3>2 DEF DownWhole, DownAll
    <3>4. /\ DownPlaces(m)'[2] = DownPlaces(m)[2]
          /\ Prefix(DownPlaces(m)[4], DownPlaces(m)'[4])
      <4>1. DownPlaces(m)'[2] = DownPlaces(m)[2]
        BY <3>1, DownPlacesAre
      <4>2. DownPlaces(m)[4] = ch["e2i"].q /\ DownPlaces(m)'[4] = ch'["e2i"].q
        BY <1>1, <2>6, <3>1, DownPlacesAre, RolesAre
      <4> QED
        BY <3>1, <4>1, <4>2 DEF Cut, Prefix
    <3>5. Prefix(DownPlaces(m)[DownWhole'], DownPlaces(m)'[DownWhole'])
      BY <1>2, <3>3, <3>4, PrefixSelf DEF Sized
    <3>6. DownWhole' <= DownWhole
      BY <3>3
    <3> QED
      BY <2>3, <3>1, <3>3, <3>5, <3>6, DownLoses
  <2>7. CASE k = "Eup"
    <3>1. /\ ch["e2s"].dead /\ Cut(ch, ch', "s2e")
          /\ ch'["i2c"] = ch["i2c"] /\ ch'["e2i"] = ch["e2i"]
          /\ hold'["Idn"] = hold["Idn"] /\ hold'["Edn"] = hold["Edn"]
      BY <1>1, <1>2, <1>6, <2>1, <2>7, RolesAre, BackIs DEF Others
    <3>2. server.st = "closed"
      BY <3>1 DEF Base, EndsInv
    <3>3. DownWhole' = DownWhole /\ DownAll' # "all"
      BY <1>1, <2>2, <3>1, <3>2 DEF DownWhole, DownAll
    <3>4. /\ DownPlaces(m)'[2] = DownPlaces(m)[2] /\ DownPlaces(m)'[4] = DownPlaces(m)[4]
          /\ Prefix(DownPlaces(m)[6], DownPlaces(m)'[6])
      <4>1. DownPlaces(m)'[2] = DownPlaces(m)[2] /\ DownPlaces(m)'[4] = DownPlaces(m)[4]
        BY <1>1, <3>1, DownPlacesAre
      <4>2. DownPlaces(m)[6] = ch["s2e"].q /\ DownPlaces(m)'[6] = ch'["s2e"].q
        BY DownPlacesAre
      <4> QED
        BY <3>1, <4>1, <4>2 DEF Cut, Prefix
    <3>5. Prefix(DownPlaces(m)[DownWhole'], DownPlaces(m)'[DownWhole'])
      BY <1>2, <3>4, PrefixSelf DEF Sized
    <3>6. DownWhole' <= DownWhole
      BY <1>2, <3>3
    <3> QED
      BY <2>3, <3>1, <3>3, <3>4, <3>5, <3>6, DownLoses
  <2> QED
    BY <2>4, <2>5, <2>6, <2>7 DEF Copier
<1> QED
  BY <1>1, <1>3, <1>4, <1>5, <1>6 DEF Copier

LEMMA DownUpEnds ==
  ASSUME NEW m \in Nat, Base, Base', DownInv(m), NEW p \in {"I", "E"}, UpEnds(p)
  PROVE  DownInv(m)'
<1>1. /\ \A o \in Copier \ {Up[p]} : hold'[o] = hold[o]
      /\ UNCHANGED <<pc, ch, client, server, reset>>
  BY UpEndsBase DEF UpEnds
<1>2. hold'["Idn"] = hold["Idn"] /\ hold'["Edn"] = hold["Edn"]
  BY <1>1, RolesAre DEF Copier
<1>3. DownPlaces(m)'[4] = DownPlaces(m)[4]
  BY <1>1, DownPlacesAre
<1> QED
  BY <1>1, <1>2, <1>3, DownSame

LEMMA SameLensIs ==
  ASSUME NEW p, NEW r, r[1] = p[1], r[2] = p[2], r[3] = p[3], r[4] = p[4],
         r[5] = p[5], r[6] = p[6]
  PROVE  SameLens(p, r)
<1>1. \A i \in 1 .. 6 : i = 1 \/ i = 2 \/ i = 3 \/ i = 4 \/ i = 5 \/ i = 6
  OBVIOUS
<1> QED
  BY <1>1 DEF SameLens

LEMMA DownStops ==
  ASSUME NEW m \in Nat, Base, Base', DownInv(m), EndInv, NoLoss, StopsI \/ StopsE
  PROVE  DownInv(m)'
<1>1. /\ pc \in PcRec /\ DownWhole \in {2, 4, 6} /\ DownWhole' \in {2, 4, 6}
      /\ Sized(DownPlaces(m)) /\ Len(server.sent) \in Nat
      /\ UNCHANGED <<client, server>> /\ (reset => reset')
  BY TypeIs, DownType DEF Base, StopsI, StopsE, Stopped, NoLoss
<1>2. Len(server.sent) <= Len(server'.sent) /\ Numbered(server'.sent, "s", 0)
  BY <1>1 DEF DownInv
<1>3. CASE StopsI
  <2>1. /\ pc.I # "done" /\ pc'.I = "done" /\ pc'.E = pc.E
        /\ ch'["s2e"] = ch["s2e"] /\ Shut(ch, ch', "i2c")
        /\ hold'["Edn"] = hold["Edn"]
    BY <1>1, <1>3 DEF StopsI, Stopped, Copier, PcRec
  <2>2. DownWhole' = 2 /\ DownWhole' <= DownWhole
    BY <1>1, <2>1 DEF DownWhole
  <2>3. Prefix(DownPlaces(m)[2], DownPlaces(m)'[2])
    BY <2>1, DownPlacesAre DEF Shut, Cut, Prefix
  <2>4. ASSUME DownAll' = "all"
        PROVE  DownAll = "all" /\ SameLens(DownPlaces(m), DownPlaces(m)')
    <3>1. ~reset' /\ ~reset
      BY <1>1, <2>2, <2>4 DEF DownAll
    <3>2. DownAll = "all"
      BY <3>1 DEF DownAll
    <3>3. ch["c2i"].q = <<>> /\ ch["e2i"].q = <<>> /\ hold["Idn"] = Nothing
      BY <2>1, <3>1 DEF NoLoss
    <3>4. ch'["i2c"].q = ch["i2c"].q
      BY <2>1, <3>3, BackIs DEF Shut
    <3>5. hold'["Idn"] = Nothing
      BY <1>3 DEF StopsI, Stopped, HoldsOK
    <3>6. ch'["e2i"].q = <<>>
      BY <1>3, <3>3 DEF StopsI, Gone
    <3>7. Drop(<<>>, 1) = <<>>
      BY DEF Drop
    <3>8. DownPlaces(m)[4] = <<>> /\ DownPlaces(m)'[4] = <<>>
      BY <3>3, <3>6, <3>7, DownPlacesAre
    <3>9. SameLens(DownPlaces(m), DownPlaces(m)')
      BY <1>1, <2>1, <3>3, <3>4, <3>5, <3>8, DownPlacesAre, InHandIs, SameLensIs
         DEF Copier
    <3> QED
      BY <3>2, <3>9
  <2> QED
    BY <1>1, <1>2, <2>2, <2>3, <2>4, DownLoses
<1>4. CASE StopsE
  <2>1. /\ pc.E # "done" /\ pc'.E = "done" /\ pc'.I = pc.I
        /\ ch'["i2c"] = ch["i2c"] /\ Shut(ch, ch', "e2i")
        /\ hold'["Idn"] = hold["Idn"]
    BY <1>1, <1>4 DEF StopsE, Stopped, Copier, PcRec
  <2>2. DownWhole' \in {2, 4} /\ DownWhole' <= DownWhole
    BY <1>1, <2>1 DEF DownWhole
  <2>3. Prefix(DownPlaces(m)[2], DownPlaces(m)'[2])
    BY <1>1, <2>1, DownPlacesAre, PrefixSelf DEF Sized
  <2>4. Prefix(DownPlaces(m)[4], DownPlaces(m)'[4])
    <3>1. Prefix(ch["e2i"].q, ch'["e2i"].q)
      BY <2>1 DEF Shut, Cut, Prefix
    <3>2. Prefix(Drop(ch["e2i"].q, 1), Drop(ch'["e2i"].q, 1))
      BY <3>1, DropAck, RestCut
    <3> QED
      BY <2>1, <3>1, <3>2, DownPlacesAre
  <2>5. ASSUME DownAll' = "all"
        PROVE  DownAll = "all" /\ SameLens(DownPlaces(m), DownPlaces(m)')
    <3>1. ~reset' /\ ~reset
      BY <1>1, <2>2, <2>5 DEF DownAll
    <3>2. DownAll = "all"
      BY <3>1 DEF DownAll
    <3>3. /\ ch["s2e"].q = <<>> /\ hold["Edn"] = Nothing
          /\ ch["i2e"].q = <<>> \/ ch["e2i"].q = <<>>
      BY <2>1, <3>1 DEF NoLoss
    <3>4. ch'["e2i"].q = ch["e2i"].q
      <4>1. CASE ch["i2e"].q = <<>>
        BY <2>1, <4>1, BackIs DEF Shut
      <4>2. CASE ch["e2i"].q = <<>>
        BY <2>1, <4>2, CalmIs DEF Calm, Channel
      <4> QED
        BY <3>3, <4>1, <4>2
    <3>5. hold'["Edn"] = Nothing
      BY <1>4 DEF StopsE, Stopped, HoldsOK
    <3>6. ch'["s2e"].q = <<>>
      BY <1>4, <3>3 DEF StopsE, Gone
    <3>7. DownPlaces(m)'[4] = DownPlaces(m)[4]
      BY <2>1, <3>4, DownPlacesAre
    <3>8. SameLens(DownPlaces(m), DownPlaces(m)')
      BY <1>1, <2>1, <3>3, <3>5, <3>6, <3>7, DownPlacesAre, InHandIs, SameLensIs
         DEF Copier
    <3> QED
      BY <3>2, <3>8
  <2> QED
    BY <1>1, <1>2, <2>1, <2>2, <2>3, <2>4, <2>5, DownLoses
<1> QED
  BY <1>3, <1>4

LEMMA DownClient ==
  ASSUME NEW m \in Nat, Base, Base', DownInv(m), reset => reset',
         ClientSend \/ ClientRead \/ ClientShutdown \/ ClientClose
  PROVE  DownInv(m)'
<1>1. /\ "c2i" \in Channel /\ "i2c" \in Channel /\ "i2e" \in Channel
      /\ "e2i" \in Channel /\ "e2s" \in Channel /\ "s2e" \in Channel
      /\ UNCHANGED <<pc, hold, server>>
      /\ DownWhole \in {2, 4, 6} /\ DownWhole' \in {2, 4, 6}
      /\ Sized(DownPlaces(m)) /\ Sized(DownPlaces(m)') /\ Len(server.sent) \in Nat
  BY DownType DEF Channel, ClientSend, ClientRead, ClientShutdown, ClientClose
<1>2. /\ ch'["s2e"] = ch["s2e"] /\ ch'["e2i"] = ch["e2i"]
  <2>1. CASE ClientSend
    <3>1. Others(ch, ch', {"c2i"}) \/ Others(ch, ch', {"c2i", "i2c"})
      BY <2>1, ClientSendBase, BackIs
    <3> QED
      BY <1>1, <3>1 DEF Others
  <2>2. CASE ClientRead
    BY <1>1, <2>2, ClientReadBase DEF Others
  <2>3. CASE ClientShutdown \/ ClientClose
    BY <1>1, <2>3, ClientShutdownBase, ClientCloseBase DEF Others
  <2> QED
    BY <2>1, <2>2, <2>3
<1>3. /\ DownPlaces(m)'[3] = DownPlaces(m)[3] /\ DownPlaces(m)'[4] = DownPlaces(m)[4]
      /\ DownPlaces(m)'[5] = DownPlaces(m)[5] /\ DownPlaces(m)'[6] = DownPlaces(m)[6]
  BY <1>1, <1>2, DownPlacesAre, InHandIs DEF Copier
<1>4. Len(server.sent) <= Len(server'.sent) /\ Numbered(server'.sent, "s", 0)
  BY <1>1 DEF DownInv
<1>5. CASE ClientSend
  <2>1. /\ Others(ch, ch', {"c2i"}) \/ Refused("c2i")
        /\ client'.rcvd = client.rcvd /\ reset' = (reset \/ ch["c2i"].dead)
    BY <1>5, ClientSendBase DEF ClientSend
  <2>2. CASE Others(ch, ch', {"c2i"})
    <3>1. ch'["i2c"] = ch["i2c"]
      BY <1>1, <2>2 DEF Others
    <3> QED
      BY <1>1, <1>2, <1>3, <2>1, <3>1, DownSame
  <2>3. CASE Refused("c2i")
    <3>1. Cut(ch, ch', "i2c") /\ pc.I = "done"
      BY <2>3, BackIs DEF Refused, Base, EndsInv
    <3>2. reset'
      BY <2>1, <2>3, Zenon DEF Refused
    <3>3. DownWhole = 2 /\ DownWhole' = 2 /\ DownAll' # "all"
      BY <1>1, <3>1, <3>2 DEF DownWhole, DownAll
    <3>4. Prefix(DownPlaces(m)[2], DownPlaces(m)'[2])
      BY <3>1, DownPlacesAre DEF Cut, Prefix
    <3> QED
      BY <1>4, <2>1, <3>3, <3>4, DownLoses
  <2> QED
    BY <2>1, <2>2, <2>3
<1>6. CASE ClientRead
  <2>1. CASE /\ Got("i2c") /\ client'.rcvd = Append(client.rcvd, ch["i2c"].q[1])
    <3>1. ch'["i2c"].dead = ch["i2c"].dead
      BY <2>1 DEF Got, Flags
    <3>2. SameBut(DownPlaces(m), DownPlaces(m)', 1)
      BY <1>3, SameButIs
    <3>3. Taken(DownPlaces(m)[1 + 1], DownPlaces(m)'[1 + 1])
      BY <1>1, <2>1, DownPlacesAre, QueueMoves
    <3>4. Added(DownPlaces(m)[1], DownPlaces(m)'[1], DownPlaces(m)[1 + 1][1])
      <4>1. client.rcvd \in Seq(ServerData)
        BY TypeIs DEF Base, ClientRec
      <4>2. ch["i2c"].q \in Seq(ServerData)
        BY <1>1 DEF Base, TypeOK, Carries
      <4>3. ch["i2c"].q[1] \in ServerData
        BY <2>1, <4>2 DEF Got
      <4>4. Added(Received(m, client.rcvd), Received(m, client'.rcvd), ch["i2c"].q[1])
        BY <2>1, <4>1, <4>3, ReceivedMore
      <4> QED
        BY <4>4, DownPlacesAre
    <3>5. 1 \in 1 .. 5 /\ 1 # DownWhole
      BY <1>1
    <3> QED
      BY <1>1, <3>1, <3>2, <3>3, <3>4, <3>5, DownMove
  <2>2. CASE UNCHANGED ch /\ client'.rcvd = client.rcvd
    BY <1>1, <1>3, <2>2, DownSame
  <2> QED
    BY <1>6, <2>1, <2>2, ClientReadBase
<1>7. CASE ClientShutdown
  <2>1. /\ ch'["i2c"] = ch["i2c"] /\ client'.rcvd = client.rcvd
    BY <1>1, <1>7, ClientShutdownBase
  <2> QED
    BY <1>1, <1>2, <1>3, <2>1, DownSame
<1>8. CASE ClientClose
  <2>1. /\ ch'["i2c"].q = <<>> /\ ch'["i2c"].dead /\ client'.rcvd = client.rcvd
        /\ ~reset' => ch["i2c"].q = <<>>
    BY <1>8, ClientCloseBase, BackIs DEF Gone, ClientClose, Unread
  <2>2. DownWhole' = 2 /\ DownWhole' <= DownWhole
    BY <1>1, <2>1 DEF DownWhole
  <2>3. Prefix(DownPlaces(m)[2], DownPlaces(m)'[2])
    <3>1. DownPlaces(m)'[2] = <<>> /\ Len(DownPlaces(m)[2]) \in Nat
      BY <1>1, <2>1, DownPlacesAre DEF Sized
    <3> QED
      BY <3>1 DEF Prefix
  <2>4. ASSUME DownAll' = "all"
        PROVE  DownAll = "all" /\ SameLens(DownPlaces(m), DownPlaces(m)')
    <3>1. ~reset' /\ ~reset
      BY <2>2, <2>4 DEF DownAll
    <3>2. DownAll = "all"
      BY <3>1 DEF DownAll
    <3>3. DownPlaces(m)'[1] = DownPlaces(m)[1] /\ DownPlaces(m)'[2] = DownPlaces(m)[2]
      BY <2>1, <3>1, DownPlacesAre
    <3> QED
      BY <1>3, <3>2, <3>3, SameLensIs
  <2> QED
    BY <1>1, <1>4, <2>1, <2>2, <2>3, <2>4, DownLoses
<1> QED
  BY <1>5, <1>6, <1>7, <1>8

LEMMA DownServer ==
  ASSUME NEW m \in Nat, Base, Base', DownInv(m), reset => reset', ServerRead \/ ServerClose
  PROVE  DownInv(m)'
<1>1. /\ "c2i" \in Channel /\ "i2c" \in Channel /\ "i2e" \in Channel
      /\ "e2i" \in Channel /\ "e2s" \in Channel /\ "s2e" \in Channel
      /\ UNCHANGED <<pc, hold, client>>
      /\ server'.sent = server.sent
      /\ DownWhole \in {2, 4, 6} /\ DownWhole' \in {2, 4, 6}
      /\ Sized(DownPlaces(m)) /\ Sized(DownPlaces(m)') /\ Len(server.sent) \in Nat
  BY DownType, ServerReadBase, ServerCloseBase DEF Channel, ServerRead, ServerClose
<1>2. /\ ch'["i2c"] = ch["i2c"] /\ ch'["e2i"] = ch["e2i"]
  BY <1>1, ServerReadBase, ServerCloseBase DEF Others
<1>3. /\ DownPlaces(m)'[1] = DownPlaces(m)[1] /\ DownPlaces(m)'[2] = DownPlaces(m)[2]
      /\ DownPlaces(m)'[3] = DownPlaces(m)[3] /\ DownPlaces(m)'[4] = DownPlaces(m)[4]
      /\ DownPlaces(m)'[5] = DownPlaces(m)[5]
  BY <1>1, <1>2, DownPlacesAre, InHandIs DEF Copier
<1>4. CASE ServerRead
  <2>1. ch'["s2e"] = ch["s2e"] /\ server'.st = server.st
    BY <1>1, <1>4, ServerReadBase DEF Others
  <2> QED
    BY <1>1, <1>2, <1>3, <2>1, DownSame
<1>5. CASE ServerClose
  <2>1. /\ Shut(ch, ch', "s2e") /\ server'.st = "closed"
        /\ ~reset' => ch["e2s"].q = <<>>
    BY <1>5, ServerCloseBase, BackIs DEF ServerClose, Unread
  <2>2. DownWhole' = DownWhole
    BY <1>1, <1>2 DEF DownWhole
  <2>3. Prefix(DownPlaces(m)[6], DownPlaces(m)'[6])
    BY <2>1, DownPlacesAre DEF Shut, Cut, Prefix
  <2>4. Prefix(DownPlaces(m)[DownWhole'], DownPlaces(m)'[DownWhole'])
    BY <1>1, <1>3, <2>2, <2>3, PrefixSelf DEF Sized
  <2>5. ASSUME DownAll' = "all"
        PROVE  DownAll = "all" /\ SameLens(DownPlaces(m), DownPlaces(m)')
    <3>1. ~reset' /\ ~reset
      BY <2>1, <2>5 DEF DownAll
    <3>2. DownAll = "all"
      BY <3>1 DEF DownAll
    <3>3. DownPlaces(m)'[6] = DownPlaces(m)[6]
      BY <2>1, <3>1, DownPlacesAre, BackIs DEF Shut
    <3> QED
      BY <1>3, <3>2, <3>3, SameLensIs
  <2>6. Len(server.sent) <= Len(server'.sent) /\ DownWhole' <= DownWhole
    BY <1>1, <2>2
  <2> QED
    BY <1>1, <1>2, <1>3, <2>4, <2>5, <2>6, DownLoses DEF DownInv
<1> QED
  BY <1>4, <1>5

LEMMA DownServerSend ==
  ASSUME NEW m \in Nat, Base, Base', DownInv(m), reset => reset', ServerSend
  PROVE  DownInv(m)'
<1> DEFINE s == Len(server.sent)
<1>1. /\ UNCHANGED <<pc, hold, client>> /\ server.st = "open" /\ server'.st = server.st
      /\ server'.sent = Append(server.sent, <<"s", s + 1>>)
      /\ \/ Put("s2e", <<"s", s + 1>>) /\ Others(ch, ch', {"s2e"})
         \/ Refused("s2e") /\ Others(ch, ch', {"s2e", "e2s"})
      /\ reset' = (reset \/ ch["s2e"].dead)
  BY ServerSendBase, BackIs DEF ServerSend
<1>2. /\ Sized(DownPlaces(m)) /\ Sized(DownPlaces(m)') /\ DownWhole \in {2, 4, 6}
      /\ s \in Nat /\ server.sent \in Seq(ServerData)
      /\ "s2e" \in Channel /\ "Idn" \in Copier /\ "Edn" \in Copier
  BY DownType DEF Channel, Copier
<1>3. Len(server'.sent) = s + 1 /\ Numbered(server'.sent, "s", 0)
  <2>1. /\ Len(server'.sent) = s + 1
        /\ \A i \in 1 .. s : server'.sent[i] = server.sent[i]
        /\ server'.sent[s + 1] = <<"s", s + 1>>
    BY <1>1, <1>2
  <2>2. \A i \in 1 .. s : server.sent[i] = <<"s", 0 + i>>
    BY DEF DownInv, Numbered
  <2>3. \A i \in 1 .. s + 1 : server'.sent[i] = <<"s", 0 + i>>
    BY <1>2, <2>1, <2>2
  <2> QED
    BY <2>1, <2>3 DEF Numbered
<1> HIDE DEF s
<1>4. ch'["i2c"] = ch["i2c"] /\ ch'["e2i"] = ch["e2i"]
  BY <1>1 DEF Others, Channel
<1>5. /\ DownWhole' = DownWhole
      /\ DownPlaces(m)'[1] = DownPlaces(m)[1] /\ DownPlaces(m)'[2] = DownPlaces(m)[2]
      /\ DownPlaces(m)'[3] = DownPlaces(m)[3] /\ DownPlaces(m)'[4] = DownPlaces(m)[4]
      /\ DownPlaces(m)'[5] = DownPlaces(m)[5]
  BY <1>1, <1>2, <1>4, DownPlacesAre, InHandIs DEF DownWhole
<1>6. CASE Put("s2e", <<"s", s + 1>>)
  <2>1. Added(DownPlaces(m)[6], DownPlaces(m)'[6], <<"s", s + 1>>)
    BY <1>2, <1>6, DownPlacesAre, QueueMoves
  <2>2. SameUpTo(DownPlaces(m), DownPlaces(m)', 6)
    <3>1. 6 \in 2 .. 6
      OBVIOUS
    <3> QED
      BY <1>5, <3>1, SameUpToIs
  <2>3. DownWhole = 6 => DownAll = "all"
    BY <1>1 DEF DownAll
  <2>4. Chain("s", DownPlaces(m), DownWhole, s, DownAll) /\ DownWhole \in 2 .. 6
    BY <1>2 DEF DownInv, s
  <2>5. Chain("s", DownPlaces(m)', DownWhole, s + 1, DownAll)
    BY <1>2, <2>1, <2>2, <2>3, <2>4, SendChain
  <2>6. DownAll' = "all" => DownAll = "all"
    BY <1>1, <1>5 DEF DownAll
  <2>7. Chain("s", DownPlaces(m)', DownWhole, s + 1, DownAll')
    BY <2>5, <2>6 DEF Chain, Linked
  <2> QED
    BY <1>3, <1>5, <2>7 DEF DownInv
<1>7. CASE Refused("s2e")
  <2>1. pc.E = "done"
    BY <1>7 DEF Refused, Base, EndsInv
  <2>2. reset'
    BY <1>1, <1>7, Zenon DEF Refused
  <2>3. DownWhole \in {2, 4} /\ DownAll' # "all"
    BY <1>5, <2>1, <2>2 DEF DownWhole, DownAll
  <2>4. Prefix(DownPlaces(m)[DownWhole'], DownPlaces(m)'[DownWhole'])
    BY <1>2, <1>5, <2>3, PrefixSelf DEF Sized
  <2>5. DownWhole' <= DownWhole /\ Len(server.sent) <= Len(server'.sent)
    BY <1>2, <1>3, <1>5 DEF s
  <2> QED
    BY <1>1, <1>3, <1>4, <1>5, <2>3, <2>4, <2>5, DownLoses
<1> QED
  BY <1>1, <1>6, <1>7

LEMMA DownStep ==
  ASSUME NEW m \in Nat, Base, Base', DownInv(m), EndInv, NoLoss, Steps, ~ReadAck
  PROVE  DownInv(m)'
<1>1. reset => reset'
  BY DEF NoLoss
<1>2. CASE \/ Dialled \/ WriteHeader \/ HeaderRead \/ ServerDialled
           \/ WriteAck \/ UNCHANGED vars
  BY <1>1, <1>2, DownHandshake
<1>3. ASSUME NEW k \in Copier, CopyRead(k) \/ CopyWrite(k)
      PROVE  DownInv(m)'
  BY <1>1, <1>3, DownCopyRead, DownCopyWrite
<1>4. ASSUME NEW p \in {"I", "E"}, UpEnds(p)
      PROVE  DownInv(m)'
  BY <1>4, DownUpEnds
<1>5. CASE StopsI \/ StopsE
  BY <1>5, DownStops
<1>6. CASE ClientSend \/ ClientRead \/ ClientShutdown \/ ClientClose
  BY <1>1, <1>6, DownClient
<1>7. CASE ServerSend \/ ServerRead \/ ServerClose
  BY <1>1, <1>7, DownServerSend, DownServer
<1> QED
  BY <1>2, <1>3, <1>4, <1>5, <1>6, <1>7 DEF Steps

(* Once the ack is read it stays read, and until then only internalProxy's  *)
(* copy, which has not started, could have given the client anything.       *)
LEMMA NothingYetStep ==
  ASSUME Base, Base', NothingYet, reset => reset', Steps
  PROVE  (Before' => Before) /\ NothingYet'
<1> SUFFICES ASSUME Before'
             PROVE  Before /\ client'.rcvd = <<>> /\ ch'["i2c"].q = <<>>
  BY DEF NothingYet
<1>1. /\ "c2i" \in Channel /\ "i2c" \in Channel /\ "i2e" \in Channel
      /\ "e2i" \in Channel /\ "e2s" \in Channel /\ "s2e" \in Channel
      /\ Header \in Piece /\ Ack \in Piece /\ TypeOK
      /\ ch \in [Channel -> ChanRec] /\ pc \in PcRec
      /\ pc'.I \in {"dial", "header", "ack"}
  BY TypeIs DEF Channel, Piece, Base, Before
<1>2. ASSUME pc'.I = pc.I, client'.rcvd = client.rcvd, Calm("i2c")
      PROVE  Before /\ client'.rcvd = <<>> /\ ch'["i2c"].q = <<>>
  BY <1>1, <1>2 DEF NothingYet, Before, Calm
<1>3. ch'["i2c"] = ch["i2c"] => Calm("i2c")
  BY <1>1, CalmIs
<1>4. CASE Dialled
  BY <1>1, <1>4 DEF Dialled, NothingYet, Before
<1>5. CASE WriteHeader
  <2>1. pc.I = "header" /\ client' = client /\ ch' \in Writes("i2e", Header)
    BY <1>5 DEF WriteHeader
  <2>2. ch'["i2c"] = ch["i2c"]
    BY <1>1, <2>1, WritesEffect, BackIs DEF Others
  <2> QED
    BY <2>1, <2>2 DEF NothingYet, Before
<1>6. CASE ReadAck
  BY <1>1, <1>6 DEF ReadAck, StartCopies, PcRec
<1>7. CASE HeaderRead
  <2>1. PICK n \in ReadSizes(ch["i2e"].q) : ch' = [ch EXCEPT !["i2e"].q = Drop(@, n)]
    BY <1>7 DEF HeaderRead
  <2>2. ch'["i2c"] = ch["i2c"]
    BY <1>1, <2>1
  <2>3. pc'.I = pc.I /\ client' = client
    BY <1>1, <1>7 DEF HeaderRead, PcRec
  <2> QED
    BY <1>2, <1>3, <2>2, <2>3
<1>8. CASE ServerDialled
  <2>1. pc'.I = pc.I /\ client' = client /\ ch' = ch
    BY <1>1, <1>8 DEF ServerDialled, PcRec
  <2> QED
    BY <1>2, <1>3, <2>1
<1>9. CASE WriteAck
  <2>1. pc'.I = pc.I /\ client' = client /\ ch' \in Writes("e2i", Ack)
    BY <1>1, <1>9 DEF WriteAck, StartCopies, PcRec
  <2>2. ch'["i2c"] = ch["i2c"]
    BY <1>1, <2>1, WritesEffect, BackIs DEF Others
  <2> QED
    BY <1>2, <1>3, <2>1, <2>2
<1>10. ASSUME NEW k \in Copier, CopyRead(k) \/ CopyWrite(k)
       PROVE  Before /\ client'.rcvd = <<>> /\ ch'["i2c"].q = <<>>
  <2>1. pc' = pc /\ client' = client /\ pc[Side[k]] = "copy"
    BY <1>10 DEF CopyRead, CopyWrite
  <2>2. k \in {"Eup", "Edn"}
    BY <1>1, <2>1, RolesAre DEF Copier
  <2>3. ch'["i2c"] = ch["i2c"]
    <3>1. CASE CopyRead(k)
      BY <1>1, <2>2, <3>1, CopyReadBase, RolesAre DEF Others
    <3>2. CASE CopyWrite(k)
      <4>1. Others(ch, ch', {To[k]}) \/ Others(ch, ch', {To[k], Back[To[k]]})
        BY <3>2, CopyWriteBase
      <4> QED
        BY <1>1, <2>2, <4>1, RolesAre, BackIs DEF Others
    <3> QED
      BY <1>10, <3>1, <3>2
  <2> QED
    BY <1>2, <1>3, <2>1, <2>3
<1>11. ASSUME NEW p \in {"I", "E"}, UpEnds(p)
       PROVE  Before /\ client'.rcvd = <<>> /\ ch'["i2c"].q = <<>>
  BY <1>2, <1>3, <1>11 DEF UpEnds
<1>12. CASE StopsI
  BY <1>1, <1>12 DEF StopsI, PcRec
<1>13. CASE StopsE
  <2>1. pc'.I = pc.I /\ client' = client /\ ch'["i2c"] = ch["i2c"]
    BY <1>1, <1>13 DEF StopsE, Stopped, PcRec
  <2> QED
    BY <1>2, <1>3, <2>1
<1>14. CASE ClientSend \/ ClientShutdown \/ ClientClose
  <2>1. pc' = pc
    BY <1>14 DEF ClientSend, ClientShutdown, ClientClose
  <2>2. CASE ClientSend
    <3>1. ch'["i2c"] = ch["i2c"] \/ (Cut(ch, ch', "i2c") /\ Flags(ch, ch', "i2c"))
      BY <1>1, <2>2, ClientSendBase, BackIs DEF Others, Refused
    <3>2. client'.rcvd = client.rcvd
      BY <2>2, ClientSendBase
    <3> QED
      BY <1>1, <1>2, <2>1, <3>1, <3>2, CalmIs
  <2>3. CASE ClientShutdown
    <3>1. client'.rcvd = client.rcvd /\ ch'["i2c"] = ch["i2c"]
      BY <1>1, <2>3, ClientShutdownBase
    <3> QED
      BY <1>2, <1>3, <2>1, <3>1
  <2>4. CASE ClientClose
    <3>1. client'.rcvd = client.rcvd /\ Gone(ch, ch', "i2c")
      BY <2>4, ClientCloseBase
    <3> QED
      BY <1>1, <1>2, <2>1, <3>1, CalmIs
  <2> QED
    BY <1>14, <2>2, <2>3, <2>4
<1>15. CASE ClientRead
  <2>1. pc' = pc
    BY <1>15 DEF ClientRead
  <2>2. ~Got("i2c")
    BY <1>1, <2>1 DEF Got, NothingYet, Before
  <2>3. client'.rcvd = client.rcvd /\ UNCHANGED ch
    BY <1>15, <2>2, ClientReadBase
  <2> QED
    BY <1>2, <1>3, <2>1, <2>3
<1>16. CASE ServerSend \/ ServerRead \/ ServerClose
  <2>1. pc' = pc /\ client' = client
    BY <1>16 DEF ServerSend, ServerRead, ServerClose
  <2>2. ch'["i2c"] = ch["i2c"]
    BY <1>1, <1>16, ServerSendBase, ServerReadBase, ServerCloseBase, BackIs DEF Others
  <2> QED
    BY <1>2, <1>3, <2>1, <2>2
<1>17. CASE UNCHANGED vars
  BY <1>2, <1>3, <1>17 DEF vars
<1> QED
  BY <1>4, <1>5, <1>6, <1>7, <1>8, <1>9, <1>10, <1>11, <1>12, <1>13, <1>14, <1>15,
     <1>16, <1>17 DEF Steps

LEMMA MissedIs ==
  ASSUME NEW m \in Missed
  PROVE  m \in Nat /\ 0 \in Missed /\ (tls => m = 0)
  BY TunnelAssumption DEF Missed

LEMMA DownInit ==
  ASSUME Init
  PROVE  DownInv(0) /\ NothingYet /\ 0 \in Missed
<1>1. /\ \A c \in Channel : ch[c].q = <<>> /\ ch[c].dead = FALSE
      /\ \A k \in Copier : hold[k] = Nothing
      /\ server.sent = <<>> /\ client.rcvd = <<>> /\ server.st = "listen"
      /\ pc.I = "dial" /\ pc.E = "none"
  BY DEF Init
<1>2. DownWhole = 6 /\ DownAll = "all"
  BY <1>1 DEF DownWhole, DownAll, Channel
<1>3. Drop(<<>>, 1) = <<>>
  BY DEF Drop
<1>4. /\ DownPlaces(0)[1] = Received(0, <<>>) /\ DownPlaces(0)[2] = <<>>
      /\ DownPlaces(0)[3] = <<>> /\ DownPlaces(0)[4] = <<>>
      /\ DownPlaces(0)[5] = <<>> /\ DownPlaces(0)[6] = <<>>
  BY <1>1, <1>3 DEF DownPlaces, InHand, Channel, Copier
<1>5. \A i \in 1 .. 6 : i = 1 \/ i = 2 \/ i = 3 \/ i = 4 \/ i = 5 \/ i = 6
  OBVIOUS
<1>6. Len(<<>>) = 0 /\ <<>> \in Seq(ServerData) /\ 0 \in Nat /\ 0 + 0 = 0
  OBVIOUS
<1>7. Len(Received(0, <<>>)) = 0
  BY <1>6, ReceivedIs
<1>8. \A i \in 1 .. 6 : Len(DownPlaces(0)[i]) = 0
  BY <1>4, <1>5, <1>6, <1>7
<1>9. Chain("s", DownPlaces(0), 6, 0, "all")
  BY <1>8, NewChain
<1>10. NothingYet
  BY <1>1 DEF NothingYet, Channel
<1>11. 0 \in Missed
  BY TunnelAssumption DEF Missed
<1> QED
  BY <1>1, <1>2, <1>6, <1>9, <1>10, <1>11 DEF DownInv, Numbered

-----------------------------------------------------------------------------
(* What the server sent, but for the m pieces which the read of the ack has *)
(* taken (none with TLS), is on its way down without a gap, up to the first *)
(* place that has lost pieces; and unless something was reset or killed,    *)
(* internalProxy (copying down) stops only after the external handler.      *)
THEOREM DownInvariant == Spec => []DownOK
<1>1. Init => DownOK
  BY BaseInit, EndInit, DownInit DEF DownOK
<1>2. ASSUME DownOK, [Next]_vars
      PROVE  DownOK'
  <2>1. Base /\ EndInv /\ NothingYet /\ Steps /\ NoLoss
    BY <1>2, StepIs, NothingLost DEF DownOK
  <2>2. Base'
    BY <2>1, BaseStep
  <2>3. EndInv'
    BY <2>1, <2>2, EndStep
  <2>4. (Before' => Before) /\ NothingYet'
    BY <2>1, <2>2, NothingYetStep DEF NoLoss
  <2>5. Missed' = Missed
    <3>1. tls' = tls
      BY <1>2 DEF Next, Proxies, Applications, InternalDial, WriteHeader, ReadAck,
                  ReadHeader, ExternalDial, WriteAck, CopyRead, CopyWrite, UpEnds,
                  DownEnds, Kill, ClientSend, ClientRead, ClientShutdown,
                  ClientClose, ServerSend, ServerRead, ServerClose, vars
    <3> QED
      BY <3>1 DEF Missed
  <2>6. PICK m \in Missed : (Before => m = 0) /\ DownInv(m)
    BY <1>2 DEF DownOK
  <2>7. CASE ReadAck
    <3>1. Before /\ ~Before'
      BY <2>1, <2>7, TypeIs DEF ReadAck, StartCopies, Before, Base, PcRec
    <3>2. DownInv(0)
      BY <2>6, <3>1
    <3>3. \E l \in Missed : DownInv(l)'
      BY <2>1, <2>2, <2>7, <3>2, DownReadAck DEF NoLoss
    <3> QED
      BY <2>2, <2>3, <2>4, <2>5, <3>1, <3>3 DEF DownOK
  <2>8. CASE ~ReadAck
    <3>1. DownInv(m)'
      BY <2>1, <2>2, <2>6, <2>8, MissedIs, DownStep
    <3> QED
      BY <2>2, <2>3, <2>4, <2>5, <2>6, <3>1 DEF DownOK
  <2> QED
    BY <2>7, <2>8
<1> QED
  BY <1>1, <1>2, PTL DEF Spec

(* How far the client has come: m pieces are missing, the others it has     *)
(* had, and what waits for it comes next.                                   *)
LEMMA DownFront ==
  ASSUME Base, Base', NEW m \in Nat, DownInv(m)
  PROVE  /\ client.rcvd \in Seq(ServerData) /\ server.sent \in Seq(ServerData)
         /\ Len(client.rcvd) \in Nat /\ Len(server.sent) \in Nat
         /\ m + Len(client.rcvd) <= Len(server.sent)
         /\ \A i \in 1 .. Len(client.rcvd) : client.rcvd[i] = server.sent[i + m]
         /\ Len(ch["i2c"].q) > 0 =>
              /\ m + Len(client.rcvd) < Len(server.sent)
              /\ ch["i2c"].q[1] = server.sent[m + Len(client.rcvd) + 1]
<1> DEFINE r == Received(m, client.rcvd)
<1>1. /\ client.rcvd \in Seq(ServerData) /\ server.sent \in Seq(ServerData)
      /\ Len(client.rcvd) \in Nat /\ Len(server.sent) \in Nat
      /\ Sized(DownPlaces(m)) /\ DownWhole \in 2 .. 6
  <2>1. client.rcvd \in Seq(ServerData)
    BY TypeIs DEF Base, ClientRec
  <2>2. /\ server.sent \in Seq(ServerData) /\ Len(server.sent) \in Nat
        /\ Sized(DownPlaces(m)) /\ DownWhole \in {2, 4, 6}
    BY DownType
  <2> QED
    BY <2>1, <2>2
<1>2. /\ Len(r) = m + Len(client.rcvd) /\ Len(r) \in Nat
      /\ \A i \in 1 .. Len(client.rcvd) : r[m + i] = client.rcvd[i]
  BY <1>1, ReceivedIs
<1>3. /\ Numbered(server.sent, "s", 0)
      /\ Chain("s", DownPlaces(m), DownWhole, Len(server.sent), DownAll)
  BY DEF DownInv
<1>4. DownPlaces(m)[1] = r /\ DownPlaces(m)[2] = ch["i2c"].q
  BY DownPlacesAre
<1> HIDE DEF r
<1>5. /\ Numbered(r, "s", 0) /\ Len(r) <= Len(server.sent)
      /\ Len(ch["i2c"].q) > 0 =>
           ch["i2c"].q[1] = <<"s", Len(r) + 1>> /\ Len(r) < Len(server.sent)
  BY <1>1, <1>3, <1>4, ChainFront
<1>6. ASSUME NEW i \in 1 .. Len(client.rcvd)
      PROVE  client.rcvd[i] = server.sent[i + m]
  <2>1. /\ i + m \in 1 .. Len(r) /\ i + m \in 1 .. Len(server.sent) /\ m + i = i + m
    BY <1>1, <1>2, <1>5
  <2>2. r[i + m] = <<"s", 0 + (i + m)>> /\ server.sent[i + m] = <<"s", 0 + (i + m)>>
    BY <1>3, <1>5, <2>1 DEF Numbered
  <2> QED
    BY <1>2, <2>1, <2>2
<1>7. ASSUME Len(ch["i2c"].q) > 0
      PROVE  /\ m + Len(client.rcvd) < Len(server.sent)
             /\ ch["i2c"].q[1] = server.sent[m + Len(client.rcvd) + 1]
  <2>1. Len(r) + 1 \in 1 .. Len(server.sent) /\ 0 + (Len(r) + 1) = Len(r) + 1
    BY <1>1, <1>2, <1>5, <1>7
  <2>2. server.sent[Len(r) + 1] = <<"s", 0 + (Len(r) + 1)>>
    BY <1>3, <2>1 DEF Numbered
  <2> QED
    BY <1>2, <1>5, <1>7, <2>1, <2>2
<1> QED
  BY <1>1, <1>2, <1>5, <1>6, <1>7

(* With TLS the client gets what the server sent, in order, each piece at   *)
(* most once and nothing else: the ack stays apart from the data, and       *)
(* Tunnel implements Pipe in this direction too.                            *)
THEOREM TLSDownPipe == Spec => TLSDownIsPipe
<1> DEFINE sent == IF tls THEN server.sent ELSE <<>>
           rcvd == IF tls THEN client.rcvd ELSE <<>>
<1>1. Init => TLSDownDirection!Init
  BY DEF Init, TLSDownDirection!Init
<1>2. ASSUME DownOK, [Next]_vars
      PROVE  \/ TLSDownDirection!Send \/ TLSDownDirection!Deliver
             \/ UNCHANGED <<sent, rcvd>>
  <2>1. Base /\ Steps
    BY <1>2, StepIs DEF DownOK
  <2>2. tls' = tls
    BY <1>2 DEF Next, Proxies, Applications, InternalDial, WriteHeader, ReadAck,
                ReadHeader, ExternalDial, WriteAck, CopyRead, CopyWrite, UpEnds,
                DownEnds, Kill, ClientSend, ClientRead, ClientShutdown,
                ClientClose, ServerSend, ServerRead, ServerClose, vars
  <2>3. CASE ~tls
    BY <2>2, <2>3
  <2>4. CASE tls /\ ServerSend
    <3>1. client'.rcvd = client.rcvd
      BY <2>4 DEF ServerSend
    <3>2. PICK d \in ServerData : server'.sent = Append(server.sent, d)
      BY <2>1, <2>4, ServerSendBase
    <3>3. sent' = Append(sent, d) /\ rcvd' = rcvd
      BY <2>2, <2>4, <3>1, <3>2
    <3> QED
      BY <3>3, Zenon DEF TLSDownDirection!Send
  <2>5. CASE tls /\ ClientRead
    <3>1. server'.sent = server.sent
      BY <2>5 DEF ClientRead
    <3>2. CASE /\ Got("i2c")
               /\ client'.rcvd = Append(client.rcvd, ch["i2c"].q[1])
      <4>1. 0 \in Nat /\ DownInv(0)
        BY <1>2, <2>5, MissedIs DEF DownOK
      <4>2. /\ Len(client.rcvd) \in Nat
            /\ 0 + Len(client.rcvd) < Len(server.sent)
            /\ ch["i2c"].q[1] = server.sent[0 + Len(client.rcvd) + 1]
        BY <2>1, <3>2, <4>1, BaseStep, DownFront DEF Got
      <4>3. /\ Len(client.rcvd) < Len(server.sent)
            /\ ch["i2c"].q[1] = server.sent[Len(client.rcvd) + 1]
        BY <4>2
      <4> QED
        BY <2>2, <2>5, <3>1, <3>2, <4>3 DEF TLSDownDirection!Deliver
    <3> QED
      BY <2>1, <2>2, <2>5, <3>1, <3>2, ClientReadBase
  <2>6. CASE ~ServerSend /\ ~ClientRead
    BY <2>1, <2>2, <2>6, Ends
  <2> QED
    BY <2>3, <2>4, <2>5, <2>6
<1>3. DownOK /\ [Next]_vars =>
        [TLSDownDirection!Send \/ TLSDownDirection!Deliver]_<<sent, rcvd>>
  BY <1>2
<1> QED
  BY <1>1, <1>3, DownInvariant, PTL DEF Spec, TLSDownIsPipe, TLSDownDirection!Spec

LEMMA DropLast ==
  ASSUME NEW S, NEW q \in Seq(S), NEW m \in Nat, m <= Len(q)
  PROVE  /\ Drop(q, m) \in Seq(S) /\ Len(Drop(q, m)) = Len(q) - m
         /\ \A i \in 1 .. Len(q) - m : Drop(q, m)[i] = q[i + m]
<1>1. \A i \in 1 .. Len(q) - m : i + m \in 1 .. Len(q)
  OBVIOUS
<1> QED
  BY <1>1 DEF Drop

(* Without TLS the client misses at most the start of what the server sent, *)
(* no more than one read of the ack can hold besides it; from there on it   *)
(* gets every piece in order, each at most once, and nothing else.          *)
THEOREM OnlyStartMissing == Spec => []DownSkipsOnlyStart
<1>1. ASSUME DownOK, DownOK'
      PROVE  DownSkipsOnlyStart
  <2>1. PICK m \in Missed : DownInv(m)
    BY <1>1 DEF DownOK
  <2>2. Base /\ Base' /\ m \in Nat
    BY <1>1, MissedIs DEF DownOK
  <2> DEFINE q == Drop(server.sent, m)
             n == Len(client.rcvd)
  <2>3. /\ client.rcvd \in Seq(ServerData) /\ server.sent \in Seq(ServerData)
        /\ n \in Nat /\ Len(server.sent) \in Nat /\ m + n <= Len(server.sent)
        /\ \A i \in 1 .. n : client.rcvd[i] = server.sent[i + m]
    BY <2>1, <2>2, DownFront
  <2>4. /\ q \in Seq(ServerData) /\ Len(q) = Len(server.sent) - m
        /\ \A i \in 1 .. Len(server.sent) - m : q[i] = server.sent[i + m]
    <3>1. m <= Len(server.sent)
      BY <2>2, <2>3
    <3> QED
      BY <2>2, <2>3, <3>1, DropLast
  <2> HIDE DEF q
  <2>5. n \in 0 .. Len(q) /\ \A i \in 1 .. n : client.rcvd[i] = q[i]
    BY <2>2, <2>3, <2>4
  <2>6. client.rcvd = SubSeq(q, 1, n)
    BY <2>3, <2>4, <2>5
  <2>7. client.rcvd \in Prefixes(q)
    BY <2>5, <2>6 DEF Prefixes
  <2> QED
    BY <2>1, <2>7 DEF DownSkipsOnlyStart, q
<1> QED
  BY <1>1, DownInvariant, PTL

(* The end of the stream never overtakes data: unless a connection was      *)
(* reset or a proxy died, a client that has seen the end has everything the *)
(* server ever sent, after what the read of the ack has taken.              *)
THEOREM EndsAfterData == Spec => []EndAfterData
<1>1. ASSUME DownOK, DownOK'
      PROVE  EndAfterData
  <2> SUFFICES ASSUME client.eof, ~reset
               PROVE  \E m \in Missed : client.rcvd = Drop(server.sent, m)
    BY DEF EndAfterData
  <2>0. PICK m \in Missed : DownInv(m)
    BY <1>1 DEF DownOK
  <2>1. Base /\ Base' /\ EndInv /\ m \in Nat
    BY <1>1, MissedIs DEF DownOK
  <2>2. ch["i2c"].q = <<>> /\ pc.I = "done"
    BY <2>1 DEF EndInv, Base, EndsInv
  <2>3. pc.E \in {"none", "done"} /\ ch["e2i"].q = <<>>
    BY <2>1, <2>2 DEF EndInv, Base, EndsInv
  <2>4. ch["s2e"].q = <<>>
    BY <2>1, <2>3 DEF EndInv, Base, EndsInv, Order, Channel
  <2>5. hold["Idn"] = Nothing /\ hold["Edn"] = Nothing
    <3>1. run["Idn"] # "run" /\ run["Edn"] # "run"
      BY <2>1, <2>2, <2>3 DEF Base, Order
    <3> QED
      BY <2>1, <3>1, TypeIs DEF Base, HoldsOK
  <2>6. /\ Len(DownPlaces(m)[2]) = 0 /\ Len(DownPlaces(m)[3]) = 0
        /\ Len(DownPlaces(m)[4]) = 0 /\ Len(DownPlaces(m)[5]) = 0
        /\ Len(DownPlaces(m)[6]) = 0
    <3>1. Drop(<<>>, 1) = <<>> /\ Len(<<>>) = 0
      BY DEF Drop
    <3> QED
      BY <2>1, <2>2, <2>3, <2>4, <2>5, <3>1, DownPlacesAre, InHandIs DEF Copier
  <2>7. DownAll = "all"
    BY DEF DownAll
  <2>8. Chain("s", DownPlaces(m), DownWhole, Len(server.sent), "all")
    BY <2>0, <2>7 DEF DownInv
  <2>9. Sized(DownPlaces(m))
    BY <2>1, DownType
  <2>10. Len(Received(m, client.rcvd)) = Len(server.sent)
    BY <2>1, <2>6, <2>8, <2>9, ChainEnd, DownPlacesAre
  <2>11. /\ client.rcvd \in Seq(ServerData) /\ server.sent \in Seq(ServerData)
         /\ Len(client.rcvd) \in Nat /\ Len(server.sent) \in Nat
         /\ \A i \in 1 .. Len(client.rcvd) : client.rcvd[i] = server.sent[i + m]
    BY <2>0, <2>1, DownFront
  <2>12. m + Len(client.rcvd) = Len(server.sent)
    BY <2>1, <2>10, <2>11, ReceivedIs
  <2>13. m <= Len(server.sent) /\ Len(client.rcvd) = Len(server.sent) - m
    BY <2>1, <2>11, <2>12
  <2>14. /\ Drop(server.sent, m) \in Seq(ServerData)
         /\ Len(Drop(server.sent, m)) = Len(client.rcvd)
         /\ \A i \in 1 .. Len(client.rcvd) : Drop(server.sent, m)[i] = client.rcvd[i]
    <3>1. /\ Drop(server.sent, m) \in Seq(ServerData)
          /\ Len(Drop(server.sent, m)) = Len(server.sent) - m
          /\ \A i \in 1 .. Len(server.sent) - m : Drop(server.sent, m)[i] = server.sent[i + m]
      BY <2>1, <2>11, <2>13, DropLast
    <3> QED
      BY <2>11, <2>13, <3>1
  <2>15. client.rcvd = Drop(server.sent, m)
    BY <2>11, <2>14
  <2> QED
    BY <2>0, <2>15
<1> QED
  BY <1>1, DownInvariant, PTL
=============================================================================
