--------------------------- MODULE TunnelUpProofs ---------------------------
(* Proofs about the way up through a tunnel, from the client to the server: *)
(* it is a chain of ChainProofs, and so a pipe.                             *)
EXTENDS TunnelProofs, ChainProofs

InHand(k) == IF hold[k] = Nothing THEN <<>> ELSE <<hold[k]>>

(* The way up, from the server's end; the header is not part of it.         *)
UpPlaces ==
  <<server.rcvd, ch["e2s"].q, InHand("Eup"),
    IF pc.E \in {"none", "header"} THEN <<>> ELSE ch["i2e"].q,
    InHand("Iup"), ch["c2i"].q>>
UpWhole ==
  IF pc.E = "done" \/ ch["e2s"].dead THEN 2 ELSE IF pc.I = "done" THEN 4 ELSE 6
UpAll == IF UpWhole = 6 /\ client.st = "open" THEN "all" ELSE "some"
UpInv ==
  /\ Numbered(client.sent, "c", 0)
  /\ Chain("c", UpPlaces, UpWhole, Len(client.sent), UpAll)

-----------------------------------------------------------------------------
(* The places of a chain one by one.                                        *)

LEMMA InHandIs ==
  /\ \A k \in Copier : /\ Len(InHand(k)) = IF hold[k] = Nothing THEN 0 ELSE 1
                       /\ hold[k] = Nothing => InHand(k) = <<>>
                       /\ hold[k] # Nothing => InHand(k)[1] = hold[k]
  /\ \A k \in Copier : /\ Len(InHand(k)') = IF hold'[k] = Nothing THEN 0 ELSE 1
                       /\ hold'[k] = Nothing => InHand(k)' = <<>>
                       /\ hold'[k] # Nothing => InHand(k)'[1] = hold'[k]
  /\ \A k \in Copier : hold'[k] = hold[k] => InHand(k)' = InHand(k)
  BY DEF InHand

LEMMA SameUpToIs ==
  ASSUME NEW p, NEW r, NEW v \in 2 .. 6,
         r[1] = p[1],
         2 < v => r[2] = p[2], 3 < v => r[3] = p[3],
         4 < v => r[4] = p[4], 5 < v => r[5] = p[5]
  PROVE  SameUpTo(p, r, v)
<1> SUFFICES ASSUME NEW i \in 1 .. 6, i < v PROVE r[i] = p[i]
  BY DEF SameUpTo
<1>1. i = 1 \/ i = 2 \/ i = 3 \/ i = 4 \/ i = 5
  OBVIOUS
<1> QED
  BY <1>1

LEMMA PrefixSelf ==
  ASSUME NEW q, Len(q) \in Nat
  PROVE  Prefix(q, q)
  BY DEF Prefix

LEMMA UpPlacesAre ==
  /\ UpPlaces[1] = server.rcvd /\ UpPlaces[2] = ch["e2s"].q
  /\ UpPlaces[3] = InHand("Eup")
  /\ UpPlaces[4] = IF pc.E \in {"none", "header"} THEN <<>> ELSE ch["i2e"].q
  /\ UpPlaces[5] = InHand("Iup") /\ UpPlaces[6] = ch["c2i"].q
  /\ UpPlaces'[1] = server'.rcvd /\ UpPlaces'[2] = ch'["e2s"].q
  /\ UpPlaces'[3] = InHand("Eup")'
  /\ UpPlaces'[4] = IF pc'.E \in {"none", "header"} THEN <<>> ELSE ch'["i2e"].q
  /\ UpPlaces'[5] = InHand("Iup")' /\ UpPlaces'[6] = ch'["c2i"].q
  BY DEF UpPlaces

LEMMA UpType ==
  ASSUME Base, Base'
  PROVE  /\ Sized(UpPlaces) /\ Sized(UpPlaces')
         /\ UpWhole \in {2, 4, 6} /\ UpWhole' \in {2, 4, 6}
         /\ Len(client.sent) \in Nat /\ Len(client'.sent) \in Nat
         /\ client.sent \in Seq(ClientData) /\ client'.sent \in Seq(ClientData)
<1>1. /\ client \in ClientRec /\ server \in ServerRec /\ ch \in [Channel -> ChanRec]
  BY TypeIs DEF Base
<1>2. /\ client' \in ClientRec /\ server' \in ServerRec /\ ch' \in [Channel -> ChanRec]
  BY DEF Base, TypeOK, ClientRec, ServerRec, ChanRec
<1>3. \A c \in Channel : Len(ch[c].q) \in Nat /\ Len(ch'[c].q) \in Nat
  BY <1>1, <1>2, LenType
<1>4. /\ client.sent \in Seq(ClientData) /\ client'.sent \in Seq(ClientData)
      /\ server.rcvd \in Seq(ClientData) /\ server'.rcvd \in Seq(ClientData)
  BY <1>1, <1>2 DEF ClientRec, ServerRec
<1>5. /\ Len(client.sent) \in Nat /\ Len(client'.sent) \in Nat
      /\ Len(server.rcvd) \in Nat /\ Len(server'.rcvd) \in Nat /\ Len(<<>>) \in Nat
  BY <1>4
<1>6. \A k \in Copier : Len(InHand(k)) \in Nat /\ Len(InHand(k)') \in Nat
  BY InHandIs
<1>7. /\ Len(UpPlaces[1]) \in Nat /\ Len(UpPlaces[2]) \in Nat /\ Len(UpPlaces[3]) \in Nat
      /\ Len(UpPlaces[4]) \in Nat /\ Len(UpPlaces[5]) \in Nat /\ Len(UpPlaces[6]) \in Nat
  BY <1>3, <1>5, <1>6, UpPlacesAre DEF Channel, Copier
<1>8. /\ Len(UpPlaces'[1]) \in Nat /\ Len(UpPlaces'[2]) \in Nat /\ Len(UpPlaces'[3]) \in Nat
      /\ Len(UpPlaces'[4]) \in Nat /\ Len(UpPlaces'[5]) \in Nat /\ Len(UpPlaces'[6]) \in Nat
  BY <1>3, <1>5, <1>6, UpPlacesAre DEF Channel, Copier
<1>9. \A i \in 1 .. 6 : i = 1 \/ i = 2 \/ i = 3 \/ i = 4 \/ i = 5 \/ i = 6
  OBVIOUS
<1> QED
  BY <1>4, <1>5, <1>7, <1>8, <1>9 DEF Sized, UpWhole

(* Pieces on the way up are lost.                                           *)
LEMMA UpLower ==
  ASSUME Base, Base', UpInv,
         UpWhole' <= UpWhole,
         SameUpTo(UpPlaces, UpPlaces', UpWhole'),
         Prefix(UpPlaces[UpWhole'], UpPlaces'[UpWhole']),
         Len(client.sent) <= Len(client'.sent), Numbered(client'.sent, "c", 0),
         UpAll' # "all"
  PROVE  UpInv'
<1>1. /\ Sized(UpPlaces) /\ Sized(UpPlaces')
      /\ UpWhole \in 2 .. 6 /\ UpWhole' \in 2 .. 6
      /\ Len(client.sent) \in Nat /\ Len(client'.sent) \in Nat
  BY UpType
<1>2. Chain("c", UpPlaces, UpWhole, Len(client.sent), UpAll)
  BY DEF UpInv
<1>3. Chain("c", UpPlaces', UpWhole', Len(client'.sent), UpAll')
  BY <1>1, <1>2, LowerChain
<1> QED
  BY <1>3 DEF UpInv

(* Nothing happens on the way up.                                           *)
LEMMA UpInert ==
  ASSUME Base, Base', UpInv, UpPlaces' = UpPlaces, UpWhole' = UpWhole,
         client'.sent = client.sent, UpAll' = "all" => UpAll = "all"
  PROVE  UpInv'
<1>1. /\ Sized(UpPlaces) /\ Sized(UpPlaces')
      /\ UpWhole \in 2 .. 6 /\ UpWhole' \in 2 .. 6
      /\ Len(client.sent) \in Nat /\ Len(client'.sent) \in Nat
  BY UpType
<1>2. Chain("c", UpPlaces, UpWhole, Len(client.sent), UpAll)
  BY DEF UpInv
<1>3. /\ SameUpTo(UpPlaces, UpPlaces', UpWhole') /\ SameLens(UpPlaces, UpPlaces')
      /\ Prefix(UpPlaces[UpWhole'], UpPlaces'[UpWhole'])
  BY <1>1, PrefixSelf DEF SameUpTo, SameLens, Sized
<1>4. UpWhole' <= UpWhole /\ Len(client.sent) <= Len(client'.sent)
  BY <1>1
<1>5. Chain("c", UpPlaces', UpWhole', Len(client'.sent), UpAll')
  BY <1>1, <1>2, <1>3, <1>4, LowerChain
<1> QED
  BY <1>5 DEF UpInv

(* A piece goes one place further up.                                       *)
LEMMA UpMove ==
  ASSUME Base, Base', UpInv, NEW i \in 1 .. 5, i # UpWhole,
         Taken(UpPlaces[i + 1], UpPlaces'[i + 1]),
         Added(UpPlaces[i], UpPlaces'[i], UpPlaces[i + 1][1]),
         SameBut(UpPlaces, UpPlaces', i),
         UNCHANGED <<pc, client>>, ch'["e2s"].dead = ch["e2s"].dead
  PROVE  UpInv'
<1>1. /\ Sized(UpPlaces) /\ Sized(UpPlaces') /\ UpWhole \in 2 .. 6
      /\ Len(client.sent) \in Nat
  BY UpType
<1>2. Chain("c", UpPlaces, UpWhole, Len(client.sent), UpAll)
  BY DEF UpInv
<1>3. Chain("c", UpPlaces', UpWhole, Len(client.sent), UpAll)
  BY <1>1, <1>2, MoveChain
<1>4. UpWhole' = UpWhole /\ UpAll' = UpAll /\ client'.sent = client.sent
  BY DEF UpWhole, UpAll
<1> QED
  BY <1>3, <1>4 DEF UpInv

LEMMA UpSame ==
  ASSUME Base, Base', UpInv,
         server'.rcvd = server.rcvd, client'.sent = client.sent,
         client'.st = client.st \/ client'.st # "open",
         ch'["e2s"].q = ch["e2s"].q, ch'["c2i"].q = ch["c2i"].q,
         ch'["e2s"].dead = ch["e2s"].dead,
         hold'["Eup"] = hold["Eup"], hold'["Iup"] = hold["Iup"],
         UpPlaces'[4] = UpPlaces[4],
         pc'.E = "done" <=> pc.E = "done", pc'.I = "done" <=> pc.I = "done"
  PROVE  UpInv'
<1>1. /\ UpPlaces'[1] = UpPlaces[1] /\ UpPlaces'[2] = UpPlaces[2]
      /\ UpPlaces'[3] = UpPlaces[3] /\ UpPlaces'[4] = UpPlaces[4]
      /\ UpPlaces'[5] = UpPlaces[5] /\ UpPlaces'[6] = UpPlaces[6]
  BY UpPlacesAre, InHandIs DEF Copier
<1>2. UpPlaces' = UpPlaces
  BY <1>1 DEF UpPlaces
<1>3. UpWhole' = UpWhole /\ (UpAll' = "all" => UpAll = "all")
  BY DEF UpWhole, UpAll
<1> QED
  BY <1>2, <1>3, UpInert

LEMMA UpHandshake ==
  ASSUME Base, Base', UpInv,
         \/ Dialled \/ WriteHeader \/ ReadAck \/ HeaderRead \/ ServerDialled
         \/ WriteAck \/ UNCHANGED vars
  PROVE  UpInv'
<1>1. /\ "c2i" \in Channel /\ "i2c" \in Channel /\ "i2e" \in Channel
      /\ "e2i" \in Channel /\ "e2s" \in Channel /\ "s2e" \in Channel
      /\ Header \in Piece /\ Ack \in Piece /\ TypeOK
      /\ ch \in [Channel -> ChanRec] /\ pc \in PcRec
  BY TypeIs DEF Channel, Piece, Base
<1>2. CASE Dialled \/ UNCHANGED vars
  <2>1. pc'.E = pc.E \/ (pc'.E = "header" /\ pc.E = "none")
    BY <1>1, <1>2 DEF Dialled, PcRec, Base, Order, vars
  <2>2. pc'.I = pc.I \/ (pc'.I = "header" /\ pc.I = "dial")
    BY <1>1, <1>2 DEF Dialled, PcRec, vars
  <2>3. UNCHANGED <<ch, hold, client, server>>
    BY <1>2 DEF Dialled, vars
  <2>4. UpPlaces'[4] = UpPlaces[4]
    BY <2>1, <2>3, UpPlacesAre
  <2> QED
    BY <2>1, <2>2, <2>3, <2>4, UpSame
<1>3. CASE WriteHeader
  <2>1. /\ pc.I = "header" /\ pc'.I = "ack" /\ pc'.E = pc.E
        /\ UNCHANGED <<hold, client, server>>
        /\ ch' \in Writes("i2e", Header)
    BY <1>1, <1>3 DEF WriteHeader, PcRec
  <2>2. \/ Put("i2e", Header) /\ Others(ch, ch', {"i2e"})
        \/ Refused("i2e") /\ Others(ch, ch', {"i2e", "e2i"})
    BY <1>1, <2>1, WritesEffect, BackIs
  <2>3. ch'["e2s"] = ch["e2s"] /\ ch'["c2i"] = ch["c2i"]
    BY <1>1, <2>2 DEF Others
  <2>4. pc.E \in {"none", "header"} \/ ch'["i2e"].q = ch["i2e"].q
    BY <2>1, <2>2 DEF Base, EndsInv, Order, Put, Refused
  <2>5. UpPlaces'[4] = UpPlaces[4]
    BY <2>1, <2>4, UpPlacesAre
  <2> QED
    BY <2>1, <2>3, <2>5, UpSame
<1>4. CASE ReadAck
  <2>1. /\ pc.I = "ack" /\ pc'.I = "copy" /\ pc'.E = pc.E
        /\ UNCHANGED <<hold, client, server>>
    BY <1>1, <1>4 DEF ReadAck, StartCopies, PcRec
  <2>2. Others(ch, ch', {"e2i"})
    <3>1. CASE UNCHANGED ch
      BY <3>1 DEF Others
    <3>2. ASSUME ch["e2i"].q # <<>>, NEW n \in ReadSizes(ch["e2i"].q),
                 ch' = [ch EXCEPT !["e2i"].q = Drop(@, n)]
          PROVE  Others(ch, ch', {"e2i"})
      BY <1>1, <3>2, DropEffect
    <3> QED
      BY <1>4, <3>1, <3>2 DEF ReadAck
  <2>3. /\ ch'["e2s"] = ch["e2s"] /\ ch'["c2i"] = ch["c2i"] /\ ch'["i2e"] = ch["i2e"]
    BY <1>1, <2>2 DEF Others
  <2>4. UpPlaces'[4] = UpPlaces[4]
    BY <2>1, <2>3, UpPlacesAre
  <2> QED
    BY <2>1, <2>3, <2>4, UpSame
<1>5. CASE HeaderRead
  <2>1. PICK n \in ReadSizes(ch["i2e"].q) : ch' = [ch EXCEPT !["i2e"].q = Drop(@, n)]
    BY <1>5 DEF HeaderRead
  <2>2. ch'["i2e"].q = <<>> /\ Others(ch, ch', {"i2e"})
    BY <1>5, <2>1, ReadHeaderBase DEF HeaderRead
  <2>3. /\ pc.E = "header" /\ pc'.E = "dial" /\ pc'.I = pc.I
        /\ UNCHANGED <<hold, client, server>>
    BY <1>1, <1>5 DEF HeaderRead, PcRec
  <2>4. ch'["e2s"] = ch["e2s"] /\ ch'["c2i"] = ch["c2i"]
    BY <1>1, <2>2 DEF Others
  <2>5. UpPlaces'[4] = UpPlaces[4]
    BY <2>2, <2>3, UpPlacesAre
  <2> QED
    BY <2>3, <2>4, <2>5, UpSame
<1>6. CASE ServerDialled
  <2>1. /\ pc.E = "dial" /\ pc'.E = "ack" /\ pc'.I = pc.I
        /\ UNCHANGED <<ch, hold, client>>
    BY <1>1, <1>6 DEF ServerDialled, PcRec
  <2>2. server'.rcvd = server.rcvd
    BY <1>1, <1>6, TypeIs DEF ServerDialled, ServerRec
  <2>3. UpPlaces'[4] = UpPlaces[4]
    BY <2>1, UpPlacesAre
  <2> QED
    BY <2>1, <2>2, <2>3, UpSame
<1>7. CASE WriteAck
  <2>1. /\ pc.E = "ack" /\ pc'.E = "copy" /\ pc'.I = pc.I
        /\ UNCHANGED <<hold, client, server>>
        /\ ch' \in Writes("e2i", Ack)
    BY <1>1, <1>7 DEF WriteAck, StartCopies, PcRec
  <2>2. /\ ch' \in [Channel -> ChanRec]
        /\ \/ Put("e2i", Ack) /\ Others(ch, ch', {"e2i"})
           \/ Refused("e2i") /\ Others(ch, ch', {"e2i", "i2e"})
    BY <1>1, <2>1, WritesEffect, BackIs
  <2>3. ch'["e2s"] = ch["e2s"] /\ ch'["c2i"] = ch["c2i"]
    BY <1>1, <2>2 DEF Others
  <2>4. ch["i2e"].q = <<>>
    BY <2>1 DEF Base, HeaderAlone, HeaderOK
  <2>5. ch'["i2e"].q = <<>>
    <3>1. CASE Others(ch, ch', {"e2i"})
      BY <1>1, <2>4, <3>1 DEF Others
    <3>2. CASE Refused("e2i")
      <4>1. Len(ch'["i2e"].q) <= Len(ch["i2e"].q)
        BY <3>2, BackIs DEF Refused, Cut
      <4>2. /\ Len(ch["i2e"].q) = 0 /\ Len(ch'["i2e"].q) \in Nat
            /\ ch'["i2e"].q = <<>> <=> Len(ch'["i2e"].q) = 0
        BY <1>1, <2>2, <2>4, LenType
      <4> QED
        BY <4>1, <4>2
    <3> QED
      BY <2>2, <3>1, <3>2
  <2>6. UpPlaces'[4] = UpPlaces[4]
    BY <2>1, <2>4, <2>5, UpPlacesAre
  <2> QED
    BY <2>1, <2>3, <2>6, UpSame
<1> QED
  BY <1>2, <1>3, <1>4, <1>5, <1>6, <1>7

LEMMA SameButIs ==
  ASSUME NEW p, NEW r, NEW i \in 1 .. 5,
         i \notin {1} => r[1] = p[1], i \notin {1, 2} => r[2] = p[2],
         i \notin {2, 3} => r[3] = p[3], i \notin {3, 4} => r[4] = p[4],
         i \notin {4, 5} => r[5] = p[5], i \notin {5} => r[6] = p[6]
  PROVE  SameBut(p, r, i)
<1> SUFFICES ASSUME NEW j \in 1 .. 6, j # i, j # i + 1 PROVE r[j] = p[j]
  BY DEF SameBut
<1>1. j = 1 \/ j = 2 \/ j = 3 \/ j = 4 \/ j = 5 \/ j = 6
  OBVIOUS
<1> QED
  BY <1>1

LEMMA QueueMoves ==
  ASSUME NEW c \in Channel
  PROVE  /\ Got(c) => Taken(ch[c].q, ch'[c].q)
         /\ \A v : Put(c, v) => Added(ch[c].q, ch'[c].q, v)
  BY DEF Got, Put, Taken, Added

LEMMA HandMoves ==
  ASSUME NEW k \in Copier
  PROVE  /\ hold[k] # Nothing /\ hold'[k] = Nothing =>
              Taken(InHand(k), InHand(k)') /\ InHand(k)[1] = hold[k]
         /\ hold[k] = Nothing /\ hold'[k] # Nothing =>
              Added(InHand(k), InHand(k)', hold'[k])
<1>1. ASSUME hold[k] # Nothing, hold'[k] = Nothing
      PROVE  Taken(InHand(k), InHand(k)') /\ InHand(k)[1] = hold[k]
  BY <1>1 DEF InHand, Taken
<1>2. ASSUME hold[k] = Nothing, hold'[k] # Nothing
      PROVE  Added(InHand(k), InHand(k)', hold'[k])
  <2>1. Len(InHand(k)) = 0 /\ Len(InHand(k)') = 1 /\ InHand(k)'[1] = hold'[k]
    BY <1>2, InHandIs
  <2> QED
    BY <2>1 DEF Added
<1> QED
  BY <1>1, <1>2

LEMMA UpCopyRead ==
  ASSUME Base, Base', UpInv, NEW k \in Copier, CopyRead(k)
  PROVE  UpInv'
<1>1. /\ Got(From[k]) /\ Others(ch, ch', {From[k]})
      /\ hold'[k] = ch[From[k]].q[1] /\ hold[k] = Nothing
      /\ \A o \in Copier \ {k} : hold'[o] = hold[o]
      /\ pc[Side[k]] = "copy" /\ UNCHANGED <<pc, client, server>>
  BY CopyReadBase DEF CopyRead
<1>2. /\ \A c \in Channel : From[k] # c => ch'[c] = ch[c]
      /\ "c2i" \in Channel /\ "i2e" \in Channel /\ "e2s" \in Channel
      /\ "Iup" \in Copier /\ "Eup" \in Copier
  BY <1>1 DEF Others, Channel, Copier
<1>3. hold'[k] # Nothing
  <2>1. run'[k] = run[k] /\ hold'[k] \in (Carries[From[k]] \cap Carries[To[k]])\cup {Nothing}
    BY DEF Base, TypeOK, CopyRead
  <2>2. From[k] \in Channel /\ 1 \in 1 .. Len(ch[From[k]].q)
    BY <1>1, TypeIs, RolesAre DEF Base, Got, Copier, Channel
  <2>3. ch[From[k]].q[1] \in Carries[From[k]]
    BY <2>2, TypeIs, QueuesAll DEF Base, Queue
  <2>4. Nothing \notin Carries[From[k]]
    BY RolesAre, CarriesAre, PiecesDiffer DEF Copier
  <2> QED
    BY <1>1, <2>3, <2>4
<1>4. CASE k \in {"Idn", "Edn"}
  <2>1. From[k] \in {"e2i", "s2e"}
    BY <1>4, RolesAre
  <2>2. /\ ch'["c2i"] = ch["c2i"] /\ ch'["i2e"] = ch["i2e"] /\ ch'["e2s"] = ch["e2s"]
        /\ hold'["Iup"] = hold["Iup"] /\ hold'["Eup"] = hold["Eup"]
    BY <1>1, <1>2, <1>4, <2>1
  <2>3. UpPlaces'[4] = UpPlaces[4]
    BY <1>1, <2>2, UpPlacesAre
  <2> QED
    BY <1>1, <2>2, <2>3, UpSame
<1>5. CASE k = "Iup"
  <2>1. /\ Taken(ch["c2i"].q, ch'["c2i"].q)
        /\ Added(InHand("Iup"), InHand("Iup")', ch["c2i"].q[1])
        /\ ch'["i2e"] = ch["i2e"] /\ ch'["e2s"] = ch["e2s"]
        /\ hold'["Eup"] = hold["Eup"]
    BY <1>1, <1>2, <1>3, <1>5, RolesAre, QueueMoves, HandMoves DEF Copier
  <2>2. InHand("Eup")' = InHand("Eup")
    BY <1>2, <2>1, InHandIs
  <2>3. SameBut(UpPlaces, UpPlaces', 5)
    BY <1>1, <2>1, <2>2, UpPlacesAre, SameButIs
  <2>4. 5 # UpWhole /\ 5 \in 1 .. 5 /\ 5 + 1 = 6
    BY DEF UpWhole
  <2>5. /\ Taken(UpPlaces[5 + 1], UpPlaces'[5 + 1])
        /\ Added(UpPlaces[5], UpPlaces'[5], UpPlaces[5 + 1][1])
    BY <2>1, <2>4, UpPlacesAre
  <2> QED
    BY <1>1, <2>1, <2>3, <2>4, <2>5, UpMove
<1>6. CASE k = "Eup"
  <2>1. /\ Taken(ch["i2e"].q, ch'["i2e"].q)
        /\ Added(InHand("Eup"), InHand("Eup")', ch["i2e"].q[1])
        /\ ch'["c2i"] = ch["c2i"] /\ ch'["e2s"] = ch["e2s"]
        /\ hold'["Iup"] = hold["Iup"] /\ pc.E = "copy"
    BY <1>1, <1>2, <1>3, <1>6, RolesAre, QueueMoves, HandMoves DEF Copier
  <2>2. InHand("Iup")' = InHand("Iup")
    BY <1>2, <2>1, InHandIs
  <2>3. SameBut(UpPlaces, UpPlaces', 3)
    BY <1>1, <2>1, <2>2, UpPlacesAre, SameButIs
  <2>4. 3 # UpWhole /\ 3 \in 1 .. 5 /\ 3 + 1 = 4
    BY DEF UpWhole
  <2>5. /\ Taken(UpPlaces[3 + 1], UpPlaces'[3 + 1])
        /\ Added(UpPlaces[3], UpPlaces'[3], UpPlaces[3 + 1][1])
    BY <1>1, <2>1, <2>4, UpPlacesAre
  <2> QED
    BY <1>1, <2>1, <2>3, <2>4, <2>5, UpMove
<1> QED
  BY <1>4, <1>5, <1>6 DEF Copier

LEMMA UpCopyWrite ==
  ASSUME Base, Base', UpInv, NEW k \in Copier, CopyWrite(k)
  PROVE  UpInv'
<1>1. /\ \/ Put(To[k], hold[k]) /\ Others(ch, ch', {To[k]})
         \/ Refused(To[k]) /\ Others(ch, ch', {To[k], Back[To[k]]})
      /\ hold[k] # Nothing /\ hold'[k] = Nothing
      /\ \A o \in Copier \ {k} : hold'[o] = hold[o]
      /\ pc[Side[k]] = "copy" /\ UNCHANGED <<pc, client, server>>
  BY CopyWriteBase DEF CopyWrite
<1>2. /\ "c2i" \in Channel /\ "i2e" \in Channel /\ "e2s" \in Channel
      /\ "Iup" \in Copier /\ "Eup" \in Copier
      /\ UpWhole \in {2, 4, 6} /\ UpWhole' \in {2, 4, 6}
      /\ Sized(UpPlaces) /\ Sized(UpPlaces')
  BY UpType DEF Channel, Copier
<1>3. CASE k = "Eup" /\ Put(To[k], hold[k])
  <2>1. /\ Added(ch["e2s"].q, ch'["e2s"].q, hold["Eup"])
        /\ Taken(InHand("Eup"), InHand("Eup")') /\ InHand("Eup")[1] = hold["Eup"]
        /\ hold'["Iup"] = hold["Iup"] /\ ~ch["e2s"].dead
        /\ ch'["e2s"].dead = ch["e2s"].dead /\ pc.E = "copy"
    BY <1>1, <1>2, <1>3, RolesAre, QueueMoves, HandMoves DEF Copier, Put, Flags
  <2>2. ch'["c2i"] = ch["c2i"] /\ ch'["i2e"] = ch["i2e"]
    BY <1>1, <1>2, <1>3, <2>1, RolesAre DEF Others, Refused
  <2>3. InHand("Iup")' = InHand("Iup")
    BY <1>2, <2>1, InHandIs
  <2>4. SameBut(UpPlaces, UpPlaces', 2)
    BY <1>1, <2>1, <2>2, <2>3, UpPlacesAre, SameButIs
  <2>5. 2 # UpWhole /\ 2 \in 1 .. 5 /\ 2 + 1 = 3
    BY <2>1 DEF UpWhole
  <2>6. /\ Taken(UpPlaces[2 + 1], UpPlaces'[2 + 1])
        /\ Added(UpPlaces[2], UpPlaces'[2], UpPlaces[2 + 1][1])
    BY <2>1, <2>5, UpPlacesAre
  <2> QED
    BY <1>1, <2>1, <2>4, <2>5, <2>6, UpMove
<1>4. CASE k = "Iup" /\ Put(To[k], hold[k])
  <2>1. /\ Added(ch["i2e"].q, ch'["i2e"].q, hold["Iup"])
        /\ Taken(InHand("Iup"), InHand("Iup")') /\ InHand("Iup")[1] = hold["Iup"]
        /\ hold'["Eup"] = hold["Eup"] /\ ~ch["i2e"].dead /\ pc.I = "copy"
    BY <1>1, <1>2, <1>4, RolesAre, QueueMoves, HandMoves DEF Copier, Put
  <2>2. ch'["c2i"] = ch["c2i"] /\ ch'["e2s"] = ch["e2s"]
    BY <1>1, <1>2, <1>4, <2>1, RolesAre DEF Others, Refused
  <2>3. InHand("Eup")' = InHand("Eup")
    BY <1>2, <2>1, InHandIs
  <2>4. SameBut(UpPlaces, UpPlaces', 4)
    BY <1>1, <2>1, <2>2, <2>3, UpPlacesAre, SameButIs
  <2>5. 4 # UpWhole /\ 4 \in 1 .. 5 /\ 4 + 1 = 5
    BY <2>1 DEF UpWhole
  <2>6. pc.E = "copy" \/ pc.E = "done"
    BY <2>1 DEF Base, Order
  <2>7. /\ Taken(UpPlaces[4 + 1], UpPlaces'[4 + 1])
        /\ Added(UpPlaces[4], UpPlaces'[4], UpPlaces[4 + 1][1])
    BY <1>1, <2>1, <2>5, <2>6, UpPlacesAre
  <2> QED
    BY <1>1, <2>1, <2>2, <2>4, <2>5, <2>7, UpMove
<1>5. CASE k \in {"Idn", "Edn"} /\ Put(To[k], hold[k])
  <2>1. To[k] \in {"i2c", "e2i"}
    BY <1>5, RolesAre
  <2>2. ~ch[To[k]].dead
    BY <1>5 DEF Put
  <2>3. Others(ch, ch', {To[k]})
    BY <1>1, <2>2 DEF Refused
  <2>4. /\ ch'["c2i"] = ch["c2i"] /\ ch'["i2e"] = ch["i2e"] /\ ch'["e2s"] = ch["e2s"]
        /\ hold'["Iup"] = hold["Iup"] /\ hold'["Eup"] = hold["Eup"]
    BY <1>1, <1>2, <1>5, <2>1, <2>3 DEF Others
  <2>5. UpPlaces'[4] = UpPlaces[4]
    BY <1>1, <2>4, UpPlacesAre
  <2> QED
    BY <1>1, <2>4, <2>5, UpSame
<1>6. CASE /\ Refused(To[k]) /\ Others(ch, ch', {To[k], Back[To[k]]})
  <2>1. /\ ch[To[k]].dead /\ ch'[To[k]].q = ch[To[k]].q /\ ch'[To[k]].dead
        /\ Cut(ch, ch', Back[To[k]]) /\ Flags(ch, ch', Back[To[k]])
    BY <1>6 DEF Refused
  <2>2. server'.rcvd = server.rcvd /\ client'.sent = client.sent
    BY <1>1
  <2>3. CASE k = "Eup"
    <3>1. /\ ch["e2s"].dead /\ ch'["e2s"].q = ch["e2s"].q /\ ch'["e2s"].dead
      BY <2>1, <2>3, RolesAre
    <3>2. UpWhole = 2 /\ UpWhole' = 2 /\ UpAll' # "all"
      BY <3>1 DEF UpWhole, UpAll
    <3>3. SameUpTo(UpPlaces, UpPlaces', 2) /\ UpPlaces'[2] = UpPlaces[2]
      BY <2>2, <3>1, UpPlacesAre, SameUpToIs
    <3> QED
      BY <1>2, <2>2, <3>2, <3>3, UpType, PrefixSelf, UpLower DEF Sized, UpInv
  <2>4. CASE k = "Iup"
    <3>1. ch["i2e"].dead
      BY <2>1, <2>4, RolesAre
    <3>2. /\ ch'["e2s"] = ch["e2s"]
      BY <1>2, <1>6, <2>4, RolesAre, BackIs DEF Others
    <3>3. pc.E = "done"
      BY <3>1 DEF Base, EndsInv
    <3>4. UpWhole = 2 /\ UpWhole' = 2 /\ UpAll' # "all"
      BY <1>1, <3>3 DEF UpWhole, UpAll
    <3>5. SameUpTo(UpPlaces, UpPlaces', 2) /\ UpPlaces'[2] = UpPlaces[2]
      BY <2>2, <3>2, UpPlacesAre, SameUpToIs
    <3> QED
      BY <1>2, <2>2, <3>4, <3>5, UpType, PrefixSelf, UpLower DEF Sized, UpInv
  <2>5. CASE k = "Idn"
    <3>1. /\ ch'["e2s"] = ch["e2s"] /\ ch'["i2e"] = ch["i2e"]
          /\ ch["i2c"].dead /\ Cut(ch, ch', "c2i")
          /\ hold'["Eup"] = hold["Eup"] /\ hold'["Iup"] = hold["Iup"]
      BY <1>1, <1>2, <1>6, <2>1, <2>5, RolesAre, BackIs DEF Others
    <3>2. client.st # "open"
      BY <3>1 DEF Base, EndsInv
    <3>3. UpWhole' = UpWhole /\ UpAll' # "all"
      BY <1>1, <3>1, <3>2 DEF UpWhole, UpAll
    <3>4. /\ UpPlaces'[1] = UpPlaces[1] /\ UpPlaces'[2] = UpPlaces[2]
          /\ UpPlaces'[3] = UpPlaces[3] /\ UpPlaces'[4] = UpPlaces[4]
          /\ UpPlaces'[5] = UpPlaces[5] /\ Prefix(UpPlaces[6], UpPlaces'[6])
      BY <1>1, <1>2, <2>2, <3>1, UpPlacesAre, InHandIs DEF Cut, Prefix
    <3>5. SameUpTo(UpPlaces, UpPlaces', UpWhole')
      BY <1>2, <3>4, SameUpToIs
    <3>6. Prefix(UpPlaces[UpWhole'], UpPlaces'[UpWhole'])
      BY <1>2, <3>4, PrefixSelf DEF Sized
    <3> QED
      BY <1>2, <2>2, <3>3, <3>5, <3>6, UpType, UpLower DEF UpInv
  <2>6. CASE k = "Edn"
    <3>1. /\ ch'["e2s"] = ch["e2s"] /\ ch'["c2i"] = ch["c2i"]
          /\ ch["e2i"].dead /\ Cut(ch, ch', "i2e") /\ pc.E = "copy"
          /\ hold'["Eup"] = hold["Eup"]
      BY <1>1, <1>2, <1>6, <2>1, <2>6, RolesAre, BackIs DEF Others
    <3>2. pc.I = "done"
      BY <3>1 DEF Base, EndsInv
    <3>3. UpWhole' = UpWhole /\ UpWhole \in {2, 4} /\ UpAll' # "all"
      BY <1>1, <3>1, <3>2 DEF UpWhole, UpAll
    <3>4. /\ UpPlaces'[1] = UpPlaces[1] /\ UpPlaces'[2] = UpPlaces[2]
          /\ UpPlaces'[3] = UpPlaces[3] /\ Prefix(UpPlaces[4], UpPlaces'[4])
      BY <1>1, <1>2, <2>2, <3>1, UpPlacesAre, InHandIs DEF Cut, Prefix
    <3>5. SameUpTo(UpPlaces, UpPlaces', UpWhole')
      BY <1>2, <3>3, <3>4, SameUpToIs
    <3>6. Prefix(UpPlaces[UpWhole'], UpPlaces'[UpWhole'])
      BY <1>2, <3>3, <3>4, PrefixSelf DEF Sized
    <3> QED
      BY <1>2, <2>2, <3>3, <3>5, <3>6, UpType, UpLower DEF UpInv
  <2> QED
    BY <2>3, <2>4, <2>5, <2>6 DEF Copier
<1> QED
  BY <1>1, <1>3, <1>4, <1>5, <1>6 DEF Copier

(* The same, place by place.                                                *)
LEMMA UpLoses ==
  ASSUME Base, Base', UpInv, UpWhole' <= UpWhole, UpAll' # "all",
         Len(client.sent) <= Len(client'.sent), Numbered(client'.sent, "c", 0),
         server'.rcvd = server.rcvd,
         2 < UpWhole' => ch'["e2s"].q = ch["e2s"].q /\ hold'["Eup"] = hold["Eup"],
         4 < UpWhole' => UpPlaces'[4] = UpPlaces[4] /\ hold'["Iup"] = hold["Iup"],
         Prefix(UpPlaces[UpWhole'], UpPlaces'[UpWhole'])
  PROVE  UpInv'
<1>1. UpWhole' \in {2, 4, 6} /\ "Eup" \in Copier /\ "Iup" \in Copier
  BY UpType DEF Copier
<1>2. UpWhole' \in 2 .. 6
  BY <1>1
<1>3. /\ UpPlaces'[1] = UpPlaces[1]
      /\ 2 < UpWhole' => UpPlaces'[2] = UpPlaces[2] /\ UpPlaces'[3] = UpPlaces[3]
      /\ 4 < UpWhole' => UpPlaces'[4] = UpPlaces[4] /\ UpPlaces'[5] = UpPlaces[5]
  BY <1>1, UpPlacesAre, InHandIs
<1>4. SameUpTo(UpPlaces, UpPlaces', UpWhole')
  <2>1. 3 < UpWhole' => 2 < UpWhole'
    BY <1>1
  <2>2. 5 < UpWhole' => 4 < UpWhole'
    BY <1>1
  <2> QED
    BY <1>2, <1>3, <2>1, <2>2, SameUpToIs
<1> QED
  BY <1>4, UpLower

LEMMA UpUpEnds ==
  ASSUME Base, Base', UpInv, NEW p \in {"I", "E"}, UpEnds(p)
  PROVE  UpInv'
<1>1. /\ hold'[Up[p]] = Nothing
      /\ \A o \in Copier \ {Up[p]} : hold'[o] = hold[o]
      /\ UNCHANGED <<pc, ch, client, server>>
  BY UpEndsBase DEF UpEnds
<1>2. /\ UpPlaces'[4] = UpPlaces[4] /\ UpWhole' = UpWhole /\ UpAll' = UpAll
      /\ UpWhole \in {2, 4, 6} /\ Sized(UpPlaces)
      /\ Len(client.sent) \in Nat
  BY <1>1, UpPlacesAre, UpType DEF UpWhole, UpAll
<1>3. CASE hold[Up[p]] = Nothing
  <2>1. hold'["Iup"] = hold["Iup"] /\ hold'["Eup"] = hold["Eup"]
    BY <1>1, <1>3, RolesAre DEF Copier
  <2> QED
    BY <1>1, <1>2, <2>1, UpSame
<1>4. CASE hold[Up[p]] # Nothing
  <2>1. ch[To[Up[p]]].rst \/ pc[p] = "done"
    BY <1>4 DEF UpEnds
  <2>2. CASE p = "I"
    <3>1. pc.I = "done" \/ pc.E = "done"
      BY <2>1, <2>2, RolesAre DEF Base, EndsInv, Channel
    <3>2. UpWhole \in {2, 4} /\ UpAll # "all"
      BY <3>1 DEF UpWhole, UpAll
    <3>3. hold'["Eup"] = hold["Eup"]
      BY <1>1, <2>2, RolesAre DEF Copier
    <3>4. Prefix(UpPlaces[UpWhole], UpPlaces'[UpWhole])
      <4>1. UpPlaces'[2] = UpPlaces[2]
        BY <1>1, UpPlacesAre
      <4> QED
        BY <1>2, <3>2, <4>1, PrefixSelf DEF Sized
    <3> QED
      BY <1>1, <1>2, <3>2, <3>3, <3>4, UpLoses DEF UpInv
  <2>3. CASE p = "E"
    <3>1. ch["e2s"].dead \/ pc.E = "done"
      BY <2>1, <2>3, RolesAre DEF Base, EndsInv, Channel
    <3>2. UpWhole = 2 /\ UpAll # "all"
      BY <3>1 DEF UpWhole, UpAll
    <3>3. UpPlaces'[2] = UpPlaces[2]
      BY <1>1, UpPlacesAre
    <3>4. Prefix(UpPlaces[UpWhole], UpPlaces'[UpWhole])
      BY <1>2, <3>2, <3>3, PrefixSelf DEF Sized
    <3> QED
      BY <1>1, <1>2, <3>2, <3>4, UpLoses DEF UpInv
  <2> QED
    BY <2>2, <2>3
<1> QED
  BY <1>3, <1>4

LEMMA UpStops ==
  ASSUME Base, Base', UpInv, StopsI \/ StopsE
  PROVE  UpInv'
<1>1. /\ pc \in PcRec /\ Sized(UpPlaces) /\ UpWhole \in {2, 4, 6}
      /\ Len(client.sent) \in Nat /\ Len(client'.sent) \in Nat
  BY UpType, TypeIs DEF Base
<1>2. UNCHANGED <<client, server>>
  BY DEF StopsI, StopsE, Stopped
<1>3. Len(client.sent) <= Len(client'.sent) /\ Numbered(client'.sent, "c", 0)
  BY <1>1, <1>2 DEF UpInv
<1>4. CASE StopsI
  <2>1. /\ pc.I # "done" /\ pc'.I = "done" /\ pc'.E = pc.E
        /\ hold'["Eup"] = hold["Eup"] /\ ch'["e2s"] = ch["e2s"]
    BY <1>1, <1>4 DEF StopsI, Stopped, Copier, PcRec
  <2>2. /\ UpWhole' \in {2, 4} /\ UpWhole' <= UpWhole /\ UpAll' # "all"
    BY <2>1 DEF UpWhole, UpAll
  <2>3. Prefix(UpPlaces[2], UpPlaces'[2])
    BY <1>1, <2>1, UpPlacesAre, PrefixSelf DEF Sized
  <2>4. Prefix(UpPlaces[4], UpPlaces'[4])
    <3>1. CASE pc.E \in {"none", "header"} \/ ch'["i2e"] = ch["i2e"]
      BY <1>1, <2>1, <3>1, UpPlacesAre, PrefixSelf DEF Sized
    <3>2. CASE pc.E \notin {"none", "header"} /\ Shut(ch, ch', "i2e")
      BY <2>1, <3>2, UpPlacesAre DEF Shut, Cut, Prefix
    <3> QED
      BY <1>4, <3>1, <3>2 DEF StopsI
  <2> QED
    BY <1>2, <1>3, <2>1, <2>2, <2>3, <2>4, UpLoses
<1>5. CASE StopsE
  <2>1. pc'.E = "done"
    BY <1>1, <1>5 DEF StopsE, PcRec
  <2>2. UpWhole' = 2 /\ UpWhole' <= UpWhole /\ UpAll' # "all"
    BY <1>1, <2>1 DEF UpWhole, UpAll
  <2>3. Prefix(UpPlaces[2], UpPlaces'[2])
    <3>1. CASE ch'["e2s"] = ch["e2s"]
      BY <1>1, <3>1, UpPlacesAre, PrefixSelf DEF Sized
    <3>2. CASE Shut(ch, ch', "e2s")
      BY <3>2, UpPlacesAre DEF Shut, Cut, Prefix
    <3> QED
      BY <1>5, <3>1, <3>2 DEF StopsE
  <2> QED
    BY <1>2, <1>3, <2>2, <2>3, UpLoses
<1> QED
  BY <1>4, <1>5

LEMMA UpClient ==
  ASSUME Base, Base', UpInv, ClientRead \/ ClientShutdown \/ ClientClose
  PROVE  UpInv'
<1>1. /\ UNCHANGED <<pc, hold, server>> /\ client'.sent = client.sent
      /\ Sized(UpPlaces) /\ UpWhole \in {2, 4, 6} /\ Len(client.sent) \in Nat
  BY UpType, ClientReadBase, ClientShutdownBase, ClientCloseBase
     DEF ClientRead, ClientShutdown, ClientClose
<1>2. CASE ClientRead
  <2>1. /\ ch'["c2i"] = ch["c2i"] /\ ch'["i2e"] = ch["i2e"] /\ ch'["e2s"] = ch["e2s"]
        /\ client'.st = client.st
    BY <1>2, ClientReadBase DEF Others, Channel
  <2>2. UpPlaces'[4] = UpPlaces[4]
    BY <1>1, <2>1, UpPlacesAre
  <2> QED
    BY <1>1, <2>1, <2>2, UpSame
<1>3. CASE ClientShutdown
  <2>1. /\ ch'["c2i"].q = ch["c2i"].q /\ ch'["i2e"] = ch["i2e"] /\ ch'["e2s"] = ch["e2s"]
        /\ client'.st # "open"
    BY <1>3, ClientShutdownBase DEF Channel
  <2>2. UpPlaces'[4] = UpPlaces[4]
    BY <1>1, <2>1, UpPlacesAre
  <2> QED
    BY <1>1, <2>1, <2>2, UpSame
<1>4. CASE ClientClose
  <2>1. /\ Cut(ch, ch', "c2i") /\ ch'["i2e"] = ch["i2e"] /\ ch'["e2s"] = ch["e2s"]
        /\ client'.st # "open"
    BY <1>4, ClientCloseBase DEF Shut, Others, Channel
  <2>2. UpWhole' = UpWhole /\ UpAll' # "all"
    BY <1>1, <2>1 DEF UpWhole, UpAll
  <2>3. UpPlaces'[4] = UpPlaces[4] /\ UpPlaces'[2] = UpPlaces[2]
    BY <1>1, <2>1, UpPlacesAre
  <2>4. Prefix(UpPlaces[6], UpPlaces'[6])
    BY <2>1, UpPlacesAre DEF Cut, Prefix
  <2>5. Prefix(UpPlaces[UpWhole'], UpPlaces'[UpWhole'])
    BY <1>1, <2>2, <2>3, <2>4, PrefixSelf DEF Sized
  <2> QED
    BY <1>1, <2>1, <2>2, <2>3, <2>5, UpLoses DEF UpInv
<1> QED
  BY <1>2, <1>3, <1>4

LEMMA UpServer ==
  ASSUME Base, Base', UpInv, ServerSend \/ ServerRead \/ ServerClose
  PROVE  UpInv'
<1>1. /\ UNCHANGED <<pc, hold, client>>
      /\ Sized(UpPlaces) /\ Sized(UpPlaces') /\ UpWhole \in {2, 4, 6}
      /\ Len(client.sent) \in Nat
      /\ "s2e" \in Channel /\ "e2s" \in Channel
  BY UpType DEF ServerSend, ServerRead, ServerClose, Channel
<1>2. Len(client.sent) <= Len(client'.sent) /\ Numbered(client'.sent, "c", 0)
  BY <1>1 DEF UpInv
<1>3. CASE ServerSend
  <2>1. /\ server'.rcvd = server.rcvd
        /\ \/ ~ch["s2e"].dead /\ Others(ch, ch', {"s2e"})
           \/ Refused("s2e") /\ Others(ch, ch', {"s2e", "e2s"})
    BY <1>3, ServerSendBase, BackIs DEF Put
  <2>2. ch'["c2i"] = ch["c2i"] /\ ch'["i2e"] = ch["i2e"]
    BY <2>1 DEF Others, Channel
  <2>3. UpPlaces'[4] = UpPlaces[4]
    BY <1>1, <2>2, UpPlacesAre
  <2>4. CASE Others(ch, ch', {"s2e"})
    <3>1. ch'["e2s"] = ch["e2s"]
      BY <1>1, <2>4 DEF Others
    <3> QED
      BY <1>1, <2>1, <2>2, <2>3, <3>1, UpSame
  <2>5. CASE Refused("s2e")
    <3>1. Cut(ch, ch', "e2s") /\ pc.E = "done"
      BY <2>5, BackIs DEF Refused, Base, EndsInv
    <3>2. UpWhole' = 2 /\ UpWhole' <= UpWhole /\ UpAll' # "all"
      BY <1>1, <3>1 DEF UpWhole, UpAll
    <3>3. Prefix(UpPlaces[2], UpPlaces'[2])
      BY <3>1, UpPlacesAre DEF Cut, Prefix
    <3> QED
      BY <1>2, <2>1, <3>2, <3>3, UpLoses
  <2> QED
    BY <2>1, <2>4, <2>5
<1>4. CASE ServerRead
  <2>1. CASE /\ Got("e2s") /\ Others(ch, ch', {"e2s"})
             /\ server'.rcvd = Append(server.rcvd, ch["e2s"].q[1])
    <3>1. /\ ch'["c2i"] = ch["c2i"] /\ ch'["i2e"] = ch["i2e"]
          /\ ch'["e2s"].dead = ch["e2s"].dead
      BY <2>1 DEF Others, Channel, Got, Flags
    <3>2. /\ UpPlaces'[3] = UpPlaces[3] /\ UpPlaces'[4] = UpPlaces[4]
          /\ UpPlaces'[5] = UpPlaces[5] /\ UpPlaces'[6] = UpPlaces[6]
      BY <1>1, <3>1, UpPlacesAre, InHandIs DEF Copier
    <3>3. SameBut(UpPlaces, UpPlaces', 1)
      BY <3>2, SameButIs
    <3>4. Taken(UpPlaces[1 + 1], UpPlaces'[1 + 1])
      BY <1>1, <2>1, UpPlacesAre, QueueMoves
    <3>5. Added(UpPlaces[1], UpPlaces'[1], UpPlaces[1 + 1][1])
      <4>1. server.rcvd \in Seq(ClientData)
        BY TypeIs DEF Base, ServerRec
      <4>2. Added(server.rcvd, server'.rcvd, ch["e2s"].q[1])
        BY <2>1, <4>1 DEF Added
      <4> QED
        BY <4>2, UpPlacesAre
    <3>6. 1 \in 1 .. 5 /\ 1 # UpWhole
      BY <1>1
    <3> QED
      BY <1>1, <3>1, <3>3, <3>4, <3>5, <3>6, UpMove
  <2>2. CASE UNCHANGED ch /\ server'.rcvd = server.rcvd
    <3>1. UpPlaces'[4] = UpPlaces[4]
      BY <1>1, <2>2, UpPlacesAre
    <3> QED
      BY <1>1, <2>2, <3>1, UpSame
  <2> QED
    BY <1>4, <2>1, <2>2, ServerReadBase
<1>5. CASE ServerClose
  <2>1. /\ server'.rcvd = server.rcvd
        /\ ch'["e2s"].q = <<>> /\ ch'["e2s"].dead = TRUE
    BY <1>5, ServerCloseBase DEF Gone
  <2>2. UpWhole' = 2 /\ UpWhole' <= UpWhole /\ UpAll' # "all"
    BY <1>1, <2>1 DEF UpWhole, UpAll
  <2>3. Prefix(UpPlaces[2], UpPlaces'[2])
    <3>1. UpPlaces'[2] = <<>> /\ Len(UpPlaces[2]) \in Nat
      BY <1>1, <2>1, UpPlacesAre DEF Sized
    <3> QED
      BY <3>1 DEF Prefix
  <2> QED
    BY <1>2, <2>1, <2>2, <2>3, UpLoses
<1> QED
  BY <1>3, <1>4, <1>5

LEMMA UpClientSend ==
  ASSUME Base, Base', UpInv, ClientSend
  PROVE  UpInv'
<1> DEFINE s == Len(client.sent)
<1>1. /\ UNCHANGED <<pc, hold, server>> /\ client.st = "open" /\ client'.st = client.st
      /\ client'.sent = Append(client.sent, <<"c", s + 1>>)
      /\ \/ Put("c2i", <<"c", s + 1>>) /\ Others(ch, ch', {"c2i"})
         \/ Refused("c2i") /\ Others(ch, ch', {"c2i", "i2c"})
  BY ClientSendBase, BackIs DEF ClientSend
<1>2. /\ Sized(UpPlaces) /\ Sized(UpPlaces') /\ UpWhole \in {2, 4, 6}
      /\ s \in Nat /\ client.sent \in Seq(ClientData)
      /\ "c2i" \in Channel /\ "Iup" \in Copier /\ "Eup" \in Copier
  BY UpType DEF Channel, Copier
<1>3. Len(client'.sent) = s + 1 /\ Numbered(client'.sent, "c", 0)
  <2>1. /\ Len(client'.sent) = s + 1
        /\ \A i \in 1 .. s : client'.sent[i] = client.sent[i]
        /\ client'.sent[s + 1] = <<"c", s + 1>>
    BY <1>1, <1>2
  <2>2. \A i \in 1 .. s : client.sent[i] = <<"c", 0 + i>>
    BY DEF UpInv, Numbered
  <2>3. \A i \in 1 .. s + 1 : client'.sent[i] = <<"c", 0 + i>>
    BY <1>2, <2>1, <2>2
  <2> QED
    BY <2>1, <2>3 DEF Numbered
<1> HIDE DEF s
<1>4. /\ ch'["i2e"] = ch["i2e"] /\ ch'["e2s"] = ch["e2s"]
  BY <1>1 DEF Others, Channel
<1>5. /\ UpWhole' = UpWhole /\ UpAll' = UpAll
      /\ UpPlaces'[1] = UpPlaces[1] /\ UpPlaces'[2] = UpPlaces[2]
      /\ UpPlaces'[3] = UpPlaces[3] /\ UpPlaces'[4] = UpPlaces[4]
      /\ UpPlaces'[5] = UpPlaces[5]
  BY <1>1, <1>2, <1>4, UpPlacesAre, InHandIs DEF UpWhole, UpAll
<1>6. CASE Put("c2i", <<"c", s + 1>>)
  <2>1. Added(UpPlaces[6], UpPlaces'[6], <<"c", s + 1>>)
    BY <1>2, <1>6, UpPlacesAre, QueueMoves
  <2>2. SameUpTo(UpPlaces, UpPlaces', 6)
    <3>1. 6 \in 2 .. 6
      OBVIOUS
    <3> QED
      BY <1>5, <3>1, SameUpToIs
  <2>3. UpWhole = 6 => UpAll = "all"
    BY <1>1 DEF UpAll
  <2>4. Chain("c", UpPlaces, UpWhole, s, UpAll) /\ UpWhole \in 2 .. 6
    BY <1>2 DEF UpInv, s
  <2>5. Chain("c", UpPlaces', UpWhole, s + 1, UpAll)
    BY <1>2, <2>1, <2>2, <2>3, <2>4, SendChain
  <2> QED
    BY <1>3, <1>5, <2>5 DEF UpInv
<1>7. CASE Refused("c2i")
  <2>1. pc.I = "done"
    BY <1>7 DEF Refused, Base, EndsInv
  <2>2. UpWhole \in {2, 4} /\ UpAll # "all"
    BY <2>1 DEF UpWhole, UpAll
  <2>3. Prefix(UpPlaces[UpWhole'], UpPlaces'[UpWhole'])
    BY <1>2, <1>5, <2>2, PrefixSelf DEF Sized
  <2>4. UpWhole' <= UpWhole /\ Len(client.sent) <= Len(client'.sent)
    BY <1>2, <1>3, <1>5 DEF s
  <2> QED
    BY <1>1, <1>3, <1>4, <1>5, <2>2, <2>3, <2>4, UpLoses
<1> QED
  BY <1>1, <1>6, <1>7

LEMMA UpStep ==
  ASSUME Base, Base', UpInv, Steps
  PROVE  UpInv'
<1>1. CASE \/ Dialled \/ WriteHeader \/ ReadAck \/ HeaderRead \/ ServerDialled
           \/ WriteAck \/ UNCHANGED vars
  BY <1>1, UpHandshake
<1>2. ASSUME NEW k \in Copier, CopyRead(k) \/ CopyWrite(k)
      PROVE  UpInv'
  BY <1>2, UpCopyRead, UpCopyWrite
<1>3. ASSUME NEW p \in {"I", "E"}, UpEnds(p)
      PROVE  UpInv'
  BY <1>3, UpUpEnds
<1>4. CASE StopsI \/ StopsE
  BY <1>4, UpStops
<1>5. CASE ClientSend \/ ClientRead \/ ClientShutdown \/ ClientClose
  BY <1>5, UpClientSend, UpClient
<1>6. CASE ServerSend \/ ServerRead \/ ServerClose
  BY <1>6, UpServer
<1> QED
  BY <1>1, <1>2, <1>3, <1>4, <1>5, <1>6 DEF Steps

LEMMA UpInit ==
  ASSUME Init
  PROVE  UpInv
<1>1. /\ \A c \in Channel : ch[c].q = <<>> /\ ch[c].dead = FALSE
      /\ \A k \in Copier : hold[k] = Nothing
      /\ client.sent = <<>> /\ server.rcvd = <<>> /\ client.st = "open"
      /\ pc.I = "dial" /\ pc.E = "none"
  BY DEF Init
<1>2. UpWhole = 6 /\ UpAll = "all"
  BY <1>1 DEF UpWhole, UpAll, Channel
<1>3. /\ UpPlaces[1] = <<>> /\ UpPlaces[2] = <<>> /\ UpPlaces[3] = <<>>
      /\ UpPlaces[4] = <<>> /\ UpPlaces[5] = <<>> /\ UpPlaces[6] = <<>>
  BY <1>1 DEF UpPlaces, InHand, Channel, Copier
<1>4. \A i \in 1 .. 6 : i = 1 \/ i = 2 \/ i = 3 \/ i = 4 \/ i = 5 \/ i = 6
  OBVIOUS
<1>5. Len(<<>>) = 0
  OBVIOUS
<1>6. \A i \in 1 .. 6 : Len(UpPlaces[i]) = 0
  BY <1>3, <1>4, <1>5
<1>7. Chain("c", UpPlaces, 6, 0, "all")
  BY <1>6, NewChain
<1> QED
  BY <1>1, <1>2, <1>5, <1>7 DEF UpInv, Numbered

(* What the client sent is on its way up without a gap, up to the first     *)
(* place that has lost pieces.                                              *)
THEOREM UpInvariant == Spec => [](Base /\ UpInv)
<1>1. Init => Base /\ UpInv
  BY BaseInit, UpInit
<1>2. Base /\ UpInv /\ [Next]_vars => (Base /\ UpInv)'
  BY StepIs, BaseStep, UpStep
<1> QED
  BY <1>1, <1>2, PTL DEF Spec

(* A client sends and a server receives by a call of its own, no other step *)
(* touches what either has sent or received; and the way down likewise.     *)
LEMMA Ends ==
  ASSUME Base, Steps
  PROVE  /\ client'.sent # client.sent => ClientSend
         /\ server'.rcvd # server.rcvd => ServerRead
         /\ server'.sent # server.sent => ServerSend
         /\ client'.rcvd # client.rcvd => ClientRead
<1>1. CASE \/ Dialled \/ WriteHeader \/ ReadAck \/ HeaderRead
           \/ WriteAck \/ UNCHANGED vars
  BY <1>1 DEF Dialled, WriteHeader, ReadAck, HeaderRead, WriteAck, vars
<1>2. CASE ServerDialled
  <2>1. server'.rcvd = server.rcvd /\ server'.sent = server.sent /\ client' = client
    BY <1>2, TypeIs DEF Base, ServerDialled, ServerRec
  <2> QED
    BY <2>1
<1>3. ASSUME NEW k \in Copier, CopyRead(k) \/ CopyWrite(k)
      PROVE  UNCHANGED <<client, server>>
  BY <1>3 DEF CopyRead, CopyWrite
<1>4. ASSUME NEW p \in {"I", "E"}, UpEnds(p)
      PROVE  UNCHANGED <<client, server>>
  BY <1>4 DEF UpEnds
<1>5. CASE StopsI \/ StopsE
  BY <1>5 DEF StopsI, StopsE, Stopped
<1>6. CASE ClientSend \/ ClientRead
  BY <1>6, ClientSendBase, ClientReadBase DEF ClientSend, ClientRead
<1>7. CASE ClientShutdown \/ ClientClose
  BY <1>7, ClientShutdownBase, ClientCloseBase DEF ClientShutdown, ClientClose
<1>8. CASE ServerSend \/ ServerRead
  BY <1>8, ServerSendBase, ServerReadBase DEF ServerSend, ServerRead
<1>9. CASE ServerClose
  BY <1>9, ServerCloseBase DEF ServerClose
<1> QED
  BY <1>1, <1>2, <1>3, <1>4, <1>5, <1>6, <1>7, <1>8, <1>9 DEF Steps

(* The server gets what the client sent, in order, each piece at most once  *)
(* and nothing else (neither the header nor the ack), whatever is cut off,  *)
(* reset or killed on the way: Tunnel implements Pipe.                      *)
THEOREM UpPipe == Spec => UpIsPipe
<1>1. Init => UpDirection!Init
  BY DEF Init, UpDirection!Init
<1>2. ASSUME Base, UpInv, Steps
      PROVE  \/ UpDirection!Send \/ UpDirection!Deliver
             \/ UNCHANGED <<client.sent, server.rcvd>>
  <2>1. CASE ClientSend
    <3>1. server'.rcvd = server.rcvd
      BY <2>1 DEF ClientSend
    <3>2. \E d \in ClientData : client'.sent = Append(client.sent, d)
      BY <1>2, <2>1, ClientSendBase
    <3> QED
      BY <3>1, <3>2 DEF UpDirection!Send
  <2>2. CASE ServerRead
    <3>1. client'.sent = client.sent
      BY <2>2 DEF ServerRead
    <3>2. CASE /\ Got("e2s")
               /\ server'.rcvd = Append(server.rcvd, ch["e2s"].q[1])
      <4>1. /\ Sized(UpPlaces) /\ UpWhole \in 2 .. 6 /\ Len(client.sent) \in Nat
            /\ Len(UpPlaces[1]) \in Nat
        BY <1>2, BaseStep, UpType DEF Sized
      <4>2. /\ Chain("c", UpPlaces, UpWhole, Len(client.sent), UpAll)
            /\ Numbered(client.sent, "c", 0)
        BY <1>2 DEF UpInv
      <4>3. /\ Len(server.rcvd) < Len(client.sent)
            /\ ch["e2s"].q[1] = <<"c", Len(server.rcvd) + 1>>
        <5>1. Len(UpPlaces[2]) > 0
          BY <3>2, UpPlacesAre DEF Got
        <5>2. /\ Len(UpPlaces[1]) < Len(client.sent)
              /\ UpPlaces[2][1] = <<"c", Len(UpPlaces[1]) + 1>>
          BY <4>1, <4>2, <5>1, ChainFront
        <5> QED
          BY <5>2, UpPlacesAre
      <4>4. Len(server.rcvd) + 1 \in 1 .. Len(client.sent)
        BY <4>1, <4>3, UpPlacesAre
      <4>5. client.sent[Len(server.rcvd) + 1] = <<"c", 0 + (Len(server.rcvd) + 1)>>
        BY <4>2, <4>4 DEF Numbered
      <4>6. client.sent[Len(server.rcvd) + 1] = ch["e2s"].q[1]
        BY <4>1, <4>3, <4>5, UpPlacesAre
      <4> QED
        BY <3>1, <3>2, <4>3, <4>6 DEF UpDirection!Deliver
    <3> QED
      BY <1>2, <2>2, <3>1, <3>2, ServerReadBase
  <2>3. CASE ~ClientSend /\ ~ServerRead
    BY <1>2, <2>3, Ends
  <2> QED
    BY <2>1, <2>2, <2>3
<1>3. Base /\ UpInv /\ [Next]_vars =>
        [UpDirection!Send \/ UpDirection!Deliver]_<<client.sent, server.rcvd>>
  BY <1>2, StepIs
<1> QED
  BY <1>1, <1>3, UpInvariant, PTL DEF Spec, UpIsPipe, UpDirection!Spec
=============================================================================
