---------------------------- MODULE TunnelProofs ----------------------------
(* Proofs about Tunnel, for any number of pieces and any size of the        *)
(* buffers: type correctness, the order of the handshake, and what a step   *)
(* does to the queues (for TunnelUpProofs and TunnelDownProofs).            *)
EXTENDS Tunnel, SequenceTheorems, TLAPS

(* Who has closed what.  A connection is closed by its two owners only, and *)
(* what arrives at a closed end is gone.                                    *)
EndsInv ==
  /\ \A c \in Channel : /\ ch[c].rst => ch[c].dead
                        /\ ch[c].dead => ch[c].q = <<>>
  /\ ch["i2e"].fin \/ ch["i2c"].fin \/ ch["e2i"].dead \/ ch["c2i"].dead
       => pc.I = "done"
  /\ ch["e2i"].fin \/ ch["e2s"].fin \/ ch["i2e"].dead \/ ch["s2e"].dead
       => pc.E = "done"
  /\ pc.I = "done" => ch["e2i"].q = <<>>
  /\ pc.I = "done" => ch["e2i"].dead \/ pc.E = "none"
  /\ pc.E = "done" => ch["i2e"].dead
  /\ ch["c2i"].fin => client.st # "open"
  /\ ch["i2c"].dead => client.st = "closed"
  /\ ch["e2s"].dead \/ ch["s2e"].fin => server.st = "closed"

(* The order of the two handlers: internalProxy copies only after the       *)
(* external handler does.                                                   *)
Order ==
  /\ pc.I = "dial" => pc.E = "none"
  /\ pc.E = "none" => pc.I \in {"dial", "done"}
  /\ pc.I = "header" => pc.E \in {"header", "done"}
  /\ pc.I = "copy" => pc.E \in {"copy", "done"}
  /\ pc.I \notin {"copy", "done"} => run["Iup"] = "off" /\ run["Idn"] = "off"
  /\ pc.E \notin {"copy", "done"} => run["Eup"] = "off" /\ run["Edn"] = "off"
  /\ run["Idn"] = "run" => pc.I = "copy"
  /\ run["Edn"] = "run" => pc.E = "copy"
  /\ pc.E \in {"none", "header", "dial"} => server.st = "listen"

(* The header is alone in its channel until it has been read.               *)
HeaderOK(q, i, e) ==
  /\ i \in {"dial", "header"} => q = <<>>
  /\ e \in {"none", "header"} => \A n \in 1 .. Len(q) : n = 1 /\ q[n] = Header
  /\ e \in {"dial", "ack"} => q = <<>>
  /\ e \notin {"none", "header"} => \A n \in 1 .. Len(q) : q[n] # Header
HeaderAlone == HeaderOK(ch["i2e"].q, pc.I, pc.E)

(* The ack is the first thing to come back, and internalProxy reads it      *)
(* before it copies.                                                        *)
AckOK(q, i, e) ==
  /\ e \notin {"copy", "done"} => q = <<>>
  /\ i \in {"header", "ack"} => \A n \in 1 .. Len(q) : q[n] = Ack => n = 1
  /\ i \notin {"header", "ack"} => \A n \in 1 .. Len(q) : q[n] # Ack
AckFirst == AckOK(ch["e2i"].q, pc.I, pc.E)

-----------------------------------------------------------------------------
(* What a step may do to one channel.                                       *)

Flags(old, new, c) ==
  /\ new[c].fin = old[c].fin
  /\ new[c].dead = old[c].dead
  /\ new[c].rst = old[c].rst
Cut(old, new, c) ==
  /\ Len(new[c].q) <= Len(old[c].q)
  /\ \A i \in 1 .. Len(new[c].q) : new[c].q[i] = old[c].q[i]
Others(old, new, S) == \A c \in Channel \ S : new[c] = old[c]

(* The end that sends on c is closed; so is the end that receives from c.   *)
Shut(old, new, c) ==
  /\ Cut(old, new, c) /\ (old[Back[c]].q = <<>> => new[c].q = old[c].q)
  /\ new[c].fin = TRUE /\ new[c].dead = old[c].dead /\ new[c].rst = old[c].rst
Gone(old, new, c) ==
  /\ new[c].q = <<>>
  /\ new[c].fin = old[c].fin /\ new[c].dead = TRUE /\ new[c].rst = old[c].rst

Put(c, v) ==
  /\ ~ch[c].dead
  /\ Len(ch'[c].q) = Len(ch[c].q) + 1
  /\ \A i \in 1 .. Len(ch[c].q) : ch'[c].q[i] = ch[c].q[i]
  /\ ch'[c].q[Len(ch[c].q) + 1] = v
  /\ Flags(ch, ch', c)
Got(c) ==
  /\ Len(ch[c].q) > 0
  /\ Len(ch'[c].q) = Len(ch[c].q) - 1
  /\ \A i \in 1 .. Len(ch[c].q) - 1 : ch'[c].q[i] = ch[c].q[i + 1]
  /\ Flags(ch, ch', c)

(* A write on c is refused by the closed end, which had sent on the way     *)
(* back.                                                                    *)
Refused(c) ==
  /\ ch[c].dead
  /\ ch'[c].q = ch[c].q /\ ch'[c].fin = ch[c].fin
  /\ ch'[c].dead = ch[c].dead /\ ch'[c].rst = TRUE
  /\ Cut(ch, ch', Back[c]) /\ Flags(ch, ch', Back[c])

ChanRec == [q : Seq(Piece), fin : BOOLEAN, dead : BOOLEAN, rst : BOOLEAN]

LEMMA BackIs ==
  /\ Back["c2i"] = "i2c" /\ Back["i2c"] = "c2i"
  /\ Back["i2e"] = "e2i" /\ Back["e2i"] = "i2e"
  /\ Back["e2s"] = "s2e" /\ Back["s2e"] = "e2s"
  /\ \A c \in Channel : Back[c] \in Channel /\ Back[c] # c
  BY DEF Back, Channel

LEMMA PrefixType ==
  ASSUME NEW S, NEW q \in Seq(S), NEW n \in 0 .. Len(q)
  PROVE  /\ SubSeq(q, 1, n) \in Seq(S)
         /\ Len(SubSeq(q, 1, n)) = n
         /\ \A i \in 1 .. n : SubSeq(q, 1, n)[i] = q[i]
  OBVIOUS

LEMMA WritesEffect ==
  ASSUME ch \in [Channel -> ChanRec], NEW out \in Channel, NEW v \in Piece,
         ch' \in Writes(out, v)
  PROVE  /\ ch' \in [Channel -> ChanRec]
         /\ \/ Put(out, v) /\ Others(ch, ch', {out})
            \/ Refused(out) /\ Others(ch, ch', {out, Back[out]})
<1>1. CASE ch[out].dead
  <2> DEFINE back == Back[out]
  <2>1. PICK kept \in Prefixes(ch[back].q) :
          ch' = [ch EXCEPT ![back].q = kept, ![out].rst = TRUE]
    BY <1>1 DEF Writes
  <2>2. PICK n \in 0 .. Len(ch[back].q) : kept = SubSeq(ch[back].q, 1, n)
    BY DEF Prefixes
  <2>3. back \in Channel /\ back # out
    BY BackIs
  <2>4. ch[out] \in ChanRec /\ ch[back] \in ChanRec
    BY <2>3
  <2>5. kept \in Seq(Piece)
    BY <2>2, <2>4, PrefixType DEF ChanRec
  <2> HIDE DEF back
  <2>6. /\ ch'[out] = [ch[out] EXCEPT !.rst = TRUE]
        /\ ch'[back] = [ch[back] EXCEPT !.q = kept]
        /\ Others(ch, ch', {out, back})
        /\ DOMAIN ch' = Channel
        /\ ch' = [c \in Channel |-> ch'[c]]
    BY <2>1, <2>3 DEF Others
  <2>7. /\ ch'[out].q = ch[out].q /\ ch'[out].fin = ch[out].fin
        /\ ch'[out].dead = ch[out].dead /\ ch'[out].rst = TRUE
        /\ ch'[out] \in ChanRec
    BY <2>4, <2>6 DEF ChanRec
  <2>8. /\ ch'[back].q = kept /\ Flags(ch, ch', back)
        /\ ch'[back] \in ChanRec
    BY <2>4, <2>5, <2>6 DEF ChanRec, Flags
  <2>9. ch' \in [Channel -> ChanRec]
    BY <2>6, <2>7, <2>8 DEF Others
  <2>10. Cut(ch, ch', back)
    BY <2>2, <2>4, <2>8, PrefixType DEF Cut, ChanRec
  <2> QED
    BY <1>1, <2>6, <2>7, <2>8, <2>9, <2>10 DEF Refused, back
<1>2. CASE ~ch[out].dead
  <2>1. ch' = [ch EXCEPT ![out].q = Append(@, v)]
    BY <1>2 DEF Writes
  <2>2. ch[out] \in ChanRec /\ Append(ch[out].q, v) \in Seq(Piece)
    BY DEF ChanRec
  <2>3. ch'[out] = [ch[out] EXCEPT !.q = Append(ch[out].q, v)]
    BY <2>1
  <2>4. /\ ch'[out] \in ChanRec /\ ch'[out].q = Append(ch[out].q, v)
        /\ Flags(ch, ch', out)
    BY <1>2, <2>2, <2>3 DEF ChanRec, Flags
  <2>5. Put(out, v)
    BY <1>2, <2>2, <2>4 DEF ChanRec, Put
  <2> QED
    BY <2>1, <2>4, <2>5 DEF Others
<1> QED
  BY <1>1, <1>2

LEMMA ClosesEffect ==
  ASSUME NEW old \in [Channel -> ChanRec], NEW out \in Channel,
         NEW new \in Closes(old, out)
  PROVE  /\ new \in [Channel -> ChanRec]
         /\ Shut(old, new, out) /\ Gone(old, new, Back[out])
         /\ Others(old, new, {out, Back[out]})
<1> DEFINE back == Back[out]
<1>1. PICK kept \in IF Unread(old, out) THEN Prefixes(old[out].q) ELSE {old[out].q} :
        new = [old EXCEPT ![out] = [@ EXCEPT !.q = kept, !.fin = TRUE],
                          ![back] = [@ EXCEPT !.q = <<>>, !.dead = TRUE]]
  BY DEF Closes
<1>2. back \in Channel /\ back # out
  BY BackIs
<1>3. old[out] \in ChanRec /\ old[back] \in ChanRec
  BY <1>2
<1>4. old[out].q = SubSeq(old[out].q, 1, Len(old[out].q)) /\ Len(old[out].q) \in Nat
  BY <1>3 DEF ChanRec
<1>5. PICK n \in 0 .. Len(old[out].q) :
        /\ kept = SubSeq(old[out].q, 1, n)
        /\ old[back].q = <<>> => kept = old[out].q
  <2>1. CASE Unread(old, out)
    BY <2>1 DEF Prefixes, Unread
  <2>2. CASE ~Unread(old, out)
    BY <1>4, <2>2 DEF Unread
  <2> QED
    BY <2>1, <2>2
<1>6. kept \in Seq(Piece)
  BY <1>3, <1>5, PrefixType DEF ChanRec
<1> HIDE DEF back
<1>7. /\ new[out] = [old[out] EXCEPT !.q = kept, !.fin = TRUE]
      /\ new[back] = [old[back] EXCEPT !.q = <<>>, !.dead = TRUE]
      /\ Others(old, new, {out, back})
      /\ new = [c \in Channel |-> new[c]]
  BY <1>1, <1>2 DEF Others
<1>8. /\ new[out] \in ChanRec /\ new[out].q = kept /\ new[out].fin = TRUE
      /\ new[out].dead = old[out].dead /\ new[out].rst = old[out].rst
  BY <1>3, <1>6, <1>7 DEF ChanRec
<1>9. new[back] \in ChanRec /\ Gone(old, new, back)
  <2>1. <<>> \in Seq(Piece)
    OBVIOUS
  <2> QED
    BY <1>3, <1>7, <2>1 DEF ChanRec, Gone
<1>10. new \in [Channel -> ChanRec]
  BY <1>7, <1>8, <1>9 DEF Others
<1>11. Cut(old, new, out)
  BY <1>3, <1>5, <1>8, PrefixType DEF Cut, ChanRec
<1>12. Shut(old, new, out)
  BY <1>5, <1>8, <1>11 DEF Shut, back
<1> QED
  BY <1>7, <1>9, <1>10, <1>12 DEF back

LEMMA CloseTwoEffect ==
  ASSUME NEW old \in [Channel -> ChanRec],
         NEW out1 \in Channel, NEW out2 \in Channel,
         {out1, Back[out1]} \cap {out2, Back[out2]} = {},
         NEW new \in CloseTwo(old, out1, out2)
  PROVE  /\ new \in [Channel -> ChanRec]
         /\ Shut(old, new, out1) /\ Gone(old, new, Back[out1])
         /\ Shut(old, new, out2) /\ Gone(old, new, Back[out2])
         /\ Others(old, new, {out1, Back[out1], out2, Back[out2]})
<1>1. PICK mid \in Closes(old, out1) : new \in Closes(mid, out2)
  BY DEF CloseTwo
<1>2. /\ out1 \in Channel /\ Back[out1] \in Channel
      /\ out2 \in Channel /\ Back[out2] \in Channel
      /\ Back[Back[out1]] = out1 /\ Back[Back[out2]] = out2
  BY BackIs DEF Channel
<1>3. /\ mid \in [Channel -> ChanRec]
      /\ Shut(old, mid, out1) /\ Gone(old, mid, Back[out1])
      /\ Others(old, mid, {out1, Back[out1]})
  BY <1>1, ClosesEffect
<1>4. /\ new \in [Channel -> ChanRec]
      /\ Shut(mid, new, out2) /\ Gone(mid, new, Back[out2])
      /\ Others(mid, new, {out2, Back[out2]})
  BY <1>1, <1>3, ClosesEffect
<1>5. /\ mid[out2] = old[out2] /\ mid[Back[out2]] = old[Back[out2]]
      /\ new[out1] = mid[out1] /\ new[Back[out1]] = mid[Back[out1]]
  BY <1>2, <1>3, <1>4 DEF Others
<1>6. Shut(old, new, out1) /\ Gone(old, new, Back[out1])
  BY <1>2, <1>3, <1>5 DEF Shut, Gone, Cut
<1>7. Shut(old, new, out2) /\ Gone(old, new, Back[out2])
  BY <1>2, <1>4, <1>5 DEF Shut, Gone, Cut
<1>8. Others(old, new, {out1, Back[out1], out2, Back[out2]})
  BY <1>3, <1>4 DEF Others
<1> QED
  BY <1>4, <1>6, <1>7, <1>8

LEMMA QueueEffect ==
  ASSUME ch \in [Channel -> ChanRec], NEW c \in Channel, NEW q \in Seq(Piece),
         ch' = [ch EXCEPT ![c].q = q]
  PROVE  /\ ch' \in [Channel -> ChanRec]
         /\ ch'[c].q = q /\ Flags(ch, ch', c)
         /\ Others(ch, ch', {c})
<1>1. ch[c] \in ChanRec /\ ch'[c] = [ch[c] EXCEPT !.q = q]
  OBVIOUS
<1>2. ch'[c] \in ChanRec /\ ch'[c].q = q /\ Flags(ch, ch', c)
  BY <1>1 DEF ChanRec, Flags
<1> QED
  BY <1>2 DEF Others

LEMMA TailEffect ==
  ASSUME ch \in [Channel -> ChanRec], NEW c \in Channel, ch[c].q # <<>>,
         ch' = [ch EXCEPT ![c].q = Tail(@)]
  PROVE  /\ ch' \in [Channel -> ChanRec]
         /\ Got(c) /\ Others(ch, ch', {c})
         /\ Head(ch[c].q) = ch[c].q[1]
<1>1. ch[c] \in ChanRec
  OBVIOUS
<1>2. ch[c].q \in Seq(Piece) /\ Tail(ch[c].q) \in Seq(Piece)
  BY <1>1 DEF ChanRec
<1>3. /\ ch' \in [Channel -> ChanRec]
      /\ ch'[c].q = Tail(ch[c].q) /\ Flags(ch, ch', c)
      /\ Others(ch, ch', {c})
  BY <1>2, QueueEffect
<1> QED
  BY <1>2, <1>3 DEF Got

-----------------------------------------------------------------------------
(* The constants of the model, and TypeOK with them.                        *)

LEMMA RolesAre ==
  /\ Up["I"] = "Iup" /\ Up["E"] = "Eup" /\ Dn["I"] = "Idn" /\ Dn["E"] = "Edn"
  /\ Side["Iup"] = "I" /\ Side["Idn"] = "I" /\ Side["Eup"] = "E" /\ Side["Edn"] = "E"
  /\ From["Iup"] = "c2i" /\ From["Idn"] = "e2i" /\ From["Eup"] = "i2e" /\ From["Edn"] = "s2e"
  /\ To["Iup"] = "i2e" /\ To["Idn"] = "i2c" /\ To["Eup"] = "e2s" /\ To["Edn"] = "e2i"
  BY DEF Up, Dn, Side, From, To

LEMMA CarriesAre ==
  /\ Carries["c2i"] = ClientData /\ Carries["e2s"] = ClientData
  /\ Carries["i2e"] = ClientData \cup {Header}
  /\ Carries["s2e"] = ServerData /\ Carries["i2c"] = ServerData
  /\ Carries["e2i"] = ServerData \cup {Ack}
  BY DEF Carries

LEMMA PiecesDiffer ==
  /\ Header \notin ClientData /\ Nothing \notin ClientData
  /\ Ack \notin ServerData /\ Nothing \notin ServerData
  /\ Nothing # Header /\ Nothing # Ack /\ Header # Ack
  BY DEF Header, Ack, Nothing, ClientData, ServerData

Queue(q, S) == Len(q) <= SockBuf /\ \A i \in 1 .. Len(q) : q[i] \in S
QueuesOK(chs) ==
  /\ Queue(chs["c2i"].q, ClientData) /\ Queue(chs["i2c"].q, ServerData)
  /\ Queue(chs["i2e"].q, ClientData \cup {Header})
  /\ Queue(chs["e2i"].q, ServerData \cup {Ack})
  /\ Queue(chs["e2s"].q, ClientData) /\ Queue(chs["s2e"].q, ServerData)
HoldsOK(h, r) ==
  /\ h["Iup"] \in ClientData \cup {Nothing} /\ (r["Iup"] # "run" => h["Iup"] = Nothing)
  /\ h["Idn"] \in ServerData \cup {Nothing} /\ (r["Idn"] # "run" => h["Idn"] = Nothing)
  /\ h["Eup"] \in ClientData \cup {Nothing} /\ (r["Eup"] # "run" => h["Eup"] = Nothing)
  /\ h["Edn"] \in ServerData \cup {Nothing} /\ (r["Edn"] # "run" => h["Edn"] = Nothing)

LEMMA SeqOf ==
  ASSUME NEW T, NEW q \in Seq(T), NEW S
  PROVE  q \in Seq(S) <=> \A i \in 1 .. Len(q) : q[i] \in S
  OBVIOUS

LEMMA QueuesFlat ==
  ASSUME NEW chs \in [Channel -> ChanRec]
  PROVE  QueuesOK(chs) <=>
           \A c \in Channel : chs[c].q \in Seq(Carries[c]) /\ Len(chs[c].q) <= SockBuf
<1>1. \A c \in Channel :
        chs[c].q \in Seq(Carries[c]) <=>
          \A i \in 1 .. Len(chs[c].q) : chs[c].q[i] \in Carries[c]
  BY SeqOf DEF ChanRec
<1> QED
  BY <1>1, CarriesAre DEF QueuesOK, Queue, Channel

LEMMA QueuesAll ==
  ASSUME NEW chs
  PROVE  QueuesOK(chs) <=> \A c \in Channel : Queue(chs[c].q, Carries[c])
  BY CarriesAre DEF QueuesOK, Channel

LEMMA HoldsFlat ==
  ASSUME NEW h, NEW r
  PROVE  HoldsOK(h, r) <=>
           \A k \in Copier :
             /\ h[k] \in (Carries[From[k]] \cap Carries[To[k]]) \cup {Nothing}
             /\ r[k] # "run" => h[k] = Nothing
<1>1. /\ Carries[From["Iup"]] \cap Carries[To["Iup"]] = ClientData
      /\ Carries[From["Eup"]] \cap Carries[To["Eup"]] = ClientData
      /\ Carries[From["Idn"]] \cap Carries[To["Idn"]] = ServerData
      /\ Carries[From["Edn"]] \cap Carries[To["Edn"]] = ServerData
  BY RolesAre, CarriesAre, PiecesDiffer
<1> QED
  BY <1>1 DEF HoldsOK, Copier

(* A queue is empty if it has no element.                                   *)
LEMMA LenType ==
  ASSUME NEW chs \in [Channel -> ChanRec]
  PROVE  \A c \in Channel : /\ Len(chs[c].q) \in Nat
                            /\ chs[c].q = <<>> <=> Len(chs[c].q) = 0
<1> SUFFICES ASSUME NEW c \in Channel
             PROVE  Len(chs[c].q) \in Nat /\ (chs[c].q = <<>> <=> Len(chs[c].q) = 0)
  OBVIOUS
<1>1. chs[c].q \in Seq(Piece)
  BY DEF ChanRec
<1> QED
  BY <1>1

PcRec == [I : {"dial", "header", "ack", "copy", "done"},
          E : {"none", "header", "dial", "ack", "copy", "done"}]
ClientRec == [st : {"open", "half", "closed"}, sent : Seq(ClientData),
              rcvd : Seq(ServerData), eof : BOOLEAN]
ServerRec == [st : {"listen", "open", "closed"}, sent : Seq(ServerData),
              rcvd : Seq(ClientData), eof : BOOLEAN]

LEMMA TypeIs ==
  ASSUME TypeOK
  PROVE  /\ pc \in PcRec
         /\ ch \in [Channel -> ChanRec] /\ QueuesOK(ch)
         /\ \A c \in Channel : /\ Len(ch[c].q) \in Nat
                               /\ ch[c].q = <<>> <=> Len(ch[c].q) = 0
         /\ run \in [Copier -> {"off", "run", "end"}]
         /\ hold \in [Copier -> Piece \cup {Nothing}] /\ HoldsOK(hold, run)
         /\ client \in ClientRec /\ server \in ServerRec
         /\ reset \in BOOLEAN
<1>1. /\ pc \in PcRec
      /\ ch \in [Channel -> ChanRec]
      /\ run \in [Copier -> {"off", "run", "end"}]
      /\ hold \in [Copier -> Piece \cup {Nothing}]
      /\ client \in ClientRec /\ server \in ServerRec
      /\ reset \in BOOLEAN
  BY DEF TypeOK, PcRec, ChanRec, ClientRec, ServerRec
<1>2. QueuesOK(ch) /\ HoldsOK(hold, run)
  BY <1>1, QueuesFlat, HoldsFlat DEF TypeOK
<1> QED
  BY <1>1, <1>2, LenType

LEMMA TypeNext ==
  ASSUME TypeOK, target' = target, tls' = tls,
         pc' \in PcRec,
         ch' \in [Channel -> ChanRec], QueuesOK(ch'),
         run' \in [Copier -> {"off", "run", "end"}],
         hold' \in [Copier -> Piece \cup {Nothing}], HoldsOK(hold', run'),
         client' \in ClientRec, server' \in ServerRec,
         reset' \in BOOLEAN
  PROVE  TypeOK'
<1>1. \A c \in Channel :
        ch'[c].q \in Seq(Carries[c]) /\ Len(ch'[c].q) <= SockBuf
  BY QueuesFlat
<1>2. \A k \in Copier :
        /\ hold'[k] \in (Carries[From[k]] \cap Carries[To[k]]) \cup {Nothing}
        /\ run'[k] # "run" => hold'[k] = Nothing
  BY HoldsFlat
<1>3. target' \in Target /\ tls' \in Mode
  BY DEF TypeOK
<1> QED
  BY <1>1, <1>2, <1>3 DEF TypeOK, PcRec, ChanRec, ClientRec, ServerRec

Base == TypeOK /\ EndsInv /\ Order /\ HeaderAlone /\ AckFirst

(* A refused write only shortens queues.                                    *)
Shorter ==
  \A c \in Channel :
    /\ Cut(ch, ch', c)
    /\ ch'[c].fin = ch[c].fin /\ ch'[c].dead = ch[c].dead
    /\ ch'[c].rst => ch[c].rst \/ ch[c].dead

LEMMA QueueCut ==
  ASSUME NEW old \in [Channel -> ChanRec], NEW new \in [Channel -> ChanRec],
         NEW c \in Channel, Cut(old, new, c), NEW S, Queue(old[c].q, S)
  PROVE  Queue(new[c].q, S)
<1>1. Len(old[c].q) \in Nat /\ Len(new[c].q) \in Nat
  BY LenType
<1> QED
  BY <1>1, TunnelAssumption DEF Cut, Queue

LEMMA RefusedShorter ==
  ASSUME TypeOK, ch' \in [Channel -> ChanRec], NEW out \in Channel, Refused(out),
         Others(ch, ch', {out, Back[out]})
  PROVE  Shorter /\ QueuesOK(ch')
<1>1. \A c \in Channel : Len(ch[c].q) \in Nat /\ Len(ch'[c].q) \in Nat
  BY LenType, TypeIs
<1>2. Shorter
  <2> SUFFICES ASSUME NEW c \in Channel
               PROVE  /\ Cut(ch, ch', c)
                      /\ ch'[c].fin = ch[c].fin /\ ch'[c].dead = ch[c].dead
                      /\ ch'[c].rst => ch[c].rst \/ ch[c].dead
    BY DEF Shorter
  <2>1. CASE c = out
    <3>1. /\ ch'[c].q = ch[c].q /\ ch'[c].fin = ch[c].fin
          /\ ch'[c].dead = ch[c].dead /\ ch[c].dead
      BY <2>1 DEF Refused
    <3>2. Cut(ch, ch', c)
      BY <1>1, <3>1 DEF Cut
    <3> QED
      BY <3>1, <3>2
  <2>2. CASE c = Back[out]
    BY <2>2 DEF Refused, Flags
  <2>3. CASE c \notin {out, Back[out]}
    BY <1>1, <2>3 DEF Others, Cut
  <2> QED
    BY <2>1, <2>2, <2>3
<1>3. QueuesOK(ch) /\ ch \in [Channel -> ChanRec]
  BY TypeIs
<1>4. \A c \in Channel : Cut(ch, ch', c)
  BY <1>2 DEF Shorter
<1>5. ASSUME NEW c \in Channel, NEW S, Queue(ch[c].q, S)
      PROVE  Queue(ch'[c].q, S)
  BY <1>3, <1>4, <1>5, QueueCut
<1>6. QueuesOK(ch')
  BY <1>3, <1>5 DEF QueuesOK, Channel
<1> QED
  BY <1>2, <1>6

LEMMA PrefixOK ==
  ASSUME NEW q, NEW r, NEW i, NEW e,
         Len(q) \in Nat, q = <<>> <=> Len(q) = 0,
         Len(r) \in Nat, r = <<>> <=> Len(r) = 0,
         Len(r) <= Len(q), \A n \in 1 .. Len(r) : r[n] = q[n]
  PROVE  /\ HeaderOK(q, i, e) => HeaderOK(r, i, e)
         /\ AckOK(q, i, e) => AckOK(r, i, e)
<1>1. \A n \in 1 .. Len(r) : n \in 1 .. Len(q)
  OBVIOUS
<1>2. q = <<>> => r = <<>>
  OBVIOUS
<1>3. HeaderOK(q, i, e) => HeaderOK(r, i, e)
  BY <1>1, <1>2 DEF HeaderOK
<1>4. ASSUME AckOK(q, i, e) PROVE AckOK(r, i, e)
  <2>1. i \in {"header", "ack"} => \A n \in 1 .. Len(r) : r[n] = Ack => n = 1
    <3>1. i \in {"header", "ack"} => \A n \in 1 .. Len(q) : q[n] = Ack => n = 1
      BY <1>4 DEF AckOK
    <3> QED
      BY <1>1, <3>1
  <2>2. i \notin {"header", "ack"} => \A n \in 1 .. Len(r) : r[n] # Ack
    BY <1>1, <1>4 DEF AckOK
  <2>3. e \notin {"copy", "done"} => r = <<>>
    BY <1>2, <1>4 DEF AckOK
  <2> QED
    BY <2>1, <2>2, <2>3 DEF AckOK
<1> QED
  BY <1>3, <1>4

Dead(chs) == \A c \in Channel : /\ chs[c].rst => chs[c].dead
                                /\ chs[c].dead => chs[c].q = <<>>

(* What a refused write keeps.                                              *)
LEMMA ShorterKeeps ==
  ASSUME Base, ch' \in [Channel -> ChanRec], Shorter
  PROVE  /\ HeaderOK(ch'["i2e"].q, pc.I, pc.E)
         /\ AckOK(ch'["e2i"].q, pc.I, pc.E)
         /\ Dead(ch')
         /\ \A c \in Channel : ch[c].q = <<>> => ch'[c].q = <<>>
<1>1. \A c \in Channel : /\ Len(ch[c].q) \in Nat /\ Len(ch'[c].q) \in Nat
                         /\ ch[c].q = <<>> <=> Len(ch[c].q) = 0
                         /\ ch'[c].q = <<>> <=> Len(ch'[c].q) = 0
  BY LenType, TypeIs DEF Base
<1>2. \A c \in Channel :
        /\ Len(ch'[c].q) <= Len(ch[c].q)
        /\ \A n \in 1 .. Len(ch'[c].q) : ch'[c].q[n] = ch[c].q[n]
  BY DEF Shorter, Cut
<1>3. "i2e" \in Channel /\ "e2i" \in Channel
  BY DEF Channel
<1>4. HeaderOK(ch'["i2e"].q, pc.I, pc.E)
  BY <1>1, <1>2, <1>3, PrefixOK DEF Base, HeaderAlone
<1>5. AckOK(ch'["e2i"].q, pc.I, pc.E)
  BY <1>1, <1>2, <1>3, PrefixOK DEF Base, AckFirst
<1>6. \A c \in Channel : ch[c].q = <<>> => ch'[c].q = <<>>
  BY <1>1, <1>2
<1>7. Dead(ch')
  BY <1>6 DEF Dead, Shorter, Base, EndsInv
<1> QED
  BY <1>4, <1>5, <1>6, <1>7

-----------------------------------------------------------------------------
(* Base is kept by the steps of the handshake.                              *)

(* internalProxy has dialled, and a handler has been started.               *)
LEMMA DialBase ==
  ASSUME Base, pc.I = "dial", pc' = [pc EXCEPT !.I = "header", !.E = "header"],
         UNCHANGED <<target, tls, ch, run, hold, client, server, reset>>
  PROVE  Base'
<1>1. pc' \in PcRec /\ pc'.I = "header" /\ pc'.E = "header" /\ pc.E = "none"
  BY TypeIs DEF Base, Order, PcRec
<1>2. TypeOK'
  BY <1>1, TypeIs, TypeNext DEF Base
<1>3. EndsInv'
  BY <1>1 DEF Base, EndsInv
<1>4. Order' /\ HeaderAlone' /\ AckFirst'
  BY <1>1, TypeIs DEF Base, Order, HeaderAlone, HeaderOK, AckFirst, AckOK, Channel
<1> QED
  BY <1>2, <1>3, <1>4 DEF Base

LEMMA WriteHeaderBase ==
  ASSUME Base, WriteHeader
  PROVE  Base'
<1>1. pc' \in PcRec /\ pc'.I = "ack" /\ pc'.E = pc.E /\ pc.I = "header"
  BY TypeIs DEF Base, WriteHeader, PcRec
<1>2. "i2e" \in Channel /\ Header \in Piece
  BY DEF Channel, Piece
<1>3. /\ ch' \in [Channel -> ChanRec]
      /\ \/ Put("i2e", Header) /\ Others(ch, ch', {"i2e"})
         \/ Refused("i2e") /\ Others(ch, ch', {"i2e", Back["i2e"]})
  BY <1>2, TypeIs, WritesEffect DEF Base, WriteHeader
<1>4. /\ run' = run /\ hold' = hold /\ client' = client /\ server' = server
      /\ target' = target /\ tls' = tls /\ reset' \in BOOLEAN
  BY <1>2, TypeIs DEF Base, WriteHeader, ChanRec
<1>5. \A c \in Channel : /\ Len(ch[c].q) \in Nat /\ Len(ch'[c].q) \in Nat
                         /\ ch[c].q = <<>> <=> Len(ch[c].q) = 0
                         /\ ch'[c].q = <<>> <=> Len(ch'[c].q) = 0
  BY <1>3, LenType, TypeIs DEF Base
<1>6. Order'
  BY <1>1, <1>4 DEF Base, Order
<1>7. CASE Put("i2e", Header) /\ Others(ch, ch', {"i2e"})
  <2>1. /\ Len(ch'["i2e"].q) = 1 /\ ch'["i2e"].q[1] = Header
        /\ \A c \in Channel \ {"i2e"} : ch'[c] = ch[c]
        /\ ~ch["i2e"].dead /\ Flags(ch, ch', "i2e")
    BY <1>1, <1>2, <1>5, <1>7 DEF Base, HeaderAlone, HeaderOK, Put, Others
  <2>2. Queue(ch'["i2e"].q, ClientData \cup {Header})
    BY <2>1, TunnelAssumption DEF Queue
  <2>3. QueuesOK(ch')
    BY <2>1, <2>2, TypeIs DEF Base, QueuesOK, Channel
  <2>4. TypeOK'
    BY <1>1, <1>3, <1>4, <2>3, TypeIs, TypeNext DEF Base
  <2>5. EndsInv'
    BY <1>1, <1>4, <2>1 DEF Base, EndsInv, Flags, Channel
  <2>6. HeaderAlone'
    BY <1>1, <2>1 DEF Base, EndsInv, Order, HeaderAlone, HeaderOK
  <2>7. AckFirst'
    BY <1>1, <2>1 DEF Base, AckFirst, AckOK, Channel
  <2> QED
    BY <1>6, <2>4, <2>5, <2>6, <2>7 DEF Base
<1>8. CASE Refused("i2e") /\ Others(ch, ch', {"i2e", Back["i2e"]})
  <2>1. Shorter /\ QueuesOK(ch') /\ ch["i2e"].dead
    BY <1>2, <1>3, <1>8, RefusedShorter DEF Base, Refused
  <2>2. TypeOK'
    BY <1>1, <1>3, <1>4, <2>1, TypeIs, TypeNext DEF Base
  <2>3. /\ HeaderOK(ch'["i2e"].q, pc.I, pc.E) /\ AckOK(ch'["e2i"].q, pc.I, pc.E)
        /\ Dead(ch') /\ \A c \in Channel : ch[c].q = <<>> => ch'[c].q = <<>>
    BY <1>3, <2>1, ShorterKeeps
  <2>4. EndsInv'
    BY <1>1, <1>4, <2>1, <2>3 DEF Base, EndsInv, Dead, Shorter, Channel
  <2>5. HeaderAlone' /\ AckFirst'
    BY <1>1, <2>3 DEF HeaderAlone, HeaderOK, AckFirst, AckOK
  <2> QED
    BY <1>6, <2>2, <2>4, <2>5 DEF Base
<1> QED
  BY <1>3, <1>7, <1>8

(* What a Read into tmp takes: at least one piece, with TLS exactly one.    *)
LEMMA DropEffect ==
  ASSUME ch \in [Channel -> ChanRec], NEW c \in Channel, ch[c].q # <<>>,
         NEW n \in ReadSizes(ch[c].q), ch' = [ch EXCEPT ![c].q = Drop(@, n)]
  PROVE  /\ ch' \in [Channel -> ChanRec]
         /\ n \in 1 .. Len(ch[c].q) /\ (tls => n = 1)
         /\ Len(ch'[c].q) = Len(ch[c].q) - n
         /\ \A i \in 1 .. Len(ch[c].q) - n : ch'[c].q[i] = ch[c].q[i + n]
         /\ Flags(ch, ch', c) /\ Others(ch, ch', {c})
<1>1. ch[c] \in ChanRec
  OBVIOUS
<1>2. ch[c].q \in Seq(Piece)
  BY <1>1 DEF ChanRec
<1>3. Len(ch[c].q) \in Nat /\ Len(ch[c].q) > 0
  BY <1>2
<1>4. n \in 1 .. Len(ch[c].q) /\ (tls => n = 1)
  BY <1>3 DEF ReadSizes
<1>5. /\ Drop(ch[c].q, n) \in Seq(Piece)
      /\ Len(Drop(ch[c].q, n)) = Len(ch[c].q) - n
      /\ \A i \in 1 .. Len(ch[c].q) - n : Drop(ch[c].q, n)[i] = ch[c].q[i + n]
  BY <1>2, <1>3, <1>4 DEF Drop
<1>6. /\ ch' \in [Channel -> ChanRec]
      /\ ch'[c].q = Drop(ch[c].q, n) /\ Flags(ch, ch', c)
      /\ Others(ch, ch', {c})
  BY <1>5, QueueEffect
<1> QED
  BY <1>4, <1>5, <1>6

LEMMA ReadAckBase ==
  ASSUME Base, ReadAck
  PROVE  Base'
<1>1. /\ pc' \in PcRec /\ pc'.I = "copy" /\ pc'.E = pc.E /\ pc.I = "ack"
      /\ run' \in [Copier -> {"off", "run", "end"}]
      /\ run'["Iup"] = "run" /\ run'["Idn"] = "run"
      /\ run'["Eup"] = run["Eup"] /\ run'["Edn"] = run["Edn"]
  BY TypeIs, RolesAre DEF Base, ReadAck, StartCopies, PcRec, Copier
<1>2. /\ hold' = hold /\ client' = client /\ server' = server
      /\ target' = target /\ tls' = tls /\ reset' = reset
  BY DEF ReadAck
<1>3. HoldsOK(hold', run')
  BY <1>1, <1>2, TypeIs DEF Base, HoldsOK
<1>4. "e2i" \in Channel
  BY DEF Channel
<1>5. \A c \in Channel : /\ Len(ch[c].q) \in Nat
                         /\ ch[c].q = <<>> <=> Len(ch[c].q) = 0
  BY TypeIs DEF Base
<1>6. CASE AtEnd("e2i") /\ UNCHANGED ch
  <2>1. pc.E = "done"
    BY <1>6 DEF AtEnd, Base, EndsInv
  <2>2. TypeOK'
    BY <1>1, <1>2, <1>3, <1>6, TypeIs, TypeNext DEF Base
  <2>3. EndsInv'
    BY <1>1, <1>2, <1>6 DEF Base, EndsInv
  <2>4. Order' /\ HeaderAlone'
    BY <1>1, <1>2, <1>6, <2>1 DEF Base, Order, HeaderAlone, HeaderOK
  <2>5. AckFirst'
    BY <1>1, <1>4, <1>5, <1>6, <2>1 DEF AckFirst, AckOK, AtEnd
  <2> QED
    BY <2>2, <2>3, <2>4, <2>5 DEF Base
<1>7. ASSUME ch["e2i"].q # <<>>, NEW n \in ReadSizes(ch["e2i"].q),
             ch' = [ch EXCEPT !["e2i"].q = Drop(@, n)]
      PROVE  Base'
  <2>1. /\ ch' \in [Channel -> ChanRec]
        /\ n \in 1 .. Len(ch["e2i"].q)
        /\ Len(ch'["e2i"].q) = Len(ch["e2i"].q) - n
        /\ \A i \in 1 .. Len(ch["e2i"].q) - n : ch'["e2i"].q[i] = ch["e2i"].q[i + n]
        /\ Flags(ch, ch', "e2i") /\ Others(ch, ch', {"e2i"})
    BY <1>4, <1>7, DropEffect, TypeIs DEF Base
  <2>2. pc.E \in {"copy", "done"} /\ ~ch["e2i"].dead
    BY <1>4, <1>7 DEF Base, AckFirst, AckOK, EndsInv
  <2>3. \A i \in 1 .. Len(ch["e2i"].q) - n : i + n \in 1 .. Len(ch["e2i"].q) /\ i + n # 1
    BY <1>4, <1>5, <2>1
  <2>4. Queue(ch'["e2i"].q, ServerData \cup {Ack})
    <3>1. Queue(ch["e2i"].q, ServerData \cup {Ack})
      BY TypeIs DEF Base, QueuesOK
    <3>2. Len(ch'["e2i"].q) <= SockBuf
      BY <1>4, <1>5, <2>1, <3>1, TunnelAssumption DEF Queue
    <3>3. \A i \in 1 .. Len(ch'["e2i"].q) : ch'["e2i"].q[i] \in ServerData \cup {Ack}
      BY <2>1, <2>3, <3>1 DEF Queue
    <3> QED
      BY <3>2, <3>3 DEF Queue
  <2>5. QueuesOK(ch')
    BY <2>1, <2>4, TypeIs DEF Base, QueuesOK, Others, Channel
  <2>6. TypeOK'
    BY <1>1, <1>2, <1>3, <2>1, <2>5, TypeIs, TypeNext DEF Base
  <2>7. EndsInv'
    BY <1>1, <1>2, <2>1, <2>2 DEF Base, EndsInv, Flags, Others, Channel
  <2>8. Order' /\ HeaderAlone'
    BY <1>1, <1>2, <2>1, <2>2 DEF Base, Order, HeaderAlone, HeaderOK, Others, Channel
  <2>9. AckFirst'
    <3>1. \A i \in 1 .. Len(ch["e2i"].q) : ch["e2i"].q[i] = Ack => i = 1
      BY <1>1 DEF Base, AckFirst, AckOK
    <3>2. \A i \in 1 .. Len(ch'["e2i"].q) : ch'["e2i"].q[i] # Ack
      BY <2>1, <2>3, <3>1
    <3> QED
      BY <1>1, <2>2, <3>2 DEF AckFirst, AckOK
  <2> QED
    BY <2>6, <2>7, <2>8, <2>9 DEF Base
<1> QED
  BY <1>6, <1>7 DEF ReadAck

(* The header has been read and the destination accepted.                   *)
LEMMA ReadHeaderBase ==
  ASSUME Base, pc.E = "header", ch["i2e"].q # <<>>, NEW n \in ReadSizes(ch["i2e"].q),
         ch' = [ch EXCEPT !["i2e"].q = Drop(@, n)],
         pc' = [pc EXCEPT !.E = "dial"],
         UNCHANGED <<target, tls, run, hold, client, server, reset>>
  PROVE  Base' /\ ch'["i2e"].q = <<>> /\ Others(ch, ch', {"i2e"})
<1>1. pc' \in PcRec /\ pc'.I = pc.I /\ pc'.E = "dial"
  BY TypeIs DEF Base, PcRec
<1>2. "i2e" \in Channel
  BY DEF Channel
<1>3. /\ ch' \in [Channel -> ChanRec]
      /\ n \in 1 .. Len(ch["i2e"].q)
      /\ Len(ch'["i2e"].q) = Len(ch["i2e"].q) - n
      /\ Flags(ch, ch', "i2e") /\ Others(ch, ch', {"i2e"})
  BY <1>2, DropEffect, TypeIs DEF Base
<1>4. \A c \in Channel : /\ Len(ch[c].q) \in Nat /\ Len(ch'[c].q) \in Nat
                         /\ ch[c].q = <<>> <=> Len(ch[c].q) = 0
                         /\ ch'[c].q = <<>> <=> Len(ch'[c].q) = 0
  BY <1>3, LenType, TypeIs DEF Base
<1>5. Len(ch["i2e"].q) = 1
  <2>1. \A i \in 1 .. Len(ch["i2e"].q) : i = 1
    BY DEF Base, HeaderAlone, HeaderOK
  <2>2. Len(ch["i2e"].q) \in 1 .. Len(ch["i2e"].q)
    BY <1>2, <1>4
  <2> QED
    BY <2>1, <2>2
<1>6. ch'["i2e"].q = <<>> /\ Len(ch'["i2e"].q) = 0
  BY <1>2, <1>3, <1>4, <1>5
<1>7. pc.I \notin {"dial", "header"}
  BY DEF Base, HeaderAlone, HeaderOK
<1>8. QueuesOK(ch')
  BY <1>3, <1>6, TypeIs, TunnelAssumption DEF Base, QueuesOK, Queue, Others, Channel
<1>9. TypeOK'
  BY <1>1, <1>3, <1>8, TypeIs, TypeNext DEF Base
<1>10. EndsInv'
  BY <1>1, <1>3, <1>6 DEF Base, EndsInv, Flags, Others, Channel
<1>11. Order' /\ HeaderAlone' /\ AckFirst'
  BY <1>1, <1>3, <1>6, <1>7
     DEF Base, Order, HeaderAlone, HeaderOK, AckFirst, AckOK, Others, Channel
<1> QED
  BY <1>3, <1>6, <1>9, <1>10, <1>11 DEF Base

(* The server has been dialled.                                             *)
LEMMA ExternalDialBase ==
  ASSUME Base, pc.E = "dial", pc' = [pc EXCEPT !.E = "ack"],
         server' = [server EXCEPT !.st = "open"],
         UNCHANGED <<target, tls, ch, run, hold, client, reset>>
  PROVE  Base'
<1>1. pc' \in PcRec /\ pc'.I = pc.I /\ pc'.E = "ack"
  BY TypeIs DEF Base, PcRec
<1>2. server' \in ServerRec /\ server'.st = "open"
  BY TypeIs DEF Base, ServerRec
<1>3. TypeOK'
  BY <1>1, <1>2, TypeIs, TypeNext DEF Base
<1>4. EndsInv'
  BY <1>1, <1>2 DEF Base, EndsInv, Order
<1>5. Order' /\ HeaderAlone' /\ AckFirst'
  BY <1>1, <1>2 DEF Base, Order, HeaderAlone, HeaderOK, AckFirst, AckOK
<1> QED
  BY <1>3, <1>4, <1>5 DEF Base

-----------------------------------------------------------------------------
(* Base is kept by whoever writes to a channel, if it is neither the header *)
(* nor the ack.                                                             *)
LEMMA WriteBase ==
  ASSUME Base, NEW out \in Channel, NEW v \in Carries[out] \cap Piece,
         CanWrite(out), ch' \in Writes(out, v),
         out = "i2e" => pc.I = "copy" /\ v # Header,
         out = "e2i" => pc.E = "copy" /\ v # Ack,
         UNCHANGED <<target, tls, pc, run>>,
         hold' \in [Copier -> Piece \cup {Nothing}], HoldsOK(hold', run'),
         client' \in ClientRec, client'.st = client.st,
         server' \in ServerRec, server'.st = server.st,
         reset' \in BOOLEAN
  PROVE  Base'
<1>1. /\ ch' \in [Channel -> ChanRec]
      /\ \/ Put(out, v) /\ Others(ch, ch', {out})
         \/ Refused(out) /\ Others(ch, ch', {out, Back[out]})
  BY TypeIs, WritesEffect DEF Base
<1>2. \A c \in Channel : /\ Len(ch[c].q) \in Nat /\ Len(ch'[c].q) \in Nat
                         /\ ch[c].q = <<>> <=> Len(ch[c].q) = 0
                         /\ ch'[c].q = <<>> <=> Len(ch'[c].q) = 0
  BY <1>1, LenType, TypeIs DEF Base
<1>3. Order'
  BY DEF Base, Order
<1>4. CASE Put(out, v) /\ Others(ch, ch', {out})
  <2>1. /\ ~ch[out].dead /\ Flags(ch, ch', out)
        /\ \A c \in Channel \ {out} : ch'[c] = ch[c]
        /\ Len(ch'[out].q) = Len(ch[out].q) + 1
        /\ \A i \in 1 .. Len(ch'[out].q) :
              \/ i \in 1 .. Len(ch[out].q) /\ ch'[out].q[i] = ch[out].q[i]
              \/ i = Len(ch[out].q) + 1 /\ ch'[out].q[i] = v
    BY <1>2, <1>4 DEF Put, Others
  <2>2. \A c \in Channel : Queue(ch[c].q, Carries[c])
    BY TypeIs, QueuesAll DEF Base
  <2>3. Queue(ch'[out].q, Carries[out])
    <3>1. Len(ch'[out].q) <= SockBuf
      BY <1>2, <2>1, TunnelAssumption DEF CanWrite
    <3>2. \A i \in 1 .. Len(ch'[out].q) : ch'[out].q[i] \in Carries[out]
      BY <2>1, <2>2 DEF Queue
    <3> QED
      BY <3>1, <3>2 DEF Queue
  <2>4. QueuesOK(ch')
    <3>1. \A c \in Channel : Queue(ch'[c].q, Carries[c])
      BY <2>1, <2>2, <2>3
    <3> QED
      BY <3>1, QueuesAll
  <2>5. TypeOK'
    BY <1>1, <2>4, TypeIs, TypeNext DEF Base
  <2>6. EndsInv'
    <3>1. \A c \in Channel : /\ ch'[c].fin = ch[c].fin /\ ch'[c].dead = ch[c].dead
                             /\ ch'[c].rst = ch[c].rst
      BY <2>1 DEF Flags
    <3>2. Dead(ch')
      BY <2>1, <3>1 DEF Dead, Base, EndsInv
    <3>3. pc.I = "done" => out # "e2i"
      BY <2>1 DEF Base, EndsInv
    <3>4. pc.I = "done" => ch'["e2i"].q = <<>>
      BY <2>1, <3>3 DEF Base, EndsInv, Channel
    <3> QED
      BY <3>1, <3>2, <3>4 DEF Base, EndsInv, Dead, Channel
  <2>7. HeaderAlone'
    <3>1. CASE out = "i2e"
      <4>1. pc.E = "copy"
        BY <2>1, <3>1 DEF Base, EndsInv, Order
      <4>2. \A n \in 1 .. Len(ch["i2e"].q) : ch["i2e"].q[n] # Header
        BY <4>1 DEF Base, HeaderAlone, HeaderOK
      <4>3. \A n \in 1 .. Len(ch'["i2e"].q) : ch'["i2e"].q[n] # Header
        BY <2>1, <3>1, <4>2
      <4> QED
        BY <3>1, <4>1, <4>3 DEF HeaderAlone, HeaderOK
    <3>2. CASE out # "i2e"
      BY <2>1, <3>2 DEF Base, HeaderAlone, Channel
    <3> QED
      BY <3>1, <3>2
  <2>8. AckFirst'
    <3>1. CASE out = "e2i"
      <4>1. \A n \in 1 .. Len(ch'["e2i"].q) : ch'["e2i"].q[n] = Ack =>
              n \in 1 .. Len(ch["e2i"].q) /\ ch["e2i"].q[n] = Ack
        BY <2>1, <3>1
      <4> QED
        BY <3>1, <4>1 DEF Base, AckFirst, AckOK
    <3>2. CASE out # "e2i"
      BY <2>1, <3>2 DEF Base, AckFirst, Channel
    <3> QED
      BY <3>1, <3>2
  <2> QED
    BY <1>3, <2>5, <2>6, <2>7, <2>8 DEF Base
<1>5. CASE Refused(out) /\ Others(ch, ch', {out, Back[out]})
  <2>1. Shorter /\ QueuesOK(ch')
    BY <1>1, <1>5, RefusedShorter DEF Base
  <2>2. TypeOK'
    BY <1>1, <2>1, TypeIs, TypeNext DEF Base
  <2>3. /\ HeaderOK(ch'["i2e"].q, pc.I, pc.E) /\ AckOK(ch'["e2i"].q, pc.I, pc.E)
        /\ Dead(ch') /\ \A c \in Channel : ch[c].q = <<>> => ch'[c].q = <<>>
    BY <1>1, <2>1, ShorterKeeps
  <2>4. EndsInv'
    BY <2>1, <2>3 DEF Base, EndsInv, Dead, Shorter, Channel
  <2>5. HeaderAlone' /\ AckFirst'
    BY <2>3 DEF HeaderAlone, AckFirst
  <2> QED
    BY <1>3, <2>2, <2>4, <2>5 DEF Base
<1> QED
  BY <1>1, <1>4, <1>5

(* Base is kept by whoever reads one piece, once its handler copies.        *)
LEMMA ReadBase ==
  ASSUME Base, NEW c \in Channel, ch' \in [Channel -> ChanRec],
         Got(c), Others(ch, ch', {c}),
         c = "i2e" => pc.E = "copy",
         c = "e2i" => pc.I = "copy",
         UNCHANGED <<target, tls, pc, run, reset>>,
         hold' \in [Copier -> Piece \cup {Nothing}], HoldsOK(hold', run'),
         client' \in ClientRec, client'.st = client.st,
         server' \in ServerRec, server'.st = server.st
  PROVE  Base'
<1>1. \A o \in Channel : /\ Len(ch[o].q) \in Nat /\ Len(ch'[o].q) \in Nat
                         /\ ch[o].q = <<>> <=> Len(ch[o].q) = 0
                         /\ ch'[o].q = <<>> <=> Len(ch'[o].q) = 0
  BY LenType, TypeIs DEF Base
<1>2. /\ Flags(ch, ch', c) /\ ch[c].q # <<>>
      /\ \A o \in Channel \ {c} : ch'[o] = ch[o]
      /\ Len(ch'[c].q) = Len(ch[c].q) - 1
      /\ \A i \in 1 .. Len(ch'[c].q) :
            i + 1 \in 1 .. Len(ch[c].q) /\ ch'[c].q[i] = ch[c].q[i + 1]
  BY <1>1 DEF Got, Others
<1>3. \A o \in Channel : Queue(ch[o].q, Carries[o])
  BY TypeIs, QueuesAll DEF Base
<1>4. Queue(ch'[c].q, Carries[c])
  <2>1. Len(ch'[c].q) <= SockBuf
    BY <1>1, <1>2, <1>3, TunnelAssumption DEF Queue
  <2>2. \A i \in 1 .. Len(ch'[c].q) : ch'[c].q[i] \in Carries[c]
    BY <1>2, <1>3 DEF Queue
  <2> QED
    BY <2>1, <2>2 DEF Queue
<1>5. QueuesOK(ch')
  <2>1. \A o \in Channel : Queue(ch'[o].q, Carries[o])
    BY <1>2, <1>3, <1>4
  <2> QED
    BY <2>1, QueuesAll
<1>6. TypeOK'
  BY <1>5, TypeIs, TypeNext DEF Base
<1>7. EndsInv'
  <2>1. \A o \in Channel : /\ ch'[o].fin = ch[o].fin /\ ch'[o].dead = ch[o].dead
                           /\ ch'[o].rst = ch[o].rst
    BY <1>2 DEF Flags
  <2>2. \A o \in Channel : ch[o].q = <<>> => ch'[o].q = <<>>
    BY <1>2
  <2> QED
    BY <2>1, <2>2 DEF Base, EndsInv, Channel
<1>8. Order'
  BY DEF Base, Order
<1>9. HeaderAlone'
  <2>1. CASE c = "i2e"
    BY <1>2, <2>1 DEF Base, Order, HeaderAlone, HeaderOK
  <2>2. CASE c # "i2e"
    BY <1>2, <2>2 DEF Base, HeaderAlone, Channel
  <2> QED
    BY <2>1, <2>2
<1>10. AckFirst'
  <2>1. CASE c = "e2i"
    BY <1>2, <2>1 DEF Base, Order, AckFirst, AckOK
  <2>2. CASE c # "e2i"
    BY <1>2, <2>2 DEF Base, AckFirst, Channel
  <2> QED
    BY <2>1, <2>2
<1> QED
  BY <1>6, <1>7, <1>8, <1>9, <1>10 DEF Base

LEMMA WriteAckBase ==
  ASSUME Base, WriteAck
  PROVE  Base'
<1>1. /\ pc' \in PcRec /\ pc'.I = pc.I /\ pc'.E = "copy" /\ pc.E = "ack"
      /\ run' \in [Copier -> {"off", "run", "end"}]
      /\ run'["Eup"] = "run" /\ run'["Edn"] = "run"
      /\ run'["Iup"] = run["Iup"] /\ run'["Idn"] = run["Idn"]
  BY TypeIs, RolesAre DEF Base, WriteAck, StartCopies, PcRec, Copier
<1>2. /\ hold' = hold /\ client' = client /\ server' = server
      /\ target' = target /\ tls' = tls /\ reset' \in BOOLEAN
  BY TypeIs DEF Base, WriteAck, ChanRec, Channel
<1>3. HoldsOK(hold', run')
  BY <1>1, <1>2, TypeIs DEF Base, HoldsOK
<1>4. "e2i" \in Channel /\ Ack \in Piece
  BY DEF Channel, Piece
<1>5. /\ ch' \in [Channel -> ChanRec]
      /\ \/ Put("e2i", Ack) /\ Others(ch, ch', {"e2i"})
         \/ Refused("e2i") /\ Others(ch, ch', {"e2i", Back["e2i"]})
  BY <1>4, TypeIs, WritesEffect DEF Base, WriteAck
<1>6. \A c \in Channel : /\ Len(ch[c].q) \in Nat /\ Len(ch'[c].q) \in Nat
                         /\ ch[c].q = <<>> <=> Len(ch[c].q) = 0
                         /\ ch'[c].q = <<>> <=> Len(ch'[c].q) = 0
  BY <1>5, LenType, TypeIs DEF Base
<1>7. Order' /\ pc.I \notin {"dial", "header", "copy"}
  BY <1>1, <1>2 DEF Base, Order
<1>8. CASE Put("e2i", Ack) /\ Others(ch, ch', {"e2i"})
  <2>1. /\ Len(ch'["e2i"].q) = 1 /\ ch'["e2i"].q[1] = Ack
        /\ \A c \in Channel \ {"e2i"} : ch'[c] = ch[c]
        /\ ~ch["e2i"].dead /\ Flags(ch, ch', "e2i")
    BY <1>1, <1>4, <1>6, <1>8 DEF Base, AckFirst, AckOK, Put, Others
  <2>2. pc.I = "ack"
    BY <1>1, <1>7, <2>1, TypeIs DEF Base, EndsInv, Order, PcRec
  <2>3. Queue(ch'["e2i"].q, ServerData \cup {Ack})
    BY <2>1, TunnelAssumption DEF Queue
  <2>4. QueuesOK(ch')
    BY <2>1, <2>3, TypeIs DEF Base, QueuesOK, Channel
  <2>5. TypeOK'
    BY <1>1, <1>2, <1>3, <1>5, <2>4, TypeIs, TypeNext DEF Base
  <2>6. EndsInv'
    BY <1>1, <1>2, <2>1, <2>2 DEF Base, EndsInv, Flags, Channel
  <2>7. HeaderAlone'
    BY <1>1, <1>6, <2>1 DEF Base, HeaderAlone, HeaderOK, Channel
  <2>8. AckFirst'
    BY <1>1, <2>1, <2>2 DEF AckFirst, AckOK
  <2> QED
    BY <1>7, <2>5, <2>6, <2>7, <2>8 DEF Base
<1>9. CASE Refused("e2i") /\ Others(ch, ch', {"e2i", Back["e2i"]})
  <2>1. Shorter /\ QueuesOK(ch')
    BY <1>4, <1>5, <1>9, RefusedShorter DEF Base
  <2>2. TypeOK'
    BY <1>1, <1>2, <1>3, <1>5, <2>1, TypeIs, TypeNext DEF Base
  <2>3. /\ HeaderOK(ch'["i2e"].q, pc.I, pc.E) /\ AckOK(ch'["e2i"].q, pc.I, pc.E)
        /\ Dead(ch') /\ \A c \in Channel : ch[c].q = <<>> => ch'[c].q = <<>>
    BY <1>5, <2>1, ShorterKeeps
  <2>4. EndsInv'
    BY <1>1, <1>2, <2>1, <2>3 DEF Base, EndsInv, Dead, Shorter, Channel
  <2>5. HeaderAlone' /\ AckFirst'
    BY <1>1, <1>7, <2>3 DEF HeaderAlone, HeaderOK, AckFirst, AckOK
  <2> QED
    BY <1>7, <2>2, <2>4, <2>5 DEF Base
<1> QED
  BY <1>5, <1>8, <1>9

LEMMA CopyReadBase ==
  ASSUME Base, NEW k \in Copier, CopyRead(k)
  PROVE  /\ Base'
         /\ Got(From[k]) /\ Others(ch, ch', {From[k]})
         /\ hold'[k] = ch[From[k]].q[1]
         /\ \A o \in Copier \ {k} : hold'[o] = hold[o]
<1>1. From[k] \in Channel
  BY RolesAre DEF Copier, Channel
<1>2. /\ ch' \in [Channel -> ChanRec]
      /\ Got(From[k]) /\ Others(ch, ch', {From[k]})
      /\ Head(ch[From[k]].q) = ch[From[k]].q[1]
  BY <1>1, TypeIs, TailEffect DEF Base, CopyRead
<1>3. Len(ch[From[k]].q) \in Nat /\ 1 \in 1 .. Len(ch[From[k]].q)
  BY <1>1, <1>2, TypeIs DEF Base, Got
<1>4. hold' = [hold EXCEPT ![k] = ch[From[k]].q[1]] /\ run[k] = "run"
  BY <1>2 DEF CopyRead
<1>5. /\ hold'[k] = ch[From[k]].q[1]
      /\ \A o \in Copier \ {k} : hold'[o] = hold[o]
  BY <1>4, TypeIs DEF Base
<1>6. ch[From[k]].q[1] \in Piece
  <2>1. ch[From[k]].q \in Seq(Piece)
    BY <1>1, TypeIs DEF Base, ChanRec
  <2> QED
    BY <1>3, <2>1
<1>7. hold' \in [Copier -> Piece \cup {Nothing}]
  BY <1>4, <1>6, TypeIs DEF Base
<1>8. /\ UNCHANGED <<target, tls, pc, run, reset>>
      /\ client' = client /\ server' = server /\ pc[Side[k]] = "copy"
  BY DEF CopyRead
<1>9. /\ k = "Iup" => ch["c2i"].q[1] \in ClientData
      /\ k = "Edn" => ch["s2e"].q[1] \in ServerData
      /\ k = "Eup" => pc.E = "copy" /\ ch["i2e"].q[1] \in ClientData
      /\ k = "Idn" => pc.I = "copy" /\ ch["e2i"].q[1] \in ServerData
  <2>1. k = "Iup" => ch["c2i"].q[1] \in ClientData
    BY <1>3, TypeIs, RolesAre DEF Base, QueuesOK, Queue
  <2>2. k = "Edn" => ch["s2e"].q[1] \in ServerData
    BY <1>3, TypeIs, RolesAre DEF Base, QueuesOK, Queue
  <2>3. k = "Eup" => pc.E = "copy" /\ ch["i2e"].q[1] \in ClientData
    BY <1>3, <1>8, TypeIs, RolesAre DEF Base, QueuesOK, Queue, HeaderAlone, HeaderOK
  <2>4. k = "Idn" => pc.I = "copy" /\ ch["e2i"].q[1] \in ServerData
    BY <1>3, <1>8, TypeIs, RolesAre DEF Base, QueuesOK, Queue, AckFirst, AckOK
  <2> QED
    BY <2>1, <2>2, <2>3, <2>4
<1>10. HoldsOK(hold', run')
  BY <1>4, <1>5, <1>8, <1>9, TypeIs, RolesAre DEF Base, HoldsOK, Copier
<1>11. /\ From[k] = "i2e" => pc.E = "copy"
       /\ From[k] = "e2i" => pc.I = "copy"
  BY <1>9, RolesAre DEF Copier
<1>12. Base'
  BY <1>1, <1>2, <1>7, <1>8, <1>10, <1>11, TypeIs, ReadBase DEF Base
<1> QED
  BY <1>2, <1>5, <1>12

LEMMA CopyWriteBase ==
  ASSUME Base, NEW k \in Copier, CopyWrite(k)
  PROVE  /\ Base'
         /\ \/ Put(To[k], hold[k]) /\ Others(ch, ch', {To[k]})
            \/ Refused(To[k]) /\ Others(ch, ch', {To[k], Back[To[k]]})
         /\ hold'[k] = Nothing
         /\ \A o \in Copier \ {k} : hold'[o] = hold[o]
<1>1. To[k] \in Channel
  BY RolesAre DEF Copier, Channel
<1>2. /\ hold' = [hold EXCEPT ![k] = Nothing] /\ hold[k] # Nothing
      /\ CanWrite(To[k]) /\ ch' \in Writes(To[k], hold[k])
      /\ UNCHANGED <<target, tls, pc, run>>
      /\ client' = client /\ server' = server /\ pc[Side[k]] = "copy"
  BY DEF CopyWrite
<1>3. /\ hold'[k] = Nothing
      /\ \A o \in Copier \ {k} : hold'[o] = hold[o]
      /\ hold' \in [Copier -> Piece \cup {Nothing}]
  BY <1>2, TypeIs DEF Base
<1>4. HoldsOK(hold', run')
  BY <1>2, <1>3, TypeIs DEF Base, HoldsOK, Copier
<1>5. hold[k] \in Carries[To[k]] \cap Piece
  BY <1>2, TypeIs DEF Base, TypeOK
<1>6. /\ To[k] = "i2e" => pc.I = "copy" /\ hold[k] # Header
      /\ To[k] = "e2i" => pc.E = "copy" /\ hold[k] # Ack
  <2>1. To[k] = "i2e" => k = "Iup"
    BY RolesAre DEF Copier
  <2>2. To[k] = "e2i" => k = "Edn"
    BY RolesAre DEF Copier
  <2> QED
    BY <1>2, <2>1, <2>2, TypeIs, RolesAre, PiecesDiffer DEF Base, HoldsOK
<1>7. reset' \in BOOLEAN
  BY <1>1, TypeIs DEF Base, ChanRec, CopyWrite
<1>8. Base'
  BY <1>1, <1>2, <1>3, <1>4, <1>5, <1>6, <1>7, TypeIs, WriteBase DEF Base
<1>9. \/ Put(To[k], hold[k]) /\ Others(ch, ch', {To[k]})
      \/ Refused(To[k]) /\ Others(ch, ch', {To[k], Back[To[k]]})
  BY <1>1, <1>2, <1>5, TypeIs, WritesEffect DEF Base
<1> QED
  BY <1>3, <1>8, <1>9

LEMMA UpEndsBase ==
  ASSUME Base, NEW p \in {"I", "E"}, UpEnds(p)
  PROVE  /\ Base'
         /\ hold'[Up[p]] = Nothing
         /\ \A o \in Copier \ {Up[p]} : hold'[o] = hold[o]
<1>1. Up[p] \in Copier /\ Up[p] \in {"Iup", "Eup"}
  BY RolesAre DEF Copier
<1>2. /\ run' = [run EXCEPT ![Up[p]] = "end"] /\ hold' = [hold EXCEPT ![Up[p]] = Nothing]
      /\ UNCHANGED <<target, tls, pc, ch, client, server, reset>> /\ run[Up[p]] = "run"
  BY DEF UpEnds
<1>3. /\ run' \in [Copier -> {"off", "run", "end"}]
      /\ hold' \in [Copier -> Piece \cup {Nothing}]
      /\ run'[Up[p]] = "end" /\ hold'[Up[p]] = Nothing
      /\ \A o \in Copier \ {Up[p]} : hold'[o] = hold[o] /\ run'[o] = run[o]
  BY <1>1, <1>2, TypeIs DEF Base
<1>4. HoldsOK(hold', run')
  BY <1>1, <1>3, TypeIs DEF Base, HoldsOK, Copier
<1>5. TypeOK'
  BY <1>2, <1>3, <1>4, TypeIs, TypeNext DEF Base
<1>6. EndsInv'
  BY <1>2 DEF Base, EndsInv
<1>7. Order'
  BY <1>1, <1>2, <1>3 DEF Base, Order, Copier
<1>8. HeaderAlone' /\ AckFirst'
  BY <1>2 DEF Base, HeaderAlone, AckFirst
<1> QED
  BY <1>3, <1>5, <1>6, <1>7, <1>8 DEF Base

-----------------------------------------------------------------------------
(* A handler returns or its process ends: what all the ways have in common. *)

Stopped(up, dn) ==
  /\ run' \in [Copier -> {"off", "run", "end"}]
  /\ hold' \in [Copier -> Piece \cup {Nothing}]
  /\ HoldsOK(hold', run')
  /\ run'[dn] # "run"
  /\ \A o \in Copier \ {up, dn} : hold'[o] = hold[o] /\ run'[o] = run[o]
  /\ ch' \in [Channel -> ChanRec]
  /\ reset' \in BOOLEAN
  /\ UNCHANGED <<target, tls, client, server>>

StopsI ==
  /\ pc.I # "done" /\ pc' = [pc EXCEPT !.I = "done"]
  /\ Stopped("Iup", "Idn")
  /\ Shut(ch, ch', "i2c") /\ Gone(ch, ch', "c2i")
  /\ ch'["e2s"] = ch["e2s"] /\ ch'["s2e"] = ch["s2e"]
  /\ \/ pc.I = "dial" /\ ch'["i2e"] = ch["i2e"] /\ ch'["e2i"] = ch["e2i"]
     \/ pc.I # "dial" /\ Shut(ch, ch', "i2e") /\ Gone(ch, ch', "e2i")

StopsE ==
  /\ pc.E \notin {"none", "done"} /\ pc' = [pc EXCEPT !.E = "done"]
  /\ Stopped("Eup", "Edn")
  /\ Shut(ch, ch', "e2i") /\ Gone(ch, ch', "i2e")
  /\ ch'["c2i"] = ch["c2i"] /\ ch'["i2c"] = ch["i2c"]
  /\ \/ pc.E \in {"header", "dial"} /\ ch'["e2s"] = ch["e2s"] /\ ch'["s2e"] = ch["s2e"]
     \/ pc.E \in {"ack", "copy"} /\ Shut(ch, ch', "e2s") /\ Gone(ch, ch', "s2e")

LEMMA CloseI ==
  ASSUME TypeOK
  PROVE  /\ ch' \in Closes(ch, "i2c") =>
              /\ ch' \in [Channel -> ChanRec]
              /\ Shut(ch, ch', "i2c") /\ Gone(ch, ch', "c2i")
              /\ Others(ch, ch', {"i2c", "c2i"})
         /\ ch' \in CloseTwo(ch, "i2e", "i2c") =>
              /\ ch' \in [Channel -> ChanRec]
              /\ Shut(ch, ch', "i2c") /\ Gone(ch, ch', "c2i")
              /\ Shut(ch, ch', "i2e") /\ Gone(ch, ch', "e2i")
              /\ Others(ch, ch', {"i2c", "c2i", "i2e", "e2i"})
<1>1. /\ "i2c" \in Channel /\ "i2e" \in Channel
      /\ {"i2e", "e2i"} \cap {"i2c", "c2i"} = {}
      /\ ch \in [Channel -> ChanRec]
  BY TypeIs DEF Channel
<1>2. ch' \in Closes(ch, "i2c") =>
        /\ ch' \in [Channel -> ChanRec]
        /\ Shut(ch, ch', "i2c") /\ Gone(ch, ch', Back["i2c"])
        /\ Others(ch, ch', {"i2c", Back["i2c"]})
  BY <1>1, ClosesEffect
<1>3. ch' \in CloseTwo(ch, "i2e", "i2c") =>
        /\ ch' \in [Channel -> ChanRec]
        /\ Shut(ch, ch', "i2e") /\ Gone(ch, ch', Back["i2e"])
        /\ Shut(ch, ch', "i2c") /\ Gone(ch, ch', Back["i2c"])
        /\ Others(ch, ch', {"i2e", Back["i2e"], "i2c", Back["i2c"]})
  BY <1>1, BackIs, CloseTwoEffect
<1> QED
  BY <1>2, <1>3, BackIs DEF Others

LEMMA CloseE ==
  ASSUME TypeOK
  PROVE  /\ ch' \in Closes(ch, "e2i") =>
              /\ ch' \in [Channel -> ChanRec]
              /\ Shut(ch, ch', "e2i") /\ Gone(ch, ch', "i2e")
              /\ Others(ch, ch', {"e2i", "i2e"})
         /\ ch' \in CloseTwo(ch, "e2s", "e2i") =>
              /\ ch' \in [Channel -> ChanRec]
              /\ Shut(ch, ch', "e2i") /\ Gone(ch, ch', "i2e")
              /\ Shut(ch, ch', "e2s") /\ Gone(ch, ch', "s2e")
              /\ Others(ch, ch', {"e2i", "i2e", "e2s", "s2e"})
<1>1. /\ "e2i" \in Channel /\ "e2s" \in Channel
      /\ {"e2s", "s2e"} \cap {"e2i", "i2e"} = {}
      /\ ch \in [Channel -> ChanRec]
  BY TypeIs DEF Channel
<1>2. ch' \in Closes(ch, "e2i") =>
        /\ ch' \in [Channel -> ChanRec]
        /\ Shut(ch, ch', "e2i") /\ Gone(ch, ch', Back["e2i"])
        /\ Others(ch, ch', {"e2i", Back["e2i"]})
  BY <1>1, ClosesEffect
<1>3. ch' \in CloseTwo(ch, "e2s", "e2i") =>
        /\ ch' \in [Channel -> ChanRec]
        /\ Shut(ch, ch', "e2s") /\ Gone(ch, ch', Back["e2s"])
        /\ Shut(ch, ch', "e2i") /\ Gone(ch, ch', Back["e2i"])
        /\ Others(ch, ch', {"e2s", Back["e2s"], "e2i", Back["e2i"]})
  BY <1>1, BackIs, CloseTwoEffect
<1> QED
  BY <1>2, <1>3, BackIs DEF Others

(* Where a handler holds nothing, or lets go of what it holds.              *)
LEMMA Stopping ==
  ASSUME Base, NEW p \in {"I", "E"}, ch' \in [Channel -> ChanRec], reset' \in BOOLEAN,
         UNCHANGED <<target, tls, client, server>>,
         \/ UNCHANGED <<run, hold>> /\ pc[p] \notin {"copy", "done"}
         \/ /\ run' = [run EXCEPT ![Dn[p]] = "end"]
            /\ hold' = [hold EXCEPT ![Dn[p]] = Nothing]
         \/ /\ run' = [run EXCEPT ![Up[p]] = "end", ![Dn[p]] = "end"]
            /\ hold' = [hold EXCEPT ![Up[p]] = Nothing, ![Dn[p]] = Nothing]
  PROVE  Stopped(Up[p], Dn[p])
<1>1. Up[p] \in Copier /\ Dn[p] \in Copier /\ Up[p] # Dn[p]
  BY RolesAre DEF Copier
<1>2. /\ run \in [Copier -> {"off", "run", "end"}]
      /\ hold \in [Copier -> Piece \cup {Nothing}]
      /\ HoldsOK(hold, run)
  BY TypeIs DEF Base
<1>3. CASE UNCHANGED <<run, hold>> /\ pc[p] \notin {"copy", "done"}
  <2>1. run[Dn[p]] # "run"
    BY <1>3, RolesAre DEF Base, Order
  <2> QED
    BY <1>2, <1>3, <2>1 DEF Stopped
<1>4. CASE /\ run' = [run EXCEPT ![Dn[p]] = "end"]
           /\ hold' = [hold EXCEPT ![Dn[p]] = Nothing]
  <2>1. HoldsOK(hold', run')
    BY <1>1, <1>2, <1>4 DEF HoldsOK, Copier
  <2> QED
    BY <1>1, <1>2, <1>4, <2>1 DEF Stopped
<1>5. CASE /\ run' = [run EXCEPT ![Up[p]] = "end", ![Dn[p]] = "end"]
           /\ hold' = [hold EXCEPT ![Up[p]] = Nothing, ![Dn[p]] = Nothing]
  <2>1. HoldsOK(hold', run')
    BY <1>1, <1>2, <1>5 DEF HoldsOK, Copier
  <2> QED
    BY <1>1, <1>2, <1>5, <2>1 DEF Stopped
<1> QED
  BY <1>3, <1>4, <1>5

LEMMA WaysToStopI ==
  ASSUME Base,
         \/ /\ pc.I = "dial" /\ Returns("I", FALSE)
            /\ UNCHANGED <<target, tls, run, hold, client, server>>
         \/ DownEnds("I") \/ Kill("I")
  PROVE  StopsI
<1>1. /\ TypeOK /\ reset \in BOOLEAN
      /\ "c2i" \in Channel /\ "i2c" \in Channel /\ "i2e" \in Channel
      /\ "e2i" \in Channel /\ "e2s" \in Channel /\ "s2e" \in Channel
  BY TypeIs DEF Base, Channel
<1>2. CASE /\ pc.I = "dial" /\ Returns("I", FALSE)
           /\ UNCHANGED <<target, tls, run, hold, client, server>>
  <2>1. /\ ch' \in Closes(ch, "i2c") /\ pc' = [pc EXCEPT !.I = "done"]
        /\ reset' \in BOOLEAN
    BY <1>1, <1>2 DEF Returns, Unread
  <2>2. /\ ch' \in [Channel -> ChanRec]
        /\ Shut(ch, ch', "i2c") /\ Gone(ch, ch', "c2i")
        /\ Others(ch, ch', {"i2c", "c2i"})
    BY <1>1, <2>1, CloseI
  <2>3. Stopped("Iup", "Idn")
    BY <1>2, <2>1, <2>2, Stopping, RolesAre
  <2> QED
    BY <1>1, <1>2, <2>1, <2>2, <2>3 DEF StopsI, Others
<1>3. CASE DownEnds("I")
  <2>1. /\ ch' \in CloseTwo(ch, "i2e", "i2c") /\ pc' = [pc EXCEPT !.I = "done"]
        /\ reset' \in BOOLEAN /\ UNCHANGED <<target, tls, client, server>>
        /\ run' = [run EXCEPT ![Dn["I"]] = "end"]
        /\ hold' = [hold EXCEPT ![Dn["I"]] = Nothing]
    BY <1>1, <1>3 DEF DownEnds, Returns, Unread
  <2>2. /\ ch' \in [Channel -> ChanRec]
        /\ Shut(ch, ch', "i2c") /\ Gone(ch, ch', "c2i")
        /\ Shut(ch, ch', "i2e") /\ Gone(ch, ch', "e2i")
        /\ Others(ch, ch', {"i2c", "c2i", "i2e", "e2i"})
    BY <1>1, <2>1, CloseI
  <2>3. Stopped("Iup", "Idn")
    BY <2>1, <2>2, Stopping, RolesAre
  <2>4. pc.I = "copy"
    BY <1>3, RolesAre DEF DownEnds, Base, Order
  <2> QED
    BY <1>1, <2>1, <2>2, <2>3, <2>4 DEF StopsI, Others
<1>4. CASE Kill("I")
  <2>1. /\ pc' = [pc EXCEPT !.I = "done"] /\ pc.I # "done"
        /\ reset' \in BOOLEAN /\ UNCHANGED <<target, tls, client, server>>
        /\ run' = [run EXCEPT ![Up["I"]] = "end", ![Dn["I"]] = "end"]
        /\ hold' = [hold EXCEPT ![Up["I"]] = Nothing, ![Dn["I"]] = Nothing]
    BY <1>4 DEF Kill
  <2>2. CASE pc.I = "dial"
    <3>1. /\ ch' \in [Channel -> ChanRec]
          /\ Shut(ch, ch', "i2c") /\ Gone(ch, ch', "c2i")
          /\ Others(ch, ch', {"i2c", "c2i"})
      BY <1>1, <1>4, <2>2, CloseI DEF Kill
    <3>2. Stopped("Iup", "Idn")
      BY <2>1, <3>1, Stopping, RolesAre
    <3> QED
      BY <1>1, <2>1, <2>2, <3>1, <3>2 DEF StopsI, Others
  <2>3. CASE pc.I # "dial"
    <3>1. /\ ch' \in [Channel -> ChanRec]
          /\ Shut(ch, ch', "i2c") /\ Gone(ch, ch', "c2i")
          /\ Shut(ch, ch', "i2e") /\ Gone(ch, ch', "e2i")
          /\ Others(ch, ch', {"i2c", "c2i", "i2e", "e2i"})
      BY <1>1, <1>4, <2>3, CloseI DEF Kill
    <3>2. Stopped("Iup", "Idn")
      BY <2>1, <3>1, Stopping, RolesAre
    <3> QED
      BY <1>1, <2>1, <2>3, <3>1, <3>2 DEF StopsI, Others
  <2> QED
    BY <2>2, <2>3
<1> QED
  BY <1>2, <1>3, <1>4

(* The external handler gives up: before the dial, or with the connection   *)
(* to the server in its hands.                                              *)
GivesUp ==
  /\ \/ pc.E = "header" /\ AtEnd("i2e") /\ Returns("E", FALSE)
     \/ pc.E = "dial" /\ Returns("E", FALSE)
     \/ /\ pc.E = "header" /\ ch["i2e"].q # <<>>
        /\ \E n \in ReadSizes(ch["i2e"].q) :
             LET rest == [ch EXCEPT !["i2e"].q = Drop(@, n)]
             IN  /\ pc' = [pc EXCEPT !.E = "done"]
                 /\ ch' \in Closes(rest, "e2i")
                 /\ reset' = (reset \/ Unread(rest, "e2i"))
  /\ UNCHANGED <<target, tls, run, hold, client, server>>

LEMMA GivesUpEffect ==
  ASSUME Base, GivesUp
  PROVE  /\ pc' = [pc EXCEPT !.E = "done"] /\ pc.E \in {"header", "dial"}
         /\ ch' \in [Channel -> ChanRec] /\ reset' \in BOOLEAN
         /\ Shut(ch, ch', "e2i") /\ Gone(ch, ch', "i2e")
         /\ Others(ch, ch', {"e2i", "i2e"})
<1>1. TypeOK /\ reset \in BOOLEAN /\ "i2e" \in Channel /\ "e2i" \in Channel
  BY TypeIs DEF Base, Channel
<1>2. CASE Returns("E", FALSE) /\ pc.E \in {"header", "dial"}
  <2>1. /\ ch' \in Closes(ch, "e2i") /\ pc' = [pc EXCEPT !.E = "done"]
        /\ reset' \in BOOLEAN
    BY <1>1, <1>2 DEF Returns, Unread
  <2> QED
    BY <1>1, <1>2, <2>1, CloseE
<1>3. ASSUME pc.E = "header", ch["i2e"].q # <<>>, NEW n \in ReadSizes(ch["i2e"].q),
             pc' = [pc EXCEPT !.E = "done"],
             ch' \in Closes([ch EXCEPT !["i2e"].q = Drop(@, n)], "e2i"),
             reset' = (reset \/ Unread([ch EXCEPT !["i2e"].q = Drop(@, n)], "e2i"))
      PROVE  /\ ch' \in [Channel -> ChanRec] /\ reset' \in BOOLEAN
             /\ Shut(ch, ch', "e2i") /\ Gone(ch, ch', "i2e")
             /\ Others(ch, ch', {"e2i", "i2e"})
  <2> DEFINE rest == [ch EXCEPT !["i2e"].q = Drop(ch["i2e"].q, n)]
  <2>1. ch \in [Channel -> ChanRec] /\ ch["i2e"] \in ChanRec
    BY <1>1, TypeIs
  <2>2. Drop(ch["i2e"].q, n) \in Seq(Piece)
    <3>1. ch["i2e"].q \in Seq(Piece) /\ Len(ch["i2e"].q) \in Nat /\ Len(ch["i2e"].q) > 0
      BY <1>3, <2>1 DEF ChanRec
    <3>2. n \in 1 .. Len(ch["i2e"].q)
      BY <3>1 DEF ReadSizes
    <3> QED
      BY <3>1, <3>2 DEF Drop
  <2>3. rest["i2e"] = [ch["i2e"] EXCEPT !.q = Drop(ch["i2e"].q, n)]
    BY <1>1, <2>1
  <2>4. /\ rest["i2e"] \in ChanRec
        /\ rest["i2e"].fin = ch["i2e"].fin /\ rest["i2e"].dead = ch["i2e"].dead
        /\ rest["i2e"].rst = ch["i2e"].rst
    BY <2>1, <2>2, <2>3 DEF ChanRec
  <2>5. rest \in [Channel -> ChanRec] /\ Others(ch, rest, {"i2e"})
    BY <1>1, <2>1, <2>4 DEF Others
  <2>6. ch' \in Closes(rest, "e2i") /\ reset' \in BOOLEAN
    BY <1>1, <1>3 DEF Unread
  <2> HIDE DEF rest
  <2>7. /\ ch' \in [Channel -> ChanRec]
        /\ Shut(rest, ch', "e2i") /\ Gone(rest, ch', "i2e")
        /\ Others(rest, ch', {"e2i", "i2e"})
    BY <1>1, <2>5, <2>6, ClosesEffect, BackIs
  <2>8. Gone(ch, ch', "i2e")
    BY <2>4, <2>7 DEF Gone
  <2>9. rest["e2i"] = ch["e2i"] /\ ch["e2i"].q = <<>>
    BY <1>1, <1>3, <2>5 DEF Others, Base, AckFirst, AckOK
  <2>10. ch'["e2i"].q = <<>>
    BY <1>1, <2>1, <2>7, <2>9, LenType DEF Shut, Cut
  <2>11. Shut(ch, ch', "e2i")
    BY <2>7, <2>9, <2>10 DEF Shut, Cut
  <2>12. Others(ch, ch', {"e2i", "i2e"})
    BY <2>5, <2>7 DEF Others
  <2> QED
    BY <2>6, <2>7, <2>8, <2>11, <2>12
<1> QED
  BY <1>2, <1>3 DEF GivesUp

LEMMA WaysToStopE ==
  ASSUME Base, GivesUp \/ DownEnds("E") \/ Kill("E")
  PROVE  StopsE
<1>1. /\ TypeOK /\ reset \in BOOLEAN
      /\ "c2i" \in Channel /\ "i2c" \in Channel /\ "i2e" \in Channel
      /\ "e2i" \in Channel /\ "e2s" \in Channel /\ "s2e" \in Channel
  BY TypeIs DEF Base, Channel
<1>2. CASE GivesUp
  <2>1. /\ pc' = [pc EXCEPT !.E = "done"] /\ pc.E \in {"header", "dial"}
        /\ ch' \in [Channel -> ChanRec] /\ reset' \in BOOLEAN
        /\ Shut(ch, ch', "e2i") /\ Gone(ch, ch', "i2e")
        /\ Others(ch, ch', {"e2i", "i2e"})
        /\ UNCHANGED <<target, tls, run, hold, client, server>>
    BY <1>2, GivesUpEffect DEF GivesUp
  <2>2. Stopped("Eup", "Edn")
    BY <2>1, Stopping, RolesAre
  <2> QED
    BY <1>1, <2>1, <2>2 DEF StopsE, Others
<1>3. CASE DownEnds("E")
  <2>1. /\ ch' \in CloseTwo(ch, "e2s", "e2i") /\ pc' = [pc EXCEPT !.E = "done"]
        /\ reset' \in BOOLEAN /\ UNCHANGED <<target, tls, client, server>>
        /\ run' = [run EXCEPT ![Dn["E"]] = "end"]
        /\ hold' = [hold EXCEPT ![Dn["E"]] = Nothing]
    BY <1>1, <1>3 DEF DownEnds, Returns, Unread
  <2>2. /\ ch' \in [Channel -> ChanRec]
        /\ Shut(ch, ch', "e2i") /\ Gone(ch, ch', "i2e")
        /\ Shut(ch, ch', "e2s") /\ Gone(ch, ch', "s2e")
        /\ Others(ch, ch', {"e2i", "i2e", "e2s", "s2e"})
    BY <1>1, <2>1, CloseE
  <2>3. Stopped("Eup", "Edn")
    BY <2>1, <2>2, Stopping, RolesAre
  <2>4. pc.E = "copy"
    BY <1>3, RolesAre DEF DownEnds, Base, Order
  <2> QED
    BY <1>1, <2>1, <2>2, <2>3, <2>4 DEF StopsE, Others
<1>4. CASE Kill("E")
  <2>1. /\ pc' = [pc EXCEPT !.E = "done"] /\ pc.E \notin {"none", "done"}
        /\ reset' \in BOOLEAN /\ UNCHANGED <<target, tls, client, server>>
        /\ run' = [run EXCEPT ![Up["E"]] = "end", ![Dn["E"]] = "end"]
        /\ hold' = [hold EXCEPT ![Up["E"]] = Nothing, ![Dn["E"]] = Nothing]
    BY <1>4 DEF Kill
  <2>2. CASE pc.E \notin {"ack", "copy"}
    <3>1. /\ ch' \in [Channel -> ChanRec]
          /\ Shut(ch, ch', "e2i") /\ Gone(ch, ch', "i2e")
          /\ Others(ch, ch', {"e2i", "i2e"})
      BY <1>1, <1>4, <2>2, CloseE DEF Kill
    <3>2. Stopped("Eup", "Edn")
      BY <2>1, <3>1, Stopping, RolesAre
    <3>3. pc.E \in {"header", "dial"}
      BY <1>1, <2>1, <2>2, TypeIs DEF PcRec
    <3> QED
      BY <1>1, <2>1, <3>1, <3>2, <3>3 DEF StopsE, Others
  <2>3. CASE pc.E \in {"ack", "copy"}
    <3>1. /\ ch' \in [Channel -> ChanRec]
          /\ Shut(ch, ch', "e2i") /\ Gone(ch, ch', "i2e")
          /\ Shut(ch, ch', "e2s") /\ Gone(ch, ch', "s2e")
          /\ Others(ch, ch', {"e2i", "i2e", "e2s", "s2e"})
      BY <1>1, <1>4, <2>3, CloseE DEF Kill
    <3>2. Stopped("Eup", "Edn")
      BY <2>1, <3>1, Stopping, RolesAre
    <3> QED
      BY <1>1, <2>1, <2>3, <3>1, <3>2 DEF StopsE, Others
  <2> QED
    BY <2>2, <2>3
<1> QED
  BY <1>2, <1>3, <1>4

(* A channel that is closed, from either end, or left alone.                *)
LEMMA EmptyQueue ==
  ASSUME NEW S
  PROVE  Queue(<<>>, S)
  BY TunnelAssumption DEF Queue

LEMMA ClosedQueues ==
  ASSUME TypeOK, ch' \in [Channel -> ChanRec],
         \A c \in Channel :
           ch'[c] = ch[c] \/ Shut(ch, ch', c) \/ Gone(ch, ch', c)
  PROVE  /\ QueuesOK(ch')
         /\ \A c \in Channel : ch[c].q = <<>> => ch'[c].q = <<>>
<1>1. \A c \in Channel : /\ Len(ch[c].q) \in Nat /\ Len(ch'[c].q) \in Nat
                         /\ ch[c].q = <<>> <=> Len(ch[c].q) = 0
                         /\ ch'[c].q = <<>> <=> Len(ch'[c].q) = 0
  BY LenType, TypeIs
<1>2. \A c \in Channel : ch[c].q = <<>> => ch'[c].q = <<>>
  BY <1>1 DEF Shut, Gone, Cut
<1>3. ASSUME NEW c \in Channel PROVE Queue(ch'[c].q, Carries[c])
  <2>1. Queue(ch[c].q, Carries[c]) /\ ch \in [Channel -> ChanRec]
    BY TypeIs, QueuesAll
  <2>2. CASE ch'[c] = ch[c]
    BY <2>1, <2>2
  <2>3. CASE Shut(ch, ch', c)
    BY <2>1, <2>3, QueueCut DEF Shut
  <2>4. CASE Gone(ch, ch', c)
    BY <2>4, EmptyQueue DEF Gone
  <2> QED
    BY <2>2, <2>3, <2>4
<1> QED
  BY <1>2, <1>3, QueuesAll

LEMMA StopsIBase ==
  ASSUME Base, StopsI
  PROVE  Base'
<1>1. pc' \in PcRec /\ pc'.I = "done" /\ pc'.E = pc.E
  BY TypeIs DEF Base, StopsI, PcRec
<1>2. /\ ch' \in [Channel -> ChanRec] /\ reset' \in BOOLEAN
      /\ run' \in [Copier -> {"off", "run", "end"}]
      /\ hold' \in [Copier -> Piece \cup {Nothing}] /\ HoldsOK(hold', run')
      /\ run'["Idn"] # "run" /\ run'["Eup"] = run["Eup"] /\ run'["Edn"] = run["Edn"]
      /\ UNCHANGED <<target, tls, client, server>>
  BY DEF StopsI, Stopped, Copier
<1>3. \A c \in Channel :
        ch'[c] = ch[c] \/ Shut(ch, ch', c) \/ Gone(ch, ch', c)
  BY DEF StopsI, Channel
<1>4. QueuesOK(ch') /\ \A c \in Channel : ch[c].q = <<>> => ch'[c].q = <<>>
  BY <1>2, <1>3, ClosedQueues DEF Base
<1>5. TypeOK'
  BY <1>1, <1>2, <1>4, TypeIs, TypeNext DEF Base
<1>6. ch'["e2i"].q = <<>> /\ (ch'["e2i"].dead \/ pc.E = "none")
  <2>1. CASE pc.I = "dial"
    BY <2>1 DEF StopsI, Base, Order, AckFirst, AckOK
  <2>2. CASE pc.I # "dial"
    BY <2>2 DEF StopsI, Gone
  <2> QED
    BY <2>1, <2>2
<1>7. Dead(ch')
  BY <1>3, <1>4 DEF Dead, Base, EndsInv, Shut, Gone
<1>8. /\ ch'["i2e"].dead = ch["i2e"].dead /\ ch'["e2i"].fin = ch["e2i"].fin
      /\ ch'["c2i"].fin = ch["c2i"].fin /\ ch'["i2c"].dead = ch["i2c"].dead
      /\ ch'["e2s"] = ch["e2s"] /\ ch'["s2e"] = ch["s2e"]
  BY DEF StopsI, Shut, Gone
<1>9. EndsInv'
  BY <1>1, <1>2, <1>6, <1>7, <1>8 DEF Base, EndsInv, Dead
<1>10. Order'
  BY <1>1, <1>2 DEF Base, Order
<1>11. HeaderAlone'
  <2>1. Cut(ch, ch', "i2e") \/ ch'["i2e"] = ch["i2e"]
    BY DEF StopsI, Shut
  <2>2. /\ Len(ch["i2e"].q) \in Nat /\ (ch["i2e"].q = <<>> <=> Len(ch["i2e"].q) = 0)
        /\ Len(ch'["i2e"].q) \in Nat /\ (ch'["i2e"].q = <<>> <=> Len(ch'["i2e"].q) = 0)
    BY <1>2, TypeIs, LenType DEF Base, Channel
  <2>3. /\ Len(ch'["i2e"].q) <= Len(ch["i2e"].q)
        /\ \A n \in 1 .. Len(ch'["i2e"].q) : ch'["i2e"].q[n] = ch["i2e"].q[n]
    BY <2>1, <2>2 DEF Cut
  <2>4. HeaderOK(ch'["i2e"].q, pc.I, pc.E)
    BY <2>2, <2>3, PrefixOK DEF Base, HeaderAlone
  <2> QED
    BY <1>1, <2>4 DEF HeaderAlone, HeaderOK
<1>12. AckFirst'
  <2>1. Len(ch'["e2i"].q) = 0
    BY <1>6
  <2> QED
    BY <1>1, <1>6, <2>1 DEF AckFirst, AckOK
<1> QED
  BY <1>5, <1>9, <1>10, <1>11, <1>12 DEF Base

LEMMA StopsEBase ==
  ASSUME Base, StopsE
  PROVE  Base'
<1>1. pc' \in PcRec /\ pc'.E = "done" /\ pc'.I = pc.I
  BY TypeIs DEF Base, StopsE, PcRec
<1>2. /\ ch' \in [Channel -> ChanRec] /\ reset' \in BOOLEAN
      /\ run' \in [Copier -> {"off", "run", "end"}]
      /\ hold' \in [Copier -> Piece \cup {Nothing}] /\ HoldsOK(hold', run')
      /\ run'["Edn"] # "run" /\ run'["Iup"] = run["Iup"] /\ run'["Idn"] = run["Idn"]
      /\ UNCHANGED <<target, tls, client, server>>
  BY DEF StopsE, Stopped, Copier
<1>3. \A c \in Channel :
        ch'[c] = ch[c] \/ Shut(ch, ch', c) \/ Gone(ch, ch', c)
  BY DEF StopsE, Channel
<1>4. QueuesOK(ch') /\ \A c \in Channel : ch[c].q = <<>> => ch'[c].q = <<>>
  BY <1>2, <1>3, ClosedQueues DEF Base
<1>5. TypeOK'
  BY <1>1, <1>2, <1>4, TypeIs, TypeNext DEF Base
<1>6. ch'["i2e"].q = <<>> /\ ch'["i2e"].dead /\ Len(ch'["i2e"].q) = 0
  BY DEF StopsE, Gone
<1>7. Dead(ch')
  BY <1>3, <1>4 DEF Dead, Base, EndsInv, Shut, Gone
<1>8. /\ ch'["e2i"].dead = ch["e2i"].dead /\ ch'["i2e"].fin = ch["i2e"].fin
      /\ ch'["s2e"].fin = ch["s2e"].fin /\ ch'["e2s"].dead = ch["e2s"].dead
      /\ ch'["c2i"] = ch["c2i"] /\ ch'["i2c"] = ch["i2c"]
  BY DEF StopsE, Shut, Gone
<1>9. EndsInv'
  <2>1. pc.I = "done" => ch'["e2i"].q = <<>>
    BY <1>4 DEF Base, EndsInv, Channel
  <2>2. pc.I = "done" => ch["e2i"].dead
    BY DEF Base, EndsInv, StopsE
  <2> QED
    BY <1>1, <1>2, <1>6, <1>7, <1>8, <2>1, <2>2 DEF Base, EndsInv, Dead
<1>10. Order'
  BY <1>1, <1>2 DEF Base, Order, StopsE
<1>11. HeaderAlone'
  BY <1>1, <1>6 DEF HeaderAlone, HeaderOK
<1>12. AckFirst'
  <2>1. Cut(ch, ch', "e2i")
    BY DEF StopsE, Shut
  <2>2. /\ Len(ch["e2i"].q) \in Nat /\ (ch["e2i"].q = <<>> <=> Len(ch["e2i"].q) = 0)
        /\ Len(ch'["e2i"].q) \in Nat /\ (ch'["e2i"].q = <<>> <=> Len(ch'["e2i"].q) = 0)
    BY <1>2, TypeIs, LenType DEF Base, Channel
  <2>3. AckOK(ch'["e2i"].q, pc.I, pc.E)
    BY <2>1, <2>2, PrefixOK DEF Base, AckFirst, Cut
  <2> QED
    BY <1>1, <2>3 DEF AckFirst, AckOK
<1> QED
  BY <1>5, <1>9, <1>10, <1>11, <1>12 DEF Base

-----------------------------------------------------------------------------
(* Base is kept by what the applications do.                                *)

LEMMA ClientSendBase ==
  ASSUME Base, ClientSend
  PROVE  /\ Base'
         /\ LET v == <<"c", Len(client.sent) + 1>>
            IN  /\ v \in ClientData
                /\ client'.sent = Append(client.sent, v)
                /\ \/ Put("c2i", v) /\ Others(ch, ch', {"c2i"})
                   \/ Refused("c2i") /\ Others(ch, ch', {"c2i", Back["c2i"]})
         /\ client'.st = client.st /\ client'.rcvd = client.rcvd
         /\ client'.eof = client.eof
<1> DEFINE v == <<"c", Len(client.sent) + 1>>
<1>1. /\ client.sent \in Seq(ClientData) /\ client \in ClientRec
      /\ Len(client.sent) \in Nat
  BY TypeIs DEF Base, ClientRec
<1>2. v \in ClientData /\ v \in Piece
  BY <1>1, TunnelAssumption DEF ClientSend, ClientData, Piece
<1>3. client' = [client EXCEPT !.sent = Append(client.sent, v)] /\ ch' \in Writes("c2i", v)
  BY DEF ClientSend
<1> HIDE DEF v
<1>4. /\ client' \in ClientRec /\ client'.st = client.st
      /\ client'.sent = Append(client.sent, v)
      /\ client'.rcvd = client.rcvd /\ client'.eof = client.eof
  <2>1. Append(client.sent, v) \in Seq(ClientData)
    BY <1>1, <1>2
  <2> QED
    BY <1>1, <1>3, <2>1 DEF ClientRec
<1>5. "c2i" \in Channel /\ v \in Carries["c2i"] \cap Piece
  BY <1>2, CarriesAre DEF Channel
<1>6. /\ UNCHANGED <<target, tls, pc, run>> /\ CanWrite("c2i")
      /\ hold' = hold /\ server' = server /\ reset' \in BOOLEAN
  BY <1>5, TypeIs DEF Base, ClientSend, ChanRec
<1>7. Base'
  BY <1>3, <1>4, <1>5, <1>6, TypeIs, WriteBase DEF Base
<1>8. \/ Put("c2i", v) /\ Others(ch, ch', {"c2i"})
      \/ Refused("c2i") /\ Others(ch, ch', {"c2i", Back["c2i"]})
  BY <1>2, <1>3, <1>5, TypeIs, WritesEffect DEF Base
<1> QED
  BY <1>2, <1>4, <1>7, <1>8 DEF v

LEMMA ServerSendBase ==
  ASSUME Base, ServerSend
  PROVE  /\ Base'
         /\ LET v == <<"s", Len(server.sent) + 1>>
            IN  /\ v \in ServerData
                /\ server'.sent = Append(server.sent, v)
                /\ \/ Put("s2e", v) /\ Others(ch, ch', {"s2e"})
                   \/ Refused("s2e") /\ Others(ch, ch', {"s2e", Back["s2e"]})
         /\ server'.st = server.st /\ server'.rcvd = server.rcvd
         /\ server'.eof = server.eof
<1> DEFINE v == <<"s", Len(server.sent) + 1>>
<1>1. /\ server.sent \in Seq(ServerData) /\ server \in ServerRec
      /\ Len(server.sent) \in Nat
  BY TypeIs DEF Base, ServerRec
<1>2. v \in ServerData /\ v \in Piece
  BY <1>1, TunnelAssumption DEF ServerSend, ServerData, Piece
<1>3. server' = [server EXCEPT !.sent = Append(server.sent, v)] /\ ch' \in Writes("s2e", v)
  BY DEF ServerSend
<1> HIDE DEF v
<1>4. /\ server' \in ServerRec /\ server'.st = server.st
      /\ server'.sent = Append(server.sent, v)
      /\ server'.rcvd = server.rcvd /\ server'.eof = server.eof
  <2>1. Append(server.sent, v) \in Seq(ServerData)
    BY <1>1, <1>2
  <2> QED
    BY <1>1, <1>3, <2>1 DEF ServerRec
<1>5. "s2e" \in Channel /\ v \in Carries["s2e"] \cap Piece
  BY <1>2, CarriesAre DEF Channel
<1>6. /\ UNCHANGED <<target, tls, pc, run>> /\ CanWrite("s2e")
      /\ hold' = hold /\ client' = client /\ reset' \in BOOLEAN
  BY <1>5, TypeIs DEF Base, ServerSend, ChanRec
<1>7. Base'
  BY <1>3, <1>4, <1>5, <1>6, TypeIs, WriteBase DEF Base
<1>8. \/ Put("s2e", v) /\ Others(ch, ch', {"s2e"})
      \/ Refused("s2e") /\ Others(ch, ch', {"s2e", Back["s2e"]})
  BY <1>2, <1>3, <1>5, TypeIs, WritesEffect DEF Base
<1> QED
  BY <1>2, <1>4, <1>7, <1>8 DEF v

LEMMA ClientReadBase ==
  ASSUME Base, ClientRead
  PROVE  /\ Base'
         /\ client'.st = client.st /\ client'.sent = client.sent
         /\ \/ /\ Got("i2c") /\ Others(ch, ch', {"i2c"})
               /\ client'.rcvd = Append(client.rcvd, ch["i2c"].q[1])
               /\ client'.eof = client.eof
            \/ /\ UNCHANGED ch /\ AtEnd("i2c")
               /\ client'.rcvd = client.rcvd /\ client'.eof = TRUE
<1>1. /\ client \in ClientRec /\ client.rcvd \in Seq(ServerData) /\ "i2c" \in Channel
      /\ ch \in [Channel -> ChanRec]
      /\ UNCHANGED <<target, tls, pc, run, hold, server, reset>>
  BY TypeIs DEF Base, ClientRec, Channel, ClientRead
<1>2. CASE /\ ch["i2c"].q # <<>>
           /\ client' = [client EXCEPT !.rcvd = Append(@, Head(ch["i2c"].q))]
           /\ ch' = [ch EXCEPT !["i2c"].q = Tail(@)]
  <2>1. /\ ch' \in [Channel -> ChanRec]
        /\ Got("i2c") /\ Others(ch, ch', {"i2c"})
        /\ Head(ch["i2c"].q) = ch["i2c"].q[1]
    BY <1>1, <1>2, TailEffect
  <2>2. ch["i2c"].q[1] \in ServerData
    BY <1>1, <2>1, TypeIs DEF Base, QueuesOK, Queue, Got
  <2>3. client' = [client EXCEPT !.rcvd = Append(client.rcvd, ch["i2c"].q[1])]
    BY <1>2, <2>1
  <2>4. /\ client' \in ClientRec /\ client'.st = client.st /\ client'.sent = client.sent
        /\ client'.rcvd = Append(client.rcvd, ch["i2c"].q[1]) /\ client'.eof = client.eof
    <3>1. Append(client.rcvd, ch["i2c"].q[1]) \in Seq(ServerData)
      BY <1>1, <2>2
    <3> QED
      BY <1>1, <2>3, <3>1 DEF ClientRec
  <2>5. Base'
    BY <1>1, <2>1, <2>4, TypeIs, ReadBase DEF Base
  <2> QED
    BY <2>1, <2>4, <2>5
<1>3. CASE /\ AtEnd("i2c") /\ client' = [client EXCEPT !.eof = TRUE] /\ UNCHANGED ch
  <2>1. /\ client' \in ClientRec /\ client'.st = client.st /\ client'.sent = client.sent
        /\ client'.rcvd = client.rcvd /\ client'.eof = TRUE
    BY <1>1, <1>3 DEF ClientRec
  <2>2. TypeOK'
    BY <1>1, <1>3, <2>1, TypeIs, TypeNext DEF Base
  <2>3. Base'
    BY <1>1, <1>3, <2>1, <2>2
       DEF Base, EndsInv, Order, HeaderAlone, AckFirst
  <2> QED
    BY <1>3, <2>1, <2>3
<1> QED
  BY <1>2, <1>3 DEF ClientRead

LEMMA ServerReadBase ==
  ASSUME Base, ServerRead
  PROVE  /\ Base'
         /\ server'.st = server.st /\ server'.sent = server.sent
         /\ \/ /\ Got("e2s") /\ Others(ch, ch', {"e2s"})
               /\ server'.rcvd = Append(server.rcvd, ch["e2s"].q[1])
            \/ UNCHANGED ch /\ server'.rcvd = server.rcvd
<1>1. /\ server \in ServerRec /\ server.rcvd \in Seq(ClientData) /\ "e2s" \in Channel
      /\ ch \in [Channel -> ChanRec]
      /\ UNCHANGED <<target, tls, pc, run, hold, client, reset>>
  BY TypeIs DEF Base, ServerRec, Channel, ServerRead
<1>2. CASE /\ ch["e2s"].q # <<>>
           /\ server' = [server EXCEPT !.rcvd = Append(@, Head(ch["e2s"].q))]
           /\ ch' = [ch EXCEPT !["e2s"].q = Tail(@)]
  <2>1. /\ ch' \in [Channel -> ChanRec]
        /\ Got("e2s") /\ Others(ch, ch', {"e2s"})
        /\ Head(ch["e2s"].q) = ch["e2s"].q[1]
    BY <1>1, <1>2, TailEffect
  <2>2. ch["e2s"].q[1] \in ClientData
    BY <1>1, <2>1, TypeIs DEF Base, QueuesOK, Queue, Got
  <2>3. server' = [server EXCEPT !.rcvd = Append(server.rcvd, ch["e2s"].q[1])]
    BY <1>2, <2>1
  <2>4. /\ server' \in ServerRec /\ server'.st = server.st /\ server'.sent = server.sent
        /\ server'.rcvd = Append(server.rcvd, ch["e2s"].q[1])
    <3>1. Append(server.rcvd, ch["e2s"].q[1]) \in Seq(ClientData)
      BY <1>1, <2>2
    <3> QED
      BY <1>1, <2>3, <3>1 DEF ServerRec
  <2>5. Base'
    BY <1>1, <2>1, <2>4, TypeIs, ReadBase DEF Base
  <2> QED
    BY <2>1, <2>4, <2>5
<1>3. CASE /\ AtEnd("e2s") /\ server' = [server EXCEPT !.eof = TRUE] /\ UNCHANGED ch
  <2>1. /\ server' \in ServerRec /\ server'.st = server.st /\ server'.sent = server.sent
        /\ server'.rcvd = server.rcvd
    BY <1>1, <1>3 DEF ServerRec
  <2>2. TypeOK'
    BY <1>1, <1>3, <2>1, TypeIs, TypeNext DEF Base
  <2>3. Base'
    BY <1>1, <1>3, <2>1, <2>2
       DEF Base, EndsInv, Order, HeaderAlone, AckFirst
  <2> QED
    BY <1>3, <2>1, <2>3
<1> QED
  BY <1>2, <1>3 DEF ServerRead

LEMMA ClientShutdownBase ==
  ASSUME Base, ClientShutdown
  PROVE  /\ Base'
         /\ \A c \in Channel : ch'[c].q = ch[c].q /\ ch'[c].dead = ch[c].dead
                               /\ ch'[c].rst = ch[c].rst
         /\ \A c \in Channel \ {"c2i"} : ch'[c] = ch[c]
         /\ client'.st = "half" /\ client'.sent = client.sent
         /\ client'.rcvd = client.rcvd /\ client'.eof = client.eof
<1>1. /\ client \in ClientRec /\ ch \in [Channel -> ChanRec] /\ "c2i" \in Channel
      /\ client' = [client EXCEPT !.st = "half"] /\ client.st = "open"
      /\ ch' = [ch EXCEPT !["c2i"].fin = TRUE]
      /\ UNCHANGED <<target, tls, pc, run, hold, server, reset>>
  BY TypeIs DEF Base, Channel, ClientShutdown
<1>2. /\ client' \in ClientRec /\ client'.st = "half" /\ client'.sent = client.sent
      /\ client'.rcvd = client.rcvd /\ client'.eof = client.eof
  BY <1>1 DEF ClientRec
<1>3. ch["c2i"] \in ChanRec /\ ch'["c2i"] = [ch["c2i"] EXCEPT !.fin = TRUE]
  BY <1>1
<1>4. /\ ch'["c2i"] \in ChanRec /\ ch'["c2i"].q = ch["c2i"].q
      /\ ch'["c2i"].dead = ch["c2i"].dead /\ ch'["c2i"].rst = ch["c2i"].rst
  BY <1>3 DEF ChanRec
<1>5. /\ ch' \in [Channel -> ChanRec]
      /\ \A c \in Channel \ {"c2i"} : ch'[c] = ch[c]
  BY <1>1, <1>4
<1>6. \A c \in Channel : ch'[c].q = ch[c].q /\ ch'[c].dead = ch[c].dead
                         /\ ch'[c].rst = ch[c].rst
  BY <1>4, <1>5
<1>7. QueuesOK(ch')
  BY <1>6, TypeIs DEF Base, QueuesOK, Channel
<1>8. TypeOK'
  BY <1>1, <1>2, <1>5, <1>7, TypeIs, TypeNext DEF Base
<1>9. EndsInv'
  BY <1>1, <1>2, <1>5, <1>6 DEF Base, EndsInv, Channel
<1>10. Order' /\ HeaderAlone' /\ AckFirst'
  BY <1>1, <1>5 DEF Base, Order, HeaderAlone, AckFirst, Channel
<1> QED
  BY <1>2, <1>5, <1>6, <1>8, <1>9, <1>10 DEF Base

LEMMA ClientCloseBase ==
  ASSUME Base, ClientClose
  PROVE  /\ Base'
         /\ Shut(ch, ch', "c2i") /\ Gone(ch, ch', "i2c")
         /\ Others(ch, ch', {"c2i", "i2c"})
         /\ client'.st = "closed" /\ client'.sent = client.sent
         /\ client'.rcvd = client.rcvd /\ client'.eof = client.eof
<1>1. /\ client \in ClientRec /\ ch \in [Channel -> ChanRec] /\ "c2i" \in Channel
      /\ client' = [client EXCEPT !.st = "closed"] /\ ch' \in Closes(ch, "c2i")
      /\ UNCHANGED <<target, tls, pc, run, hold, server>> /\ reset' \in BOOLEAN
  BY TypeIs DEF Base, Channel, ClientClose, Unread
<1>2. /\ client' \in ClientRec /\ client'.st = "closed" /\ client'.sent = client.sent
      /\ client'.rcvd = client.rcvd /\ client'.eof = client.eof
  BY <1>1 DEF ClientRec
<1>3. /\ ch' \in [Channel -> ChanRec]
      /\ Shut(ch, ch', "c2i") /\ Gone(ch, ch', "i2c")
      /\ Others(ch, ch', {"c2i", "i2c"})
  BY <1>1, ClosesEffect, BackIs
<1>4. \A c \in Channel :
        ch'[c] = ch[c] \/ Shut(ch, ch', c) \/ Gone(ch, ch', c)
  BY <1>3 DEF Others
<1>5. QueuesOK(ch') /\ \A c \in Channel : ch[c].q = <<>> => ch'[c].q = <<>>
  BY <1>3, <1>4, ClosedQueues DEF Base
<1>6. TypeOK'
  BY <1>1, <1>2, <1>3, <1>5, TypeIs, TypeNext DEF Base
<1>7. Dead(ch')
  BY <1>4, <1>5 DEF Dead, Base, EndsInv, Shut, Gone
<1>8. /\ ch'["c2i"].dead = ch["c2i"].dead /\ ch'["i2c"].fin = ch["i2c"].fin
      /\ ch'["i2e"] = ch["i2e"] /\ ch'["e2i"] = ch["e2i"]
      /\ ch'["e2s"] = ch["e2s"] /\ ch'["s2e"] = ch["s2e"]
  BY <1>3 DEF Shut, Gone, Others, Channel
<1>9. EndsInv'
  BY <1>1, <1>2, <1>7, <1>8 DEF Base, EndsInv, Dead
<1>10. Order' /\ HeaderAlone' /\ AckFirst'
  BY <1>1, <1>8 DEF Base, Order, HeaderAlone, AckFirst
<1> QED
  BY <1>2, <1>3, <1>6, <1>9, <1>10 DEF Base

LEMMA ServerCloseBase ==
  ASSUME Base, ServerClose
  PROVE  /\ Base'
         /\ Shut(ch, ch', "s2e") /\ Gone(ch, ch', "e2s")
         /\ Others(ch, ch', {"s2e", "e2s"})
         /\ server'.st = "closed" /\ server'.sent = server.sent
         /\ server'.rcvd = server.rcvd
<1>1. /\ server \in ServerRec /\ ch \in [Channel -> ChanRec] /\ "s2e" \in Channel
      /\ server' = [server EXCEPT !.st = "closed"] /\ ch' \in Closes(ch, "s2e")
      /\ UNCHANGED <<target, tls, pc, run, hold, client>> /\ reset' \in BOOLEAN
      /\ server.st = "open"
  BY TypeIs DEF Base, Channel, ServerClose, Unread
<1>2. /\ server' \in ServerRec /\ server'.st = "closed" /\ server'.sent = server.sent
      /\ server'.rcvd = server.rcvd
  BY <1>1 DEF ServerRec
<1>3. /\ ch' \in [Channel -> ChanRec]
      /\ Shut(ch, ch', "s2e") /\ Gone(ch, ch', "e2s")
      /\ Others(ch, ch', {"s2e", "e2s"})
  BY <1>1, ClosesEffect, BackIs
<1>4. \A c \in Channel :
        ch'[c] = ch[c] \/ Shut(ch, ch', c) \/ Gone(ch, ch', c)
  BY <1>3 DEF Others
<1>5. QueuesOK(ch') /\ \A c \in Channel : ch[c].q = <<>> => ch'[c].q = <<>>
  BY <1>3, <1>4, ClosedQueues DEF Base
<1>6. TypeOK'
  BY <1>1, <1>2, <1>3, <1>5, TypeIs, TypeNext DEF Base
<1>7. Dead(ch')
  BY <1>4, <1>5 DEF Dead, Base, EndsInv, Shut, Gone
<1>8. /\ ch'["s2e"].dead = ch["s2e"].dead /\ ch'["e2s"].fin = ch["e2s"].fin
      /\ ch'["i2e"] = ch["i2e"] /\ ch'["e2i"] = ch["e2i"]
      /\ ch'["c2i"] = ch["c2i"] /\ ch'["i2c"] = ch["i2c"]
  BY <1>3 DEF Shut, Gone, Others, Channel
<1>9. EndsInv'
  BY <1>1, <1>2, <1>7, <1>8 DEF Base, EndsInv, Dead
<1>10. Order' /\ HeaderAlone' /\ AckFirst'
  BY <1>1, <1>2, <1>8 DEF Base, Order, HeaderAlone, AckFirst
<1> QED
  BY <1>2, <1>3, <1>6, <1>9, <1>10 DEF Base

-----------------------------------------------------------------------------
(* The steps, with failed and successful calls told apart.                  *)

Dialled ==
  /\ pc.I = "dial" /\ pc' = [pc EXCEPT !.I = "header", !.E = "header"]
  /\ UNCHANGED <<target, tls, ch, run, hold, client, server, reset>>
HeaderRead ==
  /\ pc.E = "header" /\ ch["i2e"].q # <<>>
  /\ \E n \in ReadSizes(ch["i2e"].q) : ch' = [ch EXCEPT !["i2e"].q = Drop(@, n)]
  /\ pc' = [pc EXCEPT !.E = "dial"]
  /\ UNCHANGED <<target, tls, run, hold, client, server, reset>>
ServerDialled ==
  /\ pc.E = "dial" /\ pc' = [pc EXCEPT !.E = "ack"]
  /\ server' = [server EXCEPT !.st = "open"]
  /\ UNCHANGED <<target, tls, ch, run, hold, client, reset>>

Steps ==
  \/ Dialled \/ WriteHeader \/ ReadAck \/ HeaderRead \/ ServerDialled \/ WriteAck
  \/ \E k \in Copier : CopyRead(k) \/ CopyWrite(k)
  \/ \E p \in {"I", "E"} : UpEnds(p)
  \/ StopsI \/ StopsE
  \/ ClientSend \/ ClientRead \/ ClientShutdown \/ ClientClose
  \/ ServerSend \/ ServerRead \/ ServerClose
  \/ UNCHANGED vars

LEMMA StepIs ==
  ASSUME Base, [Next]_vars
  PROVE  Steps
<1>1. CASE InternalDial
  <2>1. \/ Dialled
        \/ /\ pc.I = "dial" /\ Returns("I", FALSE)
           /\ UNCHANGED <<target, tls, run, hold, client, server>>
    BY <1>1 DEF InternalDial, Dialled
  <2> QED
    BY <2>1, WaysToStopI DEF Steps
<1>2. CASE ReadHeader
  <2>1. CASE ch["i2e"].q # <<>>
    <3>1. PICK n \in ReadSizes(ch["i2e"].q) :
            \/ /\ pc' = [pc EXCEPT !.E = "dial"]
               /\ ch' = [ch EXCEPT !["i2e"].q = Drop(@, n)]
               /\ UNCHANGED reset
            \/ /\ pc' = [pc EXCEPT !.E = "done"]
               /\ ch' \in Closes([ch EXCEPT !["i2e"].q = Drop(@, n)], "e2i")
               /\ reset' = (reset \/ Unread([ch EXCEPT !["i2e"].q = Drop(@, n)], "e2i"))
      BY <1>2, <2>1, Zenon DEF ReadHeader, AtEnd
    <3>2. pc.E = "header" /\ UNCHANGED <<target, tls, run, hold, client, server>>
      BY <1>2 DEF ReadHeader
    <3>3. HeaderRead \/ GivesUp
      BY <2>1, <3>1, <3>2, Zenon DEF HeaderRead, GivesUp
    <3> QED
      BY <3>3, WaysToStopE DEF Steps
  <2>2. CASE ch["i2e"].q = <<>>
    <3>1. GivesUp
      BY <1>2, <2>2 DEF ReadHeader, GivesUp
    <3> QED
      BY <3>1, WaysToStopE DEF Steps
  <2> QED
    BY <2>1, <2>2
<1>3. CASE ExternalDial
  <2>1. ServerDialled \/ GivesUp
    BY <1>3 DEF ExternalDial, ServerDialled, GivesUp
  <2> QED
    BY <2>1, WaysToStopE DEF Steps
<1>4. ASSUME NEW p \in {"I", "E"}, DownEnds(p) \/ Kill(p)
      PROVE  Steps
  BY <1>4, WaysToStopI, WaysToStopE DEF Steps
<1>5. CASE WriteHeader \/ ReadAck \/ WriteAck \/ Applications \/ UNCHANGED vars
  BY <1>5 DEF Steps, Applications
<1>6. ASSUME NEW k \in Copier, CopyRead(k) \/ CopyWrite(k)
      PROVE  Steps
  BY <1>6 DEF Steps
<1>7. ASSUME NEW p \in {"I", "E"}, UpEnds(p)
      PROVE  Steps
  BY <1>7 DEF Steps
<1> QED
  BY <1>1, <1>2, <1>3, <1>4, <1>5, <1>6, <1>7, Zenon DEF Next, Proxies

LEMMA BaseStep ==
  ASSUME Base, Steps
  PROVE  Base'
<1>1. CASE Dialled
  BY <1>1, DialBase DEF Dialled
<1>2. CASE HeaderRead
  BY <1>2, ReadHeaderBase DEF HeaderRead
<1>3. CASE ServerDialled
  BY <1>3, ExternalDialBase DEF ServerDialled
<1>4. CASE WriteHeader \/ ReadAck \/ WriteAck
  BY <1>4, WriteHeaderBase, ReadAckBase, WriteAckBase
<1>5. ASSUME NEW k \in Copier, CopyRead(k) \/ CopyWrite(k)
      PROVE  Base'
  BY <1>5, CopyReadBase, CopyWriteBase
<1>6. ASSUME NEW p \in {"I", "E"}, UpEnds(p)
      PROVE  Base'
  BY <1>6, UpEndsBase
<1>7. CASE StopsI \/ StopsE
  BY <1>7, StopsIBase, StopsEBase
<1>8. CASE ClientSend \/ ClientRead \/ ClientShutdown \/ ClientClose
  BY <1>8, ClientSendBase, ClientReadBase, ClientShutdownBase, ClientCloseBase
<1>9. CASE ServerSend \/ ServerRead \/ ServerClose
  BY <1>9, ServerSendBase, ServerReadBase, ServerCloseBase
<1>10. CASE UNCHANGED vars
  BY <1>10 DEF vars, Base, TypeOK, EndsInv, Order, HeaderAlone, AckFirst
<1> QED
  BY <1>1, <1>2, <1>3, <1>4, <1>5, <1>6, <1>7, <1>8, <1>9, <1>10 DEF Steps

LEMMA BaseInit ==
  ASSUME Init
  PROVE  Base
<1>1. \A c \in Channel : ch[c] = [q |-> <<>>, fin |-> FALSE, dead |-> FALSE, rst |-> FALSE]
  BY DEF Init
<1>2. <<>> \in Seq(Piece) /\ Len(<<>>) = 0 /\ \A c \in Channel : <<>> \in Seq(Carries[c])
  OBVIOUS
<1>3. /\ \A c \in Channel : /\ ch[c].q = <<>> /\ ~ch[c].fin /\ ~ch[c].dead /\ ~ch[c].rst
      /\ ch \in [Channel -> ChanRec]
  BY <1>1, <1>2 DEF Init, ChanRec
<1>4. /\ pc.I = "dial" /\ pc.E = "none"
      /\ \A k \in Copier : run[k] = "off" /\ hold[k] = Nothing
      /\ client.st = "open" /\ server.st = "listen"
  BY DEF Init
<1>5. TypeOK
  <2>1. \A c \in Channel : ch[c].q \in Seq(Carries[c]) /\ Len(ch[c].q) <= SockBuf
    <3>1. 0 <= SockBuf
      BY TunnelAssumption
    <3> QED
      BY <1>2, <1>3, <3>1
  <2>2. client \in ClientRec /\ server \in ServerRec
    <3>1. <<>> \in Seq(ClientData) /\ <<>> \in Seq(ServerData)
      OBVIOUS
    <3> QED
      BY <3>1 DEF Init, ClientRec, ServerRec
  <2>3. /\ run \in [Copier -> {"off", "run", "end"}]
        /\ hold \in [Copier -> Piece \cup {Nothing}]
    BY DEF Init
  <2> QED
    BY <1>3, <1>4, <2>1, <2>2, <2>3 DEF Init, TypeOK, ChanRec, ClientRec, ServerRec
<1>6. EndsInv
  BY <1>3, <1>4 DEF EndsInv, Channel
<1>7. Order
  BY <1>4 DEF Order, Copier
<1>8. HeaderAlone /\ AckFirst
  BY <1>2, <1>3, <1>4 DEF HeaderAlone, HeaderOK, AckFirst, AckOK, Channel
<1> QED
  BY <1>5, <1>6, <1>7, <1>8 DEF Base

(* Who has closed what, the order of the two handlers and the places of the *)
(* header and the ack are as the code of internalProxy and the external     *)
(* handlers means them to be, whatever is reset or killed.                  *)
THEOREM HandshakeOrder == Spec => []Base
<1>1. Init => Base
  BY BaseInit
<1>2. Base /\ [Next]_vars => Base'
  BY StepIs, BaseStep
<1> QED
  BY <1>1, <1>2, PTL DEF Spec

(* Every variable of the tunnel keeps its type: no queue grows beyond the   *)
(* socket buffer, each carries what its direction may carry, and a copy     *)
(* that is not running holds nothing.                                       *)
THEOREM TunnelTypeCorrect == Spec => []TypeOK
<1>1. Base => TypeOK
  BY DEF Base
<1> QED
  BY <1>1, HandshakeOrder, PTL
=============================================================================
