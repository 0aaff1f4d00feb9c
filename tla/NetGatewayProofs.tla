------------------------- MODULE NetGatewayProofs -------------------------
(***************************************************************************)
(* The relay is faithful and its dial threads are bounded, for any number  *)
(* of keys, connections and links, any table and buffer sizes, any number  *)
(* of bytes sent and any of the faults.                                    *)
(*                                                                         *)
(* What a connection has carried is an invariant of the connection alone:  *)
(* the bytes the host got and those in the receive buffer are together     *)
(* what the guest sent, and likewise in the other direction; and the       *)
(* socket's state says which of the two ends has been seen.                *)
(***************************************************************************)
EXTENDS NetGateway, TLAPS, FiniteSetTheorems

SocketStates == {"SynReceived", "Established", "FinWait", "CloseWait", "Closing",
                 "LastAck", "TimeWait", "Closed"}

Bytes == Seq(Nat)

Flow == [key : GuestKeys, st : SocketStates, rx : Bytes, tx : Bytes,
         dial : {"run", "ok", "failed"}, thread : BOOLEAN, open : BOOLEAN,
         readEof : BOOLEAN, writeEof : BOOLEAN,
         sent : Nat, fin : BOOLEAN, got : Bytes, end : {"open", "fin", "reset"},
         hSent : Nat, hTaken : Nat, hFin : BOOLEAN, hReset : BOOLEAN, hGot : Bytes,
         hEnd : BOOLEAN, cut : BOOLEAN, dropped : BOOLEAN]

\* s holds the bytes after the first n of a stream.
From(s, n) == \A i \in 1 .. Len(s) : s[i] = n + i

ToHost(f) ==
    /\ From(f.hGot, 0) /\ From(f.rx, Len(f.hGot))
    /\ Len(f.hGot) + Len(f.rx) = f.sent
ToGuest(f) ==
    /\ From(f.got, 0) /\ From(f.tx, Len(f.got))
    /\ Len(f.got) + Len(f.tx) = f.hTaken /\ f.hTaken <= f.hSent
Ends(f) ==
    /\ f.readEof => f.hFin /\ f.hTaken = f.hSent
    /\ f.st \in {"FinWait", "Closing", "LastAck", "TimeWait"} => f.readEof
    /\ f.end = "fin" => f.readEof /\ f.tx = <<>>
    /\ f.st \in {"CloseWait", "Closing", "LastAck", "TimeWait"} => f.fin
    /\ f.st = "TimeWait" => f.end = "fin"
    /\ f.st = "Closed" /\ ~ f.cut => f.fin /\ f.end = "fin"
    /\ f.writeEof /\ ~ f.cut => f.fin /\ f.rx = <<>>
    /\ f.hEnd /\ ~ f.cut => f.fin /\ (f.rx = <<>> \/ f.end = "fin")

Sound(f) == f \in Flow /\ ToHost(f) /\ ToGuest(f) /\ Ends(f)

\* f becomes g: the same connection, dialled by the same thread, and closed for
\* good if it was closed.
Becomes(f, g) ==
    /\ Sound(g) /\ g.key = f.key /\ g.thread = f.thread
    /\ f.st = "Closed" => g.st = "Closed"

-----------------------------------------------------------------------------
(* Pieces of a stream. *)

LEMMA Extended ==
    ASSUME NEW s \in Seq(Nat), NEW n \in Nat, From(s, n), NEW m, m = n + Len(s) + 1
    PROVE  /\ Append(s, m) \in Seq(Nat) /\ Len(Append(s, m)) = Len(s) + 1
           /\ From(Append(s, m), n)
  BY DEF From

LEMMA Headed ==
    ASSUME NEW s \in Seq(Nat), NEW n \in Nat, From(s, n), s # <<>>
    PROVE  /\ Tail(s) \in Seq(Nat) /\ Len(Tail(s)) = Len(s) - 1 /\ Len(s) > 0
           /\ From(Tail(s), n + 1) /\ s[1] = n + 1
  BY DEF From

LEMMA Parted ==
    ASSUME NEW s \in Seq(Nat), NEW n \in Nat, From(s, n), NEW m \in 0 .. Len(s)
    PROVE  /\ SubSeq(s, m + 1, Len(s)) \in Seq(Nat)
           /\ Len(SubSeq(s, m + 1, Len(s))) = Len(s) - m
           /\ From(SubSeq(s, m + 1, Len(s)), n + m)
           /\ SubSeq(s, 1, m) \in Seq(Nat)
           /\ Len(SubSeq(s, 1, m)) = m /\ From(SubSeq(s, 1, m), n)
  BY DEF From

LEMMA Joined ==
    ASSUME NEW s \in Seq(Nat), NEW t \in Seq(Nat), NEW n \in Nat,
           From(s, n), NEW k, k = n + Len(s), From(t, k)
    PROVE  /\ s \o t \in Seq(Nat) /\ Len(s \o t) = Len(s) + Len(t)
           /\ From(s \o t, n)
  BY DEF From

LEMMA Counted ==
    ASSUME NEW n \in Nat, NEW m \in Nat
    PROVE  LET t == [i \in 1 .. m |-> n + i] IN
           t \in Seq(Nat) /\ Len(t) = m /\ From(t, n)
  BY DEF From

\* A stream is what has arrived, s, and what is buffered behind it, t: more
\* comes in, the next byte goes on, or the first m do.
LEMMA Grown ==
    ASSUME NEW s \in Seq(Nat), NEW t \in Seq(Nat), From(s, 0), From(t, Len(s)),
           NEW u \in Seq(Nat), From(u, Len(s) + Len(t))
    PROVE  /\ t \o u \in Seq(Nat) /\ From(t \o u, Len(s))
           /\ Len(s) + Len(t \o u) = Len(s) + Len(t) + Len(u)
  <1>1. /\ t \o u \in Seq(Nat) /\ Len(t \o u) = Len(t) + Len(u)
        /\ From(t \o u, Len(s))
    <2>1. Len(s) \in Nat
      OBVIOUS
    <2> QED BY <2>1, Joined
  <1> QED BY <1>1

LEMMA Sent ==
    ASSUME NEW s \in Seq(Nat), NEW t \in Seq(Nat), From(s, 0), From(t, Len(s)),
           NEW n, n = Len(s) + Len(t)
    PROVE  LET u == Append(t, n + 1) IN
           /\ u \in Seq(Nat) /\ From(u, Len(s)) /\ Len(s) + Len(u) = n + 1
           /\ n + 1 \in Nat
  BY Extended

LEMMA Taken ==
    ASSUME NEW s \in Seq(Nat), NEW t \in Seq(Nat), From(s, 0), From(t, Len(s)),
           t # <<>>
    PROVE  LET h == Append(s, t[1])
               u == Tail(t) IN
           /\ h \in Seq(Nat) /\ u \in Seq(Nat) /\ From(h, 0) /\ From(u, Len(h))
           /\ Len(h) + Len(u) = Len(s) + Len(t)
  <1>1. /\ Tail(t) \in Seq(Nat) /\ Len(Tail(t)) = Len(t) - 1
        /\ From(Tail(t), Len(s) + 1) /\ t[1] = Len(s) + 1
    BY Headed
  <1>2. /\ Append(s, t[1]) \in Seq(Nat) /\ Len(Append(s, t[1])) = Len(s) + 1
        /\ From(Append(s, t[1]), 0)
    BY <1>1, Extended
  <1> QED BY <1>1, <1>2

LEMMA Flushed ==
    ASSUME NEW s \in Seq(Nat), NEW t \in Seq(Nat), From(s, 0), From(t, Len(s)),
           NEW m \in 0 .. Len(t)
    PROVE  LET h == s \o SubSeq(t, 1, m)
               u == SubSeq(t, m + 1, Len(t)) IN
           /\ h \in Seq(Nat) /\ u \in Seq(Nat) /\ From(h, 0) /\ From(u, Len(h))
           /\ Len(h) + Len(u) = Len(s) + Len(t)
  <1> DEFINE p == SubSeq(t, 1, m)
             u == SubSeq(t, m + 1, Len(t))
  <1>1. /\ u \in Seq(Nat) /\ Len(u) = Len(t) - m /\ From(u, Len(s) + m)
        /\ p \in Seq(Nat) /\ Len(p) = m /\ From(p, Len(s))
    BY Parted
  <1> HIDE DEF p, u
  <1>2. s \o p \in Seq(Nat) /\ Len(s \o p) = Len(s) + m /\ From(s \o p, 0)
    <2>1. Len(s) = 0 + Len(s)
      OBVIOUS
    <2>2. s \o p \in Seq(Nat) /\ Len(s \o p) = Len(s) + Len(p) /\ From(s \o p, 0)
      BY <1>1, <2>1, Joined, Zenon
    <2> QED BY <1>1, <2>2
  <1>3. From(u, Len(s \o p)) /\ Len(s \o p) + Len(u) = Len(s) + Len(t)
    BY <1>1, <1>2
  <1> QED BY <1>1, <1>2, <1>3, Zenon DEF p, u

-----------------------------------------------------------------------------
(* Steps of one connection. *)

LEMMA FreshSound ==
    ASSUME NEW k \in GuestKeys
    PROVE  Sound(Fresh(k)) /\ Fresh(k).key = k /\ Fresh(k).thread
  BY DEF Sound, Flow, Bytes, SocketStates, Fresh, ToHost, ToGuest, Ends, From

LEMMA FlowUsed ==
    ASSUME NEW f \in Flow
    PROVE  f # Unused
  BY DEF Flow, Unused

\* Setting a field to its own value changes nothing.
LEMMA Unmoved ==
    ASSUME NEW f \in Flow, NEW x, NEW y
    PROVE  /\ [f EXCEPT !.sent = x, !.rx = y]
                = [f EXCEPT !.sent = x, !.rx = y, !.hGot = f.hGot]
           /\ [f EXCEPT !.rx = x, !.hGot = y]
                = [f EXCEPT !.sent = f.sent, !.rx = x, !.hGot = y]
           /\ [f EXCEPT !.tx = x, !.got = y]
                = [f EXCEPT !.tx = x, !.got = y, !.hTaken = f.hTaken]
           /\ [f EXCEPT !.tx = x, !.hTaken = y]
                = [f EXCEPT !.tx = x, !.got = f.got, !.hTaken = y]
  BY Zenon DEF Flow

\* What the guest has sent moves on towards the host.
LEMMA ToHostMoved ==
    ASSUME NEW f, Sound(f), NEW n \in Nat, NEW r \in Bytes, NEW h \in Bytes,
           From(h, 0), From(r, Len(h)), Len(h) + Len(r) = n,
           f.writeEof /\ ~ f.cut => r = <<>>,
           f.hEnd /\ ~ f.cut => r = <<>> \/ f.end = "fin"
    PROVE  Becomes(f, [f EXCEPT !.sent = n, !.rx = r, !.hGot = h])
  <1> DEFINE g == [f EXCEPT !.sent = n, !.rx = r, !.hGot = h]
  <1>1. f \in Flow /\ ToGuest(f) /\ Ends(f)
    BY DEF Sound
  <1>2. g \in Flow
    BY <1>1, Zenon DEF Flow
  <1>3. /\ g.sent = n /\ g.rx = r /\ g.hGot = h
        /\ g.got = f.got /\ g.tx = f.tx /\ g.hTaken = f.hTaken /\ g.hSent = f.hSent
        /\ g.readEof = f.readEof /\ g.hFin = f.hFin /\ g.st = f.st /\ g.end = f.end
        /\ g.fin = f.fin /\ g.cut = f.cut /\ g.writeEof = f.writeEof
        /\ g.hEnd = f.hEnd
        /\ g.key = f.key /\ g.thread = f.thread
    BY <1>1 DEF Flow
  <1> HIDE DEF g
  <1>4. ToHost(g)
    BY <1>3 DEF ToHost
  <1>5. ToGuest(g)
    BY <1>1, <1>3, Zenon DEF ToGuest
  <1>6. Ends(g)
    BY <1>1, <1>3 DEF Ends
  <1>7. Sound(g)
    BY <1>2, <1>4, <1>5, <1>6 DEF Sound
  <1> QED BY <1>3, <1>7 DEF g, Becomes


\* What the host has sent moves on towards the guest.
LEMMA ToGuestMoved ==
    ASSUME NEW f, Sound(f), NEW n \in Nat, NEW t \in Bytes, NEW g \in Bytes,
           From(g, 0), From(t, Len(g)), Len(g) + Len(t) = n, n <= f.hSent,
           f.readEof => n = f.hSent, f.end = "fin" => t = <<>>
    PROVE  Becomes(f, [f EXCEPT !.tx = t, !.got = g, !.hTaken = n])
  <1> DEFINE h == [f EXCEPT !.tx = t, !.got = g, !.hTaken = n]
  <1>1. f \in Flow /\ ToHost(f) /\ Ends(f)
    BY DEF Sound
  <1>2. h \in Flow
    BY <1>1, Zenon DEF Flow
  <1>3. /\ h.tx = t /\ h.got = g /\ h.hTaken = n
        /\ h.hGot = f.hGot /\ h.rx = f.rx /\ h.sent = f.sent /\ h.hSent = f.hSent
        /\ h.readEof = f.readEof /\ h.hFin = f.hFin /\ h.st = f.st /\ h.end = f.end
        /\ h.fin = f.fin /\ h.cut = f.cut /\ h.writeEof = f.writeEof
        /\ h.hEnd = f.hEnd
        /\ h.key = f.key /\ h.thread = f.thread
    BY <1>1 DEF Flow
  <1> HIDE DEF h
  <1>4. ToHost(h)
    BY <1>1, <1>3, Zenon DEF ToHost
  <1>5. ToGuest(h)
    BY <1>3 DEF ToGuest
  <1>6. Ends(h)
    BY <1>1, <1>3 DEF Ends
  <1>7. Sound(h)
    BY <1>2, <1>4, <1>5, <1>6 DEF Sound
  <1> QED BY <1>3, <1>7 DEF h, Becomes

-----------------------------------------------------------------------------
(* Steps of the guest and of its stack. *)

LEMMA AckSound ==
    ASSUME NEW f, Sound(f), f.st = "SynReceived"
    PROVE  Becomes(f, [f EXCEPT !.st = "Established"])
  BY ZenonT(40) DEF Becomes, Sound, Flow, SocketStates, ToHost, ToGuest, Ends, From

LEMMA SendSound ==
    ASSUME NEW f, Sound(f), f.st \in {"Established", "FinWait"}, ~ f.fin
    PROVE  Becomes(f, [f EXCEPT !.sent = @ + 1, !.rx = Append(@, f.sent + 1)])
  <1> DEFINE r == Append(f.rx, f.sent + 1)
             n == f.sent + 1
  <1>1. f \in Flow /\ ToHost(f) /\ Ends(f)
    BY DEF Sound
  <1>2. f.rx \in Seq(Nat) /\ f.hGot \in Seq(Nat)
    BY <1>1 DEF Flow, Bytes
  <1>3. From(f.hGot, 0) /\ From(f.rx, Len(f.hGot)) /\ f.sent = Len(f.hGot) + Len(f.rx)
    BY <1>1, Zenon DEF ToHost
  <1>4. r \in Seq(Nat) /\ From(r, Len(f.hGot)) /\ Len(f.hGot) + Len(r) = n /\ n \in Nat
    BY <1>2, <1>3, Sent, Zenon
  <1>5. ~ (f.writeEof /\ ~ f.cut) /\ ~ (f.hEnd /\ ~ f.cut)
    BY <1>1 DEF Ends
  <1>6. [f EXCEPT !.sent = @ + 1, !.rx = Append(@, f.sent + 1)]
        = [f EXCEPT !.sent = n, !.rx = r, !.hGot = f.hGot]
    BY <1>1, Unmoved, Zenon
  <1> HIDE DEF r, n
  <1>7. Becomes(f, [f EXCEPT !.sent = n, !.rx = r, !.hGot = f.hGot])
    BY <1>2, <1>3, <1>4, <1>5, ToHostMoved, Zenon DEF Bytes
  <1> QED BY <1>6, <1>7

LEMMA CloseSound ==
    ASSUME NEW f, Sound(f), f.st \in {"Established", "FinWait"}, ~ f.fin
    PROVE  Becomes(f, [f EXCEPT !.fin = TRUE,
                                !.st = IF @ = "Established" THEN "CloseWait"
                                       ELSE IF f.end = "fin" THEN "TimeWait"
                                       ELSE "Closing"])
  BY ZenonT(40) DEF Becomes, Sound, Flow, SocketStates, ToHost, ToGuest, Ends, From

LEMMA TakeSound ==
    ASSUME NEW f, Sound(f), f.tx # <<>>
    PROVE  Becomes(f, [f EXCEPT !.tx = Tail(@), !.got = Append(@, f.tx[1])])
  <1> DEFINE t == Tail(f.tx)
             g == Append(f.got, f.tx[1])
  <1>1. f \in Flow /\ ToGuest(f) /\ Ends(f)
    BY DEF Sound
  <1>2. f.tx \in Seq(Nat) /\ f.got \in Seq(Nat) /\ f.hTaken \in Nat
    BY <1>1 DEF Flow, Bytes
  <1>3. /\ From(f.got, 0) /\ From(f.tx, Len(f.got))
        /\ Len(f.got) + Len(f.tx) = f.hTaken /\ f.hTaken <= f.hSent
    BY <1>1, Zenon DEF ToGuest
  <1>4. /\ g \in Seq(Nat) /\ t \in Seq(Nat) /\ From(g, 0) /\ From(t, Len(g))
        /\ Len(g) + Len(t) = Len(f.got) + Len(f.tx)
    BY <1>2, <1>3, Taken, Zenon
  <1>5. [f EXCEPT !.tx = Tail(@), !.got = Append(@, f.tx[1])]
        = [f EXCEPT !.tx = t, !.got = g, !.hTaken = f.hTaken]
    BY <1>1, Unmoved, Zenon
  <1> HIDE DEF t, g
  <1>6. Len(g) + Len(t) = f.hTaken
    BY <1>3, <1>4, Zenon
  <1>7. (f.readEof => f.hTaken = f.hSent) /\ f.end # "fin"
    BY <1>1 DEF Ends
  <1>8. Becomes(f, [f EXCEPT !.tx = t, !.got = g, !.hTaken = f.hTaken])
    BY <1>2, <1>3, <1>4, <1>6, <1>7, ToGuestMoved, Zenon DEF Bytes
  <1> QED BY <1>5, <1>8

LEMMA TakeFinSound ==
    ASSUME NEW f, Sound(f), f.tx = <<>>, f.st \in {"FinWait", "Closing", "LastAck"}
    PROVE  Becomes(f, [f EXCEPT !.end = "fin",
                                !.st = CASE @ = "FinWait" -> "FinWait"
                                         [] @ = "Closing" -> "TimeWait"
                                         [] @ = "LastAck" -> "Closed"])
  BY ZenonT(40) DEF Becomes, Sound, Flow, SocketStates, ToHost, ToGuest, Ends, From

LEMMA ResetSound ==
    ASSUME NEW f, Sound(f)
    PROVE  Becomes(f, [f EXCEPT !.st = "Closed", !.end = "reset", !.cut = TRUE])
  BY ZenonT(40) DEF Becomes, Sound, Flow, SocketStates, ToHost, ToGuest, Ends, From

LEMMA TimeWaitSound ==
    ASSUME NEW f, Sound(f), f.st = "TimeWait"
    PROVE  Becomes(f, [f EXCEPT !.st = "Closed"]) /\ Becomes(f, Gone(f))
  BY ZenonT(40) DEF Becomes, Sound, Flow, SocketStates, ToHost, ToGuest, Ends, From, Gone,
                    Dropped

\* A flow that is removed had closed: if it was not cut, both ends were seen.
LEMMA DroppedSound ==
    ASSUME NEW f, Sound(f), f.st = "Closed"
    PROVE  Becomes(f, Dropped(f))
  BY ZenonT(40) DEF Becomes, Sound, Flow, SocketStates, ToHost, ToGuest, Ends, From, Dropped

LEMMA UnlinkSound ==
    ASSUME NEW f, Sound(f)
    PROVE  Becomes(f, [Dropped(f) EXCEPT !.st = "Closed", !.cut = TRUE])
  BY ZenonT(40) DEF Becomes, Sound, Flow, SocketStates, ToHost, ToGuest, Ends, From, Dropped

-----------------------------------------------------------------------------
(* Steps of the dial thread and of the host. *)

LEMMA DialSound ==
    ASSUME NEW f, Sound(f), NEW r \in {"ok", "failed"}
    PROVE  Becomes(f, [f EXCEPT !.dial = r])
  BY DEF Becomes, Sound, Flow, ToHost, ToGuest, Ends, From

LEMMA ThreadSound ==
    ASSUME NEW f, Sound(f)
    PROVE  /\ Sound([f EXCEPT !.thread = FALSE])
           /\ [f EXCEPT !.thread = FALSE].key = f.key
           /\ ~ [f EXCEPT !.thread = FALSE].thread
           /\ [f EXCEPT !.thread = FALSE].st = f.st
  BY ZenonT(40) DEF Sound, Flow, ToHost, ToGuest, Ends, From

LEMMA HostSound ==
    ASSUME NEW f, Sound(f)
    PROVE  /\ Becomes(f, [f EXCEPT !.hFin = TRUE])
           /\ Becomes(f, [f EXCEPT !.hReset = TRUE])
  BY ZenonT(40) DEF Becomes, Sound, Flow, ToHost, ToGuest, Ends, From

LEMMA HostSendSound ==
    ASSUME NEW f, Sound(f), ~ f.hFin
    PROVE  Becomes(f, [f EXCEPT !.hSent = @ + 1])
  <1> DEFINE g == [f EXCEPT !.hSent = @ + 1]
  <1>1. f \in Flow /\ ToHost(f) /\ ToGuest(f) /\ Ends(f)
    BY DEF Sound
  <1>2. f.hSent + 1 \in Nat /\ (f.hTaken <= f.hSent => f.hTaken <= f.hSent + 1)
    BY <1>1 DEF Flow
  <1>3. ~ f.readEof
    BY <1>1 DEF Ends
  <1>4. g \in Flow
    BY <1>1, <1>2, Zenon DEF Flow
  <1>5. ToHost(g) /\ ToGuest(g) /\ Ends(g)
    BY <1>1, <1>2, <1>3, ZenonT(40) DEF Flow, ToHost, ToGuest, Ends
  <1> QED BY <1>1, <1>4, <1>5, ZenonT(40) DEF Becomes, Sound, Flow
-----------------------------------------------------------------------------
(* The loop's visit. *)

LEMMA BecomesTwice ==
    ASSUME NEW f, NEW g, NEW h, Becomes(f, g), Becomes(g, h)
    PROVE  Becomes(f, h)
  BY DEF Becomes

LEMMA OpenSound ==
    ASSUME NEW f, Sound(f)
    PROVE  Becomes(f, [f EXCEPT !.open = TRUE])
  BY ZenonT(40) DEF Becomes, Sound, Flow, ToHost, ToGuest, Ends, From

LEMMA AbortedSound ==
    ASSUME NEW f, Sound(f)
    PROVE  Becomes(f, Aborted(f))
  BY ZenonT(40) DEF Becomes, Sound, Flow, SocketStates, ToHost, ToGuest, Ends, From, Aborted

LEMMA WrittenSound ==
    ASSUME NEW f, Sound(f), NEW g \in Written(f)
    PROVE  Becomes(f, g)
  <1>1. CASE f.rx = <<>>
    BY <1>1 DEF Written, Becomes
  <1>2. CASE f.rx # <<>> /\ f.hReset
    BY <1>2, AbortedSound DEF Written
  <1>3. CASE f.rx # <<>> /\ ~ f.hReset
    <2>1. PICK m \in 0 .. Len(f.rx) :
            g = [f EXCEPT !.rx = SubSeq(@, m + 1, Len(@)), !.hGot = @ \o SubSeq(f.rx, 1, m)]
      BY <1>3, Zenon DEF Written
    <2> DEFINE r == SubSeq(f.rx, m + 1, Len(f.rx))
               h == f.hGot \o SubSeq(f.rx, 1, m)
    <2>2. f \in Flow /\ ToHost(f) /\ Ends(f)
      BY DEF Sound
    <2>3. f.rx \in Seq(Nat) /\ f.hGot \in Seq(Nat) /\ f.sent \in Nat
      BY <2>2 DEF Flow, Bytes
    <2>4. From(f.hGot, 0) /\ From(f.rx, Len(f.hGot)) /\ Len(f.hGot) + Len(f.rx) = f.sent
      BY <2>2, Zenon DEF ToHost
    <2>5. /\ h \in Seq(Nat) /\ r \in Seq(Nat) /\ From(h, 0) /\ From(r, Len(h))
          /\ Len(h) + Len(r) = Len(f.hGot) + Len(f.rx)
      BY <2>3, <2>4, Flushed, Zenon
    <2>6. g = [f EXCEPT !.sent = f.sent, !.rx = r, !.hGot = h]
      BY <2>1, <2>2, Unmoved, Zenon
    <2> HIDE DEF r, h
    <2>7. Len(h) + Len(r) = f.sent
      BY <2>4, <2>5, Zenon
    <2>8. ~ (f.writeEof /\ ~ f.cut) /\ (f.hEnd /\ ~ f.cut => f.end = "fin")
      BY <1>3, <2>2 DEF Ends
    <2>9. Becomes(f, [f EXCEPT !.sent = f.sent, !.rx = r, !.hGot = h])
      BY <2>3, <2>5, <2>7, <2>8, ToHostMoved, Zenon DEF Bytes
    <2> QED BY <2>6, <2>9
  <1> QED BY <1>1, <1>2, <1>3

LEMMA HostEndSound ==
    ASSUME NEW f, Sound(f), f.st \in {"Established", "CloseWait"}, f.hFin,
           ~ (f.hSent > f.hTaken)
    PROVE  Becomes(f, [f EXCEPT !.readEof = TRUE,
                                !.st = IF @ = "Established" THEN "FinWait"
                                       ELSE "LastAck"])
  <1>1. f.hTaken = f.hSent
    BY DEF Sound, Flow, ToGuest
  <1> QED
    BY <1>1, ZenonT(40) DEF Becomes, Sound, Flow, SocketStates, ToHost, ToGuest, Ends, From

LEMMA HostBytesSound ==
    ASSUME NEW f, Sound(f), ~ f.readEof, NEW m \in Nat, f.hTaken + m <= f.hSent
    PROVE  Becomes(f, [f EXCEPT !.tx = @ \o [i \in 1 .. m |-> f.hTaken + i],
                                !.hTaken = @ + m])
  <1> DEFINE more == [i \in 1 .. m |-> f.hTaken + i]
             t == f.tx \o more
             n == f.hTaken + m
  <1>1. f \in Flow /\ ToGuest(f) /\ Ends(f)
    BY DEF Sound
  <1>2. f.tx \in Seq(Nat) /\ f.got \in Seq(Nat) /\ f.hTaken \in Nat
    BY <1>1 DEF Flow, Bytes
  <1>3. more \in Seq(Nat) /\ Len(more) = m /\ From(more, f.hTaken)
    BY <1>2, Counted
  <1>4. [f EXCEPT !.tx = @ \o [i \in 1 .. m |-> f.hTaken + i], !.hTaken = @ + m]
        = [f EXCEPT !.tx = t, !.got = f.got, !.hTaken = n]
    BY <1>1, Unmoved, Zenon
  <1> HIDE DEF more
  <1>5. From(f.got, 0) /\ From(f.tx, Len(f.got)) /\ Len(f.got) + Len(f.tx) = f.hTaken
    BY <1>1, Zenon DEF ToGuest
  <1>6. From(more, Len(f.got) + Len(f.tx))
    BY <1>3, <1>5, Zenon
  <1>7. /\ t \in Seq(Nat) /\ From(t, Len(f.got))
        /\ Len(f.got) + Len(t) = Len(f.got) + Len(f.tx) + m
    <2>1. /\ t \in Seq(Nat) /\ From(t, Len(f.got))
          /\ Len(f.got) + Len(t) = Len(f.got) + Len(f.tx) + Len(more)
      BY <1>2, <1>3, <1>5, <1>6, Grown, Zenon
    <2> QED BY <1>3, <2>1, Zenon
  <1> HIDE DEF t
  <1>8. Len(f.got) + Len(t) = n
    BY <1>5, <1>7, Zenon
  <1>9. n \in Nat /\ n <= f.hSent
    BY <1>2
  <1>10. ~ f.readEof /\ f.end # "fin"
    BY <1>1 DEF Ends
  <1> HIDE DEF n
  <1>11. Becomes(f, [f EXCEPT !.tx = t, !.got = f.got, !.hTaken = n])
    BY <1>2, <1>5, <1>7, <1>8, <1>9, <1>10, ToGuestMoved, Zenon DEF Bytes
  <1> QED BY <1>4, <1>11

LEMMA ReadSound ==
    ASSUME NEW f, Sound(f), NEW g \in Read(f)
    PROVE  Becomes(f, g)
  <1> DEFINE full == \/ f.st \notin {"Established", "CloseWait"}
                     \/ Len(f.tx) >= wscope.buffer \/ f.readEof
  <1>1. CASE full \/ (~ f.hReset /\ ~ (f.hSent > f.hTaken) /\ ~ f.hFin)
    BY <1>1, Zenon DEF Read, Becomes
  <1>2. CASE ~ full /\ f.hReset
    BY <1>2, AbortedSound DEF Read
  <1>3. CASE ~ full /\ ~ f.hReset /\ f.hSent > f.hTaken
    <2>1. PICK m \in 1 .. (f.hSent - f.hTaken) :
            g = [f EXCEPT !.tx = @ \o [i \in 1 .. m |-> f.hTaken + i], !.hTaken = @ + m]
      BY <1>3, Zenon DEF Read
    <2>2. f.hSent \in Nat /\ f.hTaken \in Nat
      BY DEF Sound, Flow
    <2>3. m \in Nat /\ f.hTaken + m <= f.hSent
      BY <2>2
    <2> QED BY <1>3, <2>1, <2>3, HostBytesSound, Zenon
  <1>4. CASE ~ full /\ ~ f.hReset /\ ~ (f.hSent > f.hTaken) /\ f.hFin
    BY <1>4, HostEndSound, Zenon DEF Read
  <1> QED BY <1>1, <1>2, <1>3, <1>4

LEMMA ShutSound ==
    ASSUME NEW f, Sound(f)
    PROVE  Becomes(f, Shut(f))
  <1>1. CASE MayRecv(f) \/ f.writeEof \/ f.st = "SynReceived"
    BY <1>1 DEF Shut, Becomes
  <1>2. CASE ~ (MayRecv(f) \/ f.writeEof \/ f.st = "SynReceived")
    <2>1. f.rx = <<>> /\ f.st \notin {"Established", "FinWait", "SynReceived"}
      BY <1>2 DEF MayRecv
    <2>2. Becomes(f, [f EXCEPT !.writeEof = TRUE, !.hEnd = TRUE])
      BY <2>1, ZenonT(40) DEF Becomes, Sound, Flow, SocketStates, ToHost, ToGuest, Ends, From
    <2> QED BY <1>2, <2>2 DEF Shut
  <1> QED BY <1>1, <1>2

LEMMA IdledSound ==
    ASSUME NEW f, Sound(f), NEW before, NEW g \in Idled(f, before)
    PROVE  Becomes(f, g)
  BY AbortedSound DEF Idled, Becomes

-----------------------------------------------------------------------------
(* The gateway: its table, its dial threads and its loop. *)

\* Connections are numbered in the order they are dialled, and each that was
\* carries what Sound says of it.
Connected ==
    /\ wscope \in GatewayScopes /\ dialled \in Nat
    /\ flows \in [GuestKeys -> Nat] /\ conn \in [Conns -> {Unused} \cup Flow]
    /\ \A c \in Conns : c > dialled => conn[c] = Unused
    /\ \A c \in Used : Sound(conn[c])
    /\ todo \subseteq Used
    /\ doomed \subseteq Used /\ \A c \in doomed : conn[c].st = "Closed"

GatewayInv == Connected /\ DialsBounded

LEMMA Relayed ==
    ASSUME NEW f, Sound(f),
           NEW g \in (IF ~ f.open /\ f.dial = "run" THEN {f}
                      ELSE IF ~ f.open /\ f.dial = "failed" THEN {Aborted(f)}
                      ELSE UNION {UNION {Idled(Shut(r), f) : r \in Read(w)} :
                                  w \in Written([f EXCEPT !.open = TRUE])})
    PROVE  Becomes(f, g)
  <1>1. CASE ~ f.open /\ f.dial = "run"
    BY <1>1 DEF Becomes
  <1>2. CASE ~ f.open /\ f.dial = "failed"
    BY <1>2, AbortedSound
  <1>3. CASE ~ (~ f.open /\ f.dial = "run") /\ ~ (~ f.open /\ f.dial = "failed")
    <2> DEFINE o == [f EXCEPT !.open = TRUE]
    <2>1. Becomes(f, o)
      BY OpenSound
    <2> HIDE DEF o
    <2>2. g \in UNION {UNION {Idled(Shut(r), f) : r \in Read(w)} : w \in Written(o)}
      BY <1>3, Zenon DEF o
    <2>3. PICK w \in Written(o) : g \in UNION {Idled(Shut(r), f) : r \in Read(w)}
      BY <2>2
    <2>4. PICK r \in Read(w) : g \in Idled(Shut(r), f)
      BY <2>3
    <2>5. Becomes(o, w)
      BY <2>1, WrittenSound DEF Becomes
    <2>6. Becomes(w, r)
      BY <2>5, ReadSound DEF Becomes
    <2>7. Becomes(r, Shut(r))
      BY <2>6, ShutSound DEF Becomes
    <2>8. Becomes(Shut(r), g)
      BY <2>4, <2>7, IdledSound DEF Becomes
    <2> QED BY <2>1, <2>5, <2>6, <2>7, <2>8, BecomesTwice
  <1> QED BY <1>1, <1>2, <1>3

\* One connection moves on, the table and the threads being as before.
LEMMA OneMoves ==
    ASSUME GatewayInv, NEW c \in Used, NEW g, Becomes(conn[c], g), Set(c, g),
           UNCHANGED <<wscope, flows, dialled, permits>>, todo' \subseteq todo,
           \A d \in doomed' : d \in doomed \/ (d = c /\ g.st = "Closed")
    PROVE  GatewayInv'
  <1>1. /\ c \in Conns /\ conn[c] # Unused /\ Sound(g) /\ g \in Flow /\ g # Unused
        /\ g.key = conn[c].key /\ g.thread = conn[c].thread
    BY FlowUsed DEF Used, Becomes, Sound
  <1>2. /\ conn' \in [Conns -> {Unused} \cup Flow] /\ conn'[c] = g
        /\ \A d \in Conns \ {c} : conn'[d] = conn[d]
    BY <1>1 DEF GatewayInv, Connected, Set
  <1>3. Used' = Used
    BY <1>1, <1>2 DEF Used
  <1>4. \A d \in Used : conn'[d].key = conn[d].key /\ conn'[d].thread = conn[d].thread
    BY <1>1, <1>2 DEF Used
  <1>5. Tracked' = Tracked /\ Threads' = Threads
    BY <1>3, <1>4 DEF Tracked, Threads
  <1>6. \A d \in Used' : Sound(conn'[d])
    BY <1>1, <1>2, <1>3 DEF GatewayInv, Connected, Used
  <1>7. \A d \in Conns : d > dialled' => conn'[d] = Unused
    BY <1>1, <1>2 DEF GatewayInv, Connected
  <1>8. Connected'
    <2>1. /\ doomed' \subseteq Used' /\ \A d \in doomed' : conn'[d].st = "Closed"
      BY <1>1, <1>2, <1>3 DEF GatewayInv, Connected, Used, Becomes
    <2> QED BY <1>2, <1>3, <1>6, <1>7, <2>1 DEF GatewayInv, Connected
  <1>9. DialsBounded'
    BY <1>5 DEF GatewayInv, DialsBounded
  <1> QED BY <1>8, <1>9 DEF GatewayInv

LEMMA Initially ==
    ASSUME GatewayConstants, GatewayInit
    PROVE  GatewayInv
  <1>1. Used = {} /\ Tracked = {} /\ Threads = {}
    BY DEF GatewayInit, Used, Tracked, Threads
  <1>2. Connected
    BY <1>1 DEF GatewayInit, Connected
  <1>3. DialsBounded
    BY <1>1, FS_EmptySet DEF GatewayInit, DialsBounded, GatewayConstants
  <1> QED BY <1>2, <1>3 DEF GatewayInv

LEMMA Finite ==
    ASSUME GatewayConstants
    PROVE  /\ IsFiniteSet(Threads) /\ Cardinality(Threads) \in Nat
           /\ IsFiniteSet(Tracked) /\ Cardinality(Tracked) \in Nat
  <1>1. Threads \subseteq Conns /\ Tracked \subseteq Conns /\ IsFiniteSet(Conns)
    BY DEF Threads, Tracked, Used, GatewayConstants
  <1> QED BY <1>1, FS_Subset, FS_CardinalityType

\* Flows leave the table, their connections having become others or not.
LEMMA SomeLeave ==
    ASSUME GatewayConstants, GatewayInv,
           conn' \in [Conns -> {Unused} \cup Flow], flows' \in [GuestKeys -> Nat],
           \A d \in Conns : \/ conn'[d] = conn[d]
                            \/ d \in Used /\ Becomes(conn[d], conn'[d]),
           \A k \in GuestKeys : flows'[k] \in {0, flows[k]},
           UNCHANGED <<wscope, dialled, permits, todo>>, doomed' \subseteq doomed
    PROVE  GatewayInv'
  <1>1. Used' = Used
    BY FlowUsed DEF Used, Becomes, Sound
  <1>2. \A d \in Used : /\ Sound(conn'[d]) /\ conn'[d].key = conn[d].key
                        /\ conn'[d].thread = conn[d].thread
                        /\ conn[d].key \in GuestKeys
    BY DEF GatewayInv, Connected, Used, Becomes, Sound, Flow
  <1>3. Threads' = Threads
    BY <1>1, <1>2 DEF Threads
  <1>4. Used \subseteq Nat \ {0}
    BY Zenon DEF Used, GatewayConstants
  <1>5. Tracked' \subseteq Tracked
    BY <1>1, <1>2, <1>4, Zenon DEF Tracked
  <1>6. Cardinality(Tracked') <= Cardinality(Tracked)
    BY <1>5, Finite, FS_Subset
  <1>7. Cardinality(Tracked') \in Nat
    BY <1>5, Finite, FS_Subset, FS_CardinalityType
  <1>8. wscope.flows \in Nat /\ Cardinality(Tracked) <= wscope.flows
    BY DEF GatewayInv, Connected, DialsBounded, GatewayConstants
  <1>9. Cardinality(Tracked') <= wscope.flows
    BY <1>6, <1>7, <1>8, Finite
  <1>10. DialsBounded'
    BY <1>3, <1>9 DEF GatewayInv, DialsBounded
  <1>11. \A d \in Conns : d > dialled' => conn'[d] = Unused
    BY DEF GatewayInv, Connected, Used
  <1>12. doomed' \subseteq Used' /\ \A d \in doomed' : conn'[d].st = "Closed"
    BY <1>1 DEF GatewayInv, Connected, Used, Becomes
  <1>13. Connected'
    BY <1>1, <1>2, <1>11, <1>12 DEF GatewayInv, Connected
  <1> QED BY <1>10, <1>13 DEF GatewayInv

\* A set of at most n with room for one more, or losing one, takes in another.
LEMMA RoomMade ==
    ASSUME NEW S, IsFiniteSet(S), NEW n \in Nat, Cardinality(S) <= n, NEW old,
           Cardinality(S) < n \/ \E x \in S : old = {x},
           NEW c, c \notin S, NEW T, T \subseteq (S \ old) \cup {c}
    PROVE  Cardinality(T) <= n
  <1> DEFINE left == S \ old
  <1>1. IsFiniteSet(left) /\ Cardinality(left) < n
    <2>1. CASE Cardinality(S) < n
      <3>1. left \in SUBSET S
        OBVIOUS
      <3>2. IsFiniteSet(left) /\ Cardinality(left) <= Cardinality(S)
        BY <3>1, FS_Subset
      <3> QED BY <2>1, <3>2, FS_CardinalityType
    <2>2. CASE \E x \in S : old = {x}
      <3>1. PICK x \in S : old = {x}
        BY <2>2
      <3>2. IsFiniteSet(S \ {x}) /\ Cardinality(S \ {x}) = Cardinality(S) - 1
        BY <3>1, FS_RemoveElement
      <3>3. Cardinality(S) \in Nat
        BY FS_CardinalityType
      <3> QED BY <3>1, <3>2, <3>3
    <2> QED BY <2>1, <2>2
  <1>2. c \notin left
    OBVIOUS
  <1> HIDE DEF left
  <1>3. IsFiniteSet(left \cup {c}) /\ Cardinality(left \cup {c}) = Cardinality(left) + 1
    BY <1>1, <1>2, FS_AddElement
  <1>4. T \in SUBSET (left \cup {c})
    BY DEF left
  <1>5. IsFiniteSet(T) /\ Cardinality(T) <= Cardinality(left \cup {c})
    BY <1>3, <1>4, FS_Subset
  <1> QED BY <1>1, <1>3, <1>5, FS_CardinalityType

LEMMA SynStep ==
    ASSUME GatewayConstants, GatewayInv, NEW k \in GuestKeys, Syn(k)
    PROVE  GatewayInv'
  <1> DEFINE c == dialled + 1
             Without(old, j) == IF flows[j] \in old THEN 0 ELSE flows[j]
             After(old, d) == IF d \in old THEN Gone(conn[d]) ELSE conn[d]
  <1>1. PICK old \in Retirable :
          /\ c <= wscope.dials /\ UNCHANGED <<wscope, todo, doomed>>
          /\ \/ /\ old # {} \/ Cardinality(Tracked) < wscope.flows
                /\ permits < wscope.flows
                /\ conn' = [d \in Conns |-> IF d = c THEN Fresh(k) ELSE After(old, d)]
                /\ flows' = [j \in GuestKeys |-> IF j = k THEN c ELSE Without(old, j)]
                /\ dialled' = c /\ permits' = permits + 1
             \/ /\ conn' = [d \in Conns |-> After(old, d)]
                /\ flows' = [j \in GuestKeys |-> Without(old, j)]
                /\ UNCHANGED <<dialled, permits>>
    BY DEF Syn, PermitLeft, pass
  <1>2. /\ old = {} \/ \E x \in Tracked : old = {x}
        /\ \A d \in old : d \in Used /\ conn[d].st = "TimeWait"
    BY <1>1 DEF Retirable, Tracked
  <1>3. c \in Conns /\ c \in Nat /\ conn[c] = Unused /\ c \notin Used
    BY <1>1 DEF GatewayInv, Connected, GatewayConstants, Used
  <1>4. \A d \in Conns : \/ After(old, d) = conn[d]
                         \/ d \in Used /\ Becomes(conn[d], After(old, d))
    BY <1>2, TimeWaitSound, Zenon DEF GatewayInv, Connected, Used
  <1>5. \A d \in Conns : After(old, d) \in {Unused} \cup Flow
    BY <1>4 DEF GatewayInv, Connected, Becomes, Sound
  <1>6. \A j \in GuestKeys : Without(old, j) \in {0, flows[j]} /\ Without(old, j) \in Nat
    BY DEF GatewayInv, Connected
  <1> HIDE DEF c, After
  <1>7. CASE conn' = [d \in Conns |-> After(old, d)] /\ flows' = [j \in GuestKeys |-> Without(old, j)]
             /\ UNCHANGED <<wscope, dialled, permits, todo, doomed>>
    <2>1. /\ conn' \in [Conns -> {Unused} \cup Flow]
          /\ flows' \in [GuestKeys -> Nat]
          /\ \A d \in Conns : \/ conn'[d] = conn[d]
                              \/ d \in Used /\ Becomes(conn[d], conn'[d])
          /\ \A j \in GuestKeys : flows'[j] \in {0, flows[j]}
      BY <1>4, <1>5, <1>6, <1>7
    <2>2. UNCHANGED <<wscope, dialled, permits, todo>> /\ doomed' \subseteq doomed
      BY <1>7
    <2> QED BY <2>1, <2>2, SomeLeave
  <1>8. CASE /\ old # {} \/ Cardinality(Tracked) < wscope.flows
             /\ permits < wscope.flows
             /\ conn' = [d \in Conns |-> IF d = c THEN Fresh(k) ELSE After(old, d)]
             /\ flows' = [j \in GuestKeys |-> IF j = k THEN c ELSE Without(old, j)]
             /\ dialled' = c /\ permits' = permits + 1
             /\ UNCHANGED <<wscope, todo, doomed>>
    <2>1. Sound(Fresh(k)) /\ Fresh(k).key = k /\ Fresh(k).thread
          /\ Fresh(k) \in Flow /\ Fresh(k) # Unused
      BY FreshSound, FlowUsed DEF Sound
    <2>2. conn'[c] = Fresh(k) /\ \A d \in Conns \ {c} : conn'[d] = After(old, d)
      BY <1>3, <1>8
    <2>3. conn' \in [Conns -> {Unused} \cup Flow] /\ flows' \in [GuestKeys -> Nat]
      BY <1>3, <1>5, <1>6, <1>8, <2>1
    <2>4. \A d \in Used : /\ Sound(conn'[d]) /\ conn'[d].key = conn[d].key
                          /\ conn'[d].thread = conn[d].thread
                          /\ conn[d].key \in GuestKeys /\ conn'[d] # Unused
      BY <1>3, <1>4, <2>2, FlowUsed
         DEF GatewayInv, Connected, Used, Becomes, Sound, Flow
    <2>5. Used' = Used \cup {c}
      BY <1>3, <1>4, <2>1, <2>2, <2>4, Zenon DEF Used
    <2>6. Connected'
      <3>1. \A d \in Conns : d > dialled' => conn'[d] = Unused
        <4> SUFFICES ASSUME NEW d \in Conns, d > c PROVE conn'[d] = Unused
          BY <1>8
        <4>1. d # c /\ conn[d] = Unused
          BY DEF c, GatewayInv, Connected, GatewayConstants
        <4> QED BY <1>4, <2>2, <4>1 DEF Used
      <3>2. doomed' \subseteq Used' /\ \A d \in doomed' : conn'[d].st = "Closed"
        BY <1>3, <1>4, <1>8, <2>2, <2>5 DEF GatewayInv, Connected, Used, Becomes
      <3> QED BY <1>3, <1>8, <2>1, <2>2, <2>3, <2>4, <2>5, <3>1, <3>2, ZenonT(40)
              DEF GatewayInv, Connected
    <2>7. Threads' = Threads \cup {c} /\ c \notin Threads
      BY <1>3, <2>1, <2>2, <2>4, <2>5 DEF Threads
    <2>8. wscope.flows \in Nat /\ permits = Cardinality(Threads)
          /\ Cardinality(Tracked) <= wscope.flows
      BY DEF GatewayInv, Connected, DialsBounded, GatewayConstants
    <2>9. permits' = Cardinality(Threads') /\ permits' <= wscope'.flows
      <3>1. Cardinality(Threads') = Cardinality(Threads) + 1
        BY <2>7, Finite, FS_AddElement, Zenon
      <3> QED BY <1>8, <2>8, <3>1, Finite
    <2>10. Tracked' \subseteq (Tracked \ old) \cup {c}
      <3>1. \A d \in Used : d # 0 /\ conn[d].key \in GuestKeys /\ conn'[d].key = conn[d].key
        BY <2>4 DEF Used, GatewayConstants
      <3>2. \A j \in GuestKeys : flows'[j] = IF j = k THEN c ELSE Without(old, j)
        BY <1>8
      <3> QED BY <2>5, <3>1, <3>2 DEF Tracked
    <2>11. c \notin Tracked
      BY <1>3 DEF Tracked
    <2>12. Cardinality(Tracked) < wscope.flows \/ \E x \in Tracked : old = {x}
      BY <1>2, <1>8
    <2>13. Cardinality(Tracked') <= wscope.flows
      BY <2>8, <2>10, <2>11, <2>12, Finite, RoomMade, Zenon
    <2> QED BY <1>8, <2>6, <2>9, <2>13 DEF GatewayInv, DialsBounded
  <1> QED
    BY <1>1, <1>7, <1>8

LEMMA ThreadStep ==
    ASSUME GatewayConstants, GatewayInv, NEW c \in Used, ThreadEnds(c)
    PROVE  GatewayInv'
  <1> DEFINE g == [conn[c] EXCEPT !.thread = FALSE]
  <1>1. Sound(conn[c]) /\ c \in Conns /\ c \in Threads /\ conn[c].thread
    BY DEF GatewayInv, Connected, Used, ThreadEnds, Threads
  <1>2. /\ Sound(g) /\ g.key = conn[c].key /\ ~ g.thread /\ g \in Flow /\ g # Unused
        /\ g.st = conn[c].st
    BY <1>1, ThreadSound, FlowUsed DEF Sound
  <1>3. conn' = [conn EXCEPT ![c] = g]
    BY DEF ThreadEnds, Set
  <1> HIDE DEF g
  <1>4. /\ conn' \in [Conns -> {Unused} \cup Flow] /\ conn'[c] = g
        /\ \A d \in Conns \ {c} : conn'[d] = conn[d]
    BY <1>1, <1>2, <1>3 DEF GatewayInv, Connected
  <1>5. Used' = Used
    BY <1>1, <1>2, <1>4 DEF Used
  <1>6. Threads' = Threads \ {c}
    BY <1>1, <1>2, <1>4, <1>5 DEF Threads, Used
  <1>7. Tracked' = Tracked
    BY <1>2, <1>4, <1>5 DEF Tracked, Used, ThreadEnds
  <1>8. Cardinality(Threads') = Cardinality(Threads) - 1
    BY <1>1, <1>6, Finite, FS_RemoveElement, Zenon
  <1>9. wscope.flows \in Nat
    BY DEF GatewayInv, Connected, GatewayConstants
  <1>10. DialsBounded'
    BY <1>7, <1>8, <1>9, Finite DEF GatewayInv, DialsBounded, ThreadEnds
  <1>11. \A d \in Used' : Sound(conn'[d])
    BY <1>2, <1>4, <1>5 DEF GatewayInv, Connected, Used
  <1>12. \A d \in Conns : d > dialled' => conn'[d] = Unused
    BY <1>4 DEF GatewayInv, Connected, Used, ThreadEnds
  <1>13. doomed' \subseteq Used' /\ \A d \in doomed' : conn'[d].st = "Closed"
    BY <1>2, <1>4, <1>5 DEF GatewayInv, Connected, Used, ThreadEnds, pass
  <1>14. Connected'
    BY <1>4, <1>5, <1>11, <1>12, <1>13 DEF GatewayInv, Connected, ThreadEnds, pass
  <1> QED BY <1>10, <1>14 DEF GatewayInv

LEMMA GuestStep ==
    ASSUME GatewayInv, NEW c \in Used,
           \/ GuestAcks(c) \/ GuestSends(c) \/ GuestCloses(c) \/ GuestTakes(c)
           \/ GuestResets(c) \/ TimeWaitEnds(c)
    PROVE  GatewayInv'
  <1>1. Sound(conn[c])
    BY DEF GatewayInv, Connected
  <1>2. \A g : Set(c, g) /\ UNCHANGED <<tableSide, pass>> /\ Becomes(conn[c], g) => GatewayInv'
    BY OneMoves DEF tableSide, pass
  <1>3. CASE GuestAcks(c)
    BY <1>1, <1>2, <1>3, AckSound DEF GuestAcks, GuestDoes
  <1>4. CASE GuestSends(c)
    BY <1>1, <1>2, <1>4, SendSound, Zenon DEF GuestSends, GuestDoes
  <1>5. CASE GuestCloses(c)
    BY <1>1, <1>2, <1>5, CloseSound, Zenon DEF GuestCloses, GuestDoes
  <1>6. CASE GuestTakes(c)
    BY <1>1, <1>2, <1>6, TakeSound, TakeFinSound, Zenon DEF GuestTakes, GuestDoes
  <1>7. CASE GuestResets(c)
    BY <1>1, <1>2, <1>7, ResetSound, Zenon DEF GuestResets, GuestDoes
  <1>8. CASE TimeWaitEnds(c)
    BY <1>1, <1>2, <1>8, TimeWaitSound DEF TimeWaitEnds, GuestDoes
  <1> QED BY <1>3, <1>4, <1>5, <1>6, <1>7, <1>8

LEMMA HostStep ==
    ASSUME GatewayInv, NEW c \in Used,
           Dialled(c) \/ HostSends(c) \/ HostCloses(c) \/ HostResets(c)
    PROVE  GatewayInv'
  <1>1. Sound(conn[c])
    BY DEF GatewayInv, Connected
  <1>2. \A g : Beside(c, g) /\ Becomes(conn[c], g) => GatewayInv'
    BY OneMoves DEF Beside, tableSide, pass
  <1>3. CASE Dialled(c)
    BY <1>1, <1>2, <1>3, DialSound, Zenon DEF Dialled
  <1>4. CASE HostSends(c)
    BY <1>1, <1>2, <1>4, HostSendSound DEF HostSends
  <1>5. CASE HostCloses(c)
    BY <1>1, <1>2, <1>5, HostSound, Zenon DEF HostCloses
  <1>6. CASE HostResets(c)
    BY <1>1, <1>2, <1>6, HostSound, Zenon DEF HostResets
  <1> QED BY <1>3, <1>4, <1>5, <1>6

LEMMA PassStep ==
    ASSUME GatewayConstants, GatewayInv,
           BeginPass \/ EndPass \/ LinkEnds \/ \E c \in Used : Relay(c)
    PROVE  GatewayInv'
  <1>1. CASE BeginPass
    <2>1. Used' = Used /\ Tracked' = Tracked /\ Threads' = Threads /\ todo' \subseteq Used
      BY <1>1 DEF BeginPass, tableSide, Used, Tracked, Threads
    <2> QED BY <1>1, <2>1 DEF BeginPass, tableSide, GatewayInv, Connected, DialsBounded
  <1>2. CASE EndPass
    <2>1. /\ flows' \in [GuestKeys -> Nat] /\ doomed' \subseteq doomed
          /\ \A k \in GuestKeys : flows'[k] \in {0, flows[k]}
          /\ UNCHANGED <<wscope, dialled, permits, todo>>
      BY <1>2 DEF EndPass, GatewayInv, Connected
    <2>2. \A d \in doomed : d \in Used /\ Becomes(conn[d], Dropped(conn[d]))
      BY DroppedSound, Zenon DEF GatewayInv, Connected
    <2>3. \A d \in Conns : \/ conn'[d] = conn[d]
                           \/ d \in Used /\ Becomes(conn[d], conn'[d])
      BY <1>2, <2>2, Zenon DEF EndPass
    <2>4. conn' \in [Conns -> {Unused} \cup Flow]
      <3>1. conn' = [d \in Conns |-> conn'[d]]
        BY <1>2, Zenon DEF EndPass
      <3>2. \A d \in Conns : conn'[d] \in {Unused} \cup Flow
        BY <2>3, Zenon DEF GatewayInv, Connected, Becomes, Sound
      <3> QED BY <3>1, <3>2
    <2> QED BY <2>1, <2>3, <2>4, SomeLeave
  <1>3. CASE LinkEnds
    <2> DEFINE Cut(d) == [Dropped(conn[d]) EXCEPT !.st = "Closed", !.cut = TRUE]
    <2>1. \A d \in Used : Becomes(conn[d], Cut(d)) /\ Cut(d) \in Flow
      BY UnlinkSound, Zenon DEF GatewayInv, Connected, Becomes, Sound
    <2>2. \A d \in Conns : conn'[d] = conn[d] \/ (d \in Used /\ conn'[d] = Cut(d))
      BY <1>3, Zenon DEF LinkEnds, Unlinked, Tracked
    <2> HIDE DEF Cut
    <2>3. conn' \in [Conns -> {Unused} \cup Flow]
      <3>1. conn' = [d \in Conns |-> conn'[d]]
        BY <1>3, Zenon DEF LinkEnds, Unlinked
      <3>2. \A d \in Conns : conn'[d] \in {Unused} \cup Flow
        BY <2>1, <2>2 DEF GatewayInv, Connected
      <3> QED BY <3>1, <3>2
    <2>4. \A d \in Conns : \/ conn'[d] = conn[d]
                           \/ d \in Used /\ Becomes(conn[d], conn'[d])
      BY <2>1, <2>2
    <2>5. /\ flows' \in [GuestKeys -> Nat]
          /\ \A k \in GuestKeys : flows'[k] \in {0, flows[k]}
      BY <1>3, Zenon DEF LinkEnds, Unlinked
    <2>6. UNCHANGED <<wscope, dialled, permits, todo>> /\ doomed' \subseteq doomed
      BY <1>3 DEF LinkEnds, pass
    <2> QED BY <2>3, <2>4, <2>5, <2>6, SomeLeave
  <1>4. ASSUME NEW c \in Used, Relay(c) PROVE GatewayInv'
    <2>1. Sound(conn[c])
      BY DEF GatewayInv, Connected
    <2>2. PICK g : /\ Becomes(conn[c], g) /\ Set(c, g)
                   /\ \A d \in doomed' : d \in doomed \/ (d = c /\ g.st = "Closed")
      BY <1>4, <2>1, Relayed DEF Relay
    <2>3. UNCHANGED <<wscope, flows, dialled, permits>> /\ todo' \subseteq todo
      BY <1>4 DEF Relay
    <2> QED BY <2>2, <2>3, OneMoves
  <1> QED BY <1>1, <1>2, <1>3, <1>4

LEMMA GatewayStep ==
    ASSUME GatewayConstants, GatewayInv, [GatewayNext]_gatewayVars
    PROVE  GatewayInv'
  <1>1. ASSUME NEW k \in GuestKeys, Syn(k) PROVE GatewayInv'
    BY <1>1, SynStep
  <1>2. ASSUME NEW c \in Used,
               \/ GuestAcks(c) \/ GuestSends(c) \/ GuestCloses(c) \/ GuestTakes(c)
               \/ GuestResets(c) \/ TimeWaitEnds(c)
        PROVE  GatewayInv'
    BY <1>2, GuestStep
  <1>3. ASSUME NEW c \in Used,
               Dialled(c) \/ HostSends(c) \/ HostCloses(c) \/ HostResets(c)
        PROVE  GatewayInv'
    BY <1>3, HostStep
  <1>4. ASSUME NEW c \in Used, ThreadEnds(c) PROVE GatewayInv'
    BY <1>4, ThreadStep
  <1>5. ASSUME BeginPass \/ EndPass \/ LinkEnds \/ \E c \in Used : Relay(c)
        PROVE  GatewayInv'
    BY <1>5, PassStep
  <1>6. CASE UNCHANGED gatewayVars
    BY <1>6 DEF gatewayVars, GatewayInv, Connected, DialsBounded, Used, Tracked, Threads
  <1> QED BY <1>1, <1>2, <1>3, <1>4, <1>5, <1>6 DEF GatewayNext

\* What a sound connection has delivered.
LEMMA Delivered ==
    ASSUME NEW f, Sound(f)
    PROVE  /\ Counting(f.hGot) /\ Len(f.hGot) <= f.sent
           /\ Counting(f.got) /\ Len(f.got) <= f.hSent
           /\ f.end = "fin" => f.hFin /\ Len(f.got) = f.hSent
           /\ f.writeEof /\ ~ f.cut => f.fin /\ Len(f.hGot) = f.sent
           /\ f.hEnd /\ ~ f.cut => f.fin /\ (Len(f.hGot) = f.sent \/ f.end = "fin")
  <1>1. f \in Flow /\ ToHost(f) /\ ToGuest(f) /\ Ends(f)
    BY DEF Sound
  <1>2. /\ f.hGot \in Seq(Nat) /\ f.got \in Seq(Nat) /\ f.rx \in Seq(Nat)
        /\ f.tx \in Seq(Nat) /\ f.hTaken \in Nat /\ f.hSent \in Nat
    BY <1>1 DEF Flow, Bytes
  <1>3. \A s \in Seq(Nat) : From(s, 0) => Counting(s)
    BY DEF From, Counting
  <1>4. \A s \in Seq(Nat), t \in Seq(Nat) :
          /\ Len(s) <= Len(s) + Len(t)
          /\ t = <<>> => Len(s) + Len(t) = Len(s)
    OBVIOUS
  <1>5. \A s \in Seq(Nat) : \A m \in Nat, n \in Nat : Len(s) <= m /\ m <= n => Len(s) <= n
    OBVIOUS
  <1>6. From(f.hGot, 0) /\ f.sent = Len(f.hGot) + Len(f.rx)
    BY <1>1, Zenon DEF ToHost
  <1>7. From(f.got, 0) /\ f.hTaken = Len(f.got) + Len(f.tx) /\ f.hTaken <= f.hSent
    BY <1>1, Zenon DEF ToGuest
  <1>8. /\ f.readEof => f.hFin /\ f.hTaken = f.hSent
        /\ f.end = "fin" => f.readEof /\ f.tx = <<>>
        /\ f.writeEof /\ ~ f.cut => f.fin /\ f.rx = <<>>
        /\ f.hEnd /\ ~ f.cut => f.fin /\ (f.rx = <<>> \/ f.end = "fin")
    BY <1>1 DEF Ends
  <1>9. Counting(f.hGot) /\ Counting(f.got)
    BY <1>2, <1>3, <1>6, <1>7, Zenon
  <1>10. Len(f.hGot) <= f.sent /\ Len(f.got) <= f.hTaken
    BY <1>2, <1>4, <1>6, <1>7, Zenon
  <1>11. Len(f.got) <= f.hSent
    BY <1>2, <1>5, <1>7, <1>10, Zenon
  <1>12. f.end = "fin" => f.hFin /\ Len(f.got) = f.hSent
    BY <1>2, <1>4, <1>7, <1>8, Zenon
  <1>13. f.writeEof /\ ~ f.cut => f.fin /\ Len(f.hGot) = f.sent
    BY <1>2, <1>4, <1>6, <1>8, Zenon
  <1>14. f.hEnd /\ ~ f.cut => f.fin /\ (Len(f.hGot) = f.sent \/ f.end = "fin")
    BY <1>2, <1>4, <1>6, <1>8, Zenon
  <1> QED BY <1>9, <1>10, <1>11, <1>12, <1>13, <1>14

(***************************************************************************)
(* Every byte of either stream is delivered once and in order, and each    *)
(* half-close only behind the last byte unless the connection was cut      *)
(* short, whatever the sizes, the faults and the interleaving (gateway.rs, *)
(* the visit to a flow).  A removed flow's stream is dropped, which ends   *)
(* it for the host: bytes are missing then only if both sides had closed.  *)
(***************************************************************************)
THEOREM RelayIsFaithful ==
    ASSUME GatewayConstants
    PROVE  GatewaySpec => []RelayFaithful
  <1>1. GatewayInit => GatewayInv
    BY Initially
  <1>2. GatewayInv /\ [GatewayNext]_gatewayVars => GatewayInv'
    BY GatewayStep
  <1>3. GatewayInv => RelayFaithful
    BY Delivered DEF GatewayInv, Connected, RelayFaithful
  <1> QED BY <1>1, <1>2, <1>3, PTL DEF GatewaySpec

(***************************************************************************)
(* The shared count of dial threads is exact and at most MAX_FLOWS, and so *)
(* is the flow table, over any number of removals, evictions and links     *)
(* (gateway.rs, ConnectPermit; main.rs, the one counter of the process).   *)
(***************************************************************************)
THEOREM DialsAreBounded ==
    ASSUME GatewayConstants
    PROVE  GatewaySpec => []DialsBounded
  <1>1. GatewayInit => GatewayInv
    BY Initially
  <1>2. GatewayInv /\ [GatewayNext]_gatewayVars => GatewayInv'
    BY GatewayStep
  <1>3. GatewayInv => DialsBounded
    BY DEF GatewayInv
  <1> QED BY <1>1, <1>2, <1>3, PTL DEF GatewaySpec
=============================================================================
