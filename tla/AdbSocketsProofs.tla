-------------------------- MODULE AdbSocketsProofs --------------------------
(***************************************************************************)
(* Proofs about AdbSockets, for any number of streams and sessions, any    *)
(* size of the blob and of the packets, and any room in the socket pairs.  *)
(*                                                                         *)
(* Two inductive invariants.  IInv: what the host knows and where packets  *)
(* can be (LinkInv), that every stream is opened once (SocketsInv,         *)
(* OpensInv), which streams the packets are about that wait on either side *)
(* (DevInv, HostInv, SessionInv), and what an answer says of the file      *)
(* (ServedInv).  FInv, on top of it, for the flow control: which socket a  *)
(* packet goes to and is from (AddressInv), when the host learns its       *)
(* stream's socket (KnownInv), and for each socket where its stream's      *)
(* permissions are (PermitFlow) and its units (ContentFlow).               *)
(***************************************************************************)
EXTENDS AdbSockets, FiniteSetTheorems, SequenceTheorems, TLAPS

\* A socket of the transport that is plugged in.
Cabled(k) == sock[k].state = "open" /\ sock[k].t = cable.t

\* Streams that an earlier server opened: the ids of this one begin after them.
Base == host.opened - host.lastId

LinkInv ==
  /\ \A t \in ready : toDev[t] # <<>>
  /\ \A t \in Transports : t > cable.t => toDev[t] = <<>> /\ toHost[t] = <<>>
  /\ host.asked => cable.in
  /\ host.up => host.asked
  /\ host.id # 0 => host.up /\ host.id = host.lastId
  /\ host.rid # 0 \/ host.credit => host.id # 0
  /\ host.lastId <= host.opened

SocketsInv ==
  /\ \A k \in Ids :
       /\ k >= nextId => sock[k] = NoSocket /\ svc[k] = NoService
       /\ k < nextId => sock[k].state # "none" /\ sock[k].n \in 1..host.opened
       /\ sock[k].state = "freed" => sock[k].backlog = <<>>
       /\ sock[k].state = "open" => sock[k].t \in Transports /\ online[sock[k].t]
       /\ Len(svc[k].in) <= Room
  /\ \A j, k \in Ids : j < nextId /\ k < nextId /\ sock[j].n = sock[k].n => j = k

\* An OPEN that is on its way is of a stream that has no socket yet, and there
\* is no other.
OpensInv ==
  \A t \in Transports : \A i \in 1..Len(toDev[t]) : toDev[t][i].cmd = "OPEN" =>
    /\ toDev[t][i].stream \in 1..host.opened
    /\ \A k \in Ids : k < nextId => sock[k].n # toDev[t][i].stream
    /\ \A u \in Transports : \A j \in 1..Len(toDev[u]) :
         toDev[u][j].cmd = "OPEN" /\ toDev[u][j].stream = toDev[t][i].stream => u = t /\ j = i

\* What a server finds on its way to the device is its own; before that, its
\* CNXN is the last packet.
DevInv ==
  cable.in => \A i \in 1..Len(toDev[cable.t]) :
    /\ toDev[cable.t][i].cmd = "CNXN" => host.asked /\ ~host.up /\ i = Len(toDev[cable.t])
    /\ host.up => /\ toDev[cable.t][i].stream > Base
                  /\ toDev[cable.t][i].arg0 = toDev[cable.t][i].stream - Base

\* An OKAY of the service is about a blob that has been received.
Truthful(p) ==
  \E k \in Ids : k < nextId /\ sock[k].n = p.stream /\ (p.data[1] = "OKAY" => svc[k].off = Size)
StillTruthful(p) ==
  \E k \in Ids : k < nextId' /\ sock'[k].n = p.stream /\ (p.data[1] = "OKAY" => svc'[k].off = Size)

\* The same of what is on its way to it: the device's CNXN comes after all that
\* was said to its predecessor, and then there is no socket that could say more.
HostInv ==
  cable.in => \A i \in 1..Len(toHost[cable.t]) :
    /\ toHost[cable.t][i].cmd = "CNXN" =>
         /\ host.asked /\ ~host.up /\ i = Len(toHost[cable.t])
         /\ toDev[cable.t] = <<>> /\ \A k \in Ids : ~Cabled(k)
    /\ host.up => /\ toHost[cable.t][i].stream > Base
                  /\ toHost[cable.t][i].arg1 = toHost[cable.t][i].stream - Base
    /\ toHost[cable.t][i].cmd = "WRTE" =>
         toHost[cable.t][i].data # <<>> /\ Truthful(toHost[cable.t][i])

\* And the open sockets have the ids that it knows them by.
SessionInv ==
  host.up => \A k \in Ids : Cabled(k) => sock[k].n > Base /\ sock[k].rid = sock[k].n - Base

ServedInv ==
  /\ \A k \in Ids :
       /\ svc[k].state \in {"none", "started"} => svc[k].off = 0 /\ svc[k].out = <<>>
       /\ svc[k].state = "exiting" => svc[k].off = Size
       /\ \A j \in 1..Len(svc[k].out) : svc[k].out[j] = "OKAY" => svc[k].off = Size
  /\ owner # 0 =>
       /\ owner < nextId
       /\ ~fouled => \A p \in 1..svc[owner].off : file[p] = sock[owner].n
  /\ host.status = "OKAY" /\ host.id # 0 =>
       \E k \in Ids : k < nextId /\ sock[k].n = host.opened /\ svc[k].off = Size

IInv ==
  /\ TypeOK /\ LinkInv /\ SocketsInv /\ OpensInv
  /\ DevInv /\ HostInv /\ SessionInv /\ ServedInv

-----------------------------------------------------------------------------
(* Sequences and packets                                                   *)

LEMMA Constants ==
          /\ MaxStreams \in Nat /\ MaxStreams > 0 /\ Size \in Nat /\ Size > 0
          /\ Payload \in Nat /\ Payload > 0 /\ Room \in Nat /\ Room > 0
          /\ MaxSessions \in Nat
          /\ Ids \subseteq Nat /\ 0 \notin Ids /\ Transports \subseteq Nat /\ 0 \notin Transports
BY SocketsAssumption DEF Ids, Transports

\* The first packet is taken.
LEMMA Taken ==
  ASSUME NEW S, NEW s \in Seq(S), s # <<>>
  PROVE  /\ Len(s) \in Nat \ {0} /\ Head(s) = s[1] /\ s[1] \in S
         /\ Tail(s) \in Seq(S) /\ Len(Tail(s)) = Len(s) - 1
         /\ \A i \in 1..Len(Tail(s)) : i + 1 \in 1..Len(s) /\ Tail(s)[i] = s[i + 1]
<1>1. Len(s) \in Nat \ {0}
  BY EmptySeq
<1>2. Head(s) = s[1]
  BY <1>1
<1> QED
  BY <1>1, <1>2, HeadTailProperties

\* One is sent.
LEMMA Added ==
  ASSUME NEW S, NEW s \in Seq(S), NEW e \in S
  PROVE  /\ Append(s, e) \in Seq(S) /\ Append(s, e) # <<>>
         /\ Len(s) \in Nat /\ Len(Append(s, e)) = Len(s) + 1
         /\ \A i \in 1..Len(Append(s, e)) :
              Append(s, e)[i] = IF i <= Len(s) THEN s[i] ELSE e
<1>1. Len(s) \in Nat
  BY LenProperties
<1> QED
  BY <1>1, AppendProperties

LEMMA Joined ==
  ASSUME NEW S, NEW s \in Seq(S), NEW u \in Seq(S)
  PROVE  /\ s \o u \in Seq(S) /\ Len(s) \in Nat /\ Len(u) \in Nat
         /\ Len(s \o u) = Len(s) + Len(u)
         /\ \A i \in 1..Len(s \o u) : (s \o u)[i] = IF i <= Len(s) THEN s[i] ELSE u[i - Len(s)]
<1>1. Len(s) \in Nat /\ Len(u) \in Nat
  BY LenProperties
<1> QED
  BY <1>1, ConcatProperties

\* The beginning and the end of what is written in part.
LEMMA Parts ==
  ASSUME NEW S, NEW s \in Seq(S), NEW n \in 0..Len(s)
  PROVE  /\ SubSeq(s, 1, n) \in Seq(S) /\ Len(SubSeq(s, 1, n)) = n
         /\ \A i \in 1..n : SubSeq(s, 1, n)[i] = s[i]
         /\ SubSeq(s, n + 1, Len(s)) \in Seq(S) /\ Len(SubSeq(s, n + 1, Len(s))) = Len(s) - n
<1>1. Len(s) \in Nat
  BY LenProperties
<1>2. \A i \in 1..Len(s) : s[i] \in S
  BY ElementOfSeq
<1>3. n \in Int /\ 1 \in Int /\ n + 1 \in Int /\ Len(s) \in Int
  BY <1>1
<1>4. \A i \in 1..n : s[i] \in S
  BY <1>1, <1>2
<1>5. \A i \in (n + 1)..Len(s) : s[i] \in S
  BY <1>1, <1>2
<1>6. /\ SubSeq(s, 1, n) \in Seq(S)
      /\ Len(SubSeq(s, 1, n)) = IF 1 <= n THEN n - 1 + 1 ELSE 0
      /\ \A i \in 1..n - 1 + 1 : SubSeq(s, 1, n)[i] = s[1 + i - 1]
  BY <1>3, <1>4, SubSeqProperties
<1>7. /\ SubSeq(s, n + 1, Len(s)) \in Seq(S)
      /\ Len(SubSeq(s, n + 1, Len(s))) = IF n + 1 <= Len(s) THEN Len(s) - (n + 1) + 1 ELSE 0
  BY <1>3, <1>5, SubSeqProperties
<1>8. \A i \in 1..n : SubSeq(s, 1, n)[i] = s[i]
  <2> SUFFICES ASSUME NEW i \in 1..n PROVE SubSeq(s, 1, n)[i] = s[i]
    OBVIOUS
  <2>1. i \in 1..n - 1 + 1 /\ 1 + i - 1 = i
    BY <1>1
  <2> QED
    BY <1>6, <2>1
<1> QED
  BY <1>1, <1>6, <1>7, <1>8

\* The fields of a packet.
LEMMA Packets ==
  ASSUME NEW c, NEW a, NEW b, NEW n, NEW d
  PROVE  /\ Packet(c, a, b, n, d).cmd = c /\ Packet(c, a, b, n, d).arg0 = a
         /\ Packet(c, a, b, n, d).arg1 = b /\ Packet(c, a, b, n, d).stream = n
         /\ Packet(c, a, b, n, d).data = d
         /\ c \in {"CNXN", "OKAY", "CLSE", "WRTE"} /\ a \in 0..MaxStreams /\ b \in 0..MaxStreams
            /\ n \in 0..MaxStreams /\ d \in Seq({"OKAY", "FAIL"}) => Packet(c, a, b, n, d) \in ToHost
         /\ c \in {"SYNC", "CNXN", "OPEN", "OKAY", "CLSE", "WRTE"} /\ a \in 0..MaxStreams
            /\ b \in 0..MaxStreams /\ n \in 0..MaxStreams /\ d \in Seq(Units)
            => Packet(c, a, b, n, d) \in FromHost
BY DEF Packet, ToHost, FromHost

-----------------------------------------------------------------------------
(* Sockets and services                                                    *)

Consistent(s) ==
  /\ ("W" \in s.want) = (s.backlog # <<>>)
  /\ s.state = "freed" => s.backlog = <<>>

\* What any step makes of a socket: it is about the same stream, and not open
\* unless it was.
Wanes(s, u) ==
  /\ u \in Socket /\ Consistent(u) /\ u.n = s.n
  /\ u.state = "open" => s.state = "open" /\ u.t = s.t /\ u.rid = s.rid
  /\ s.state # "none" => u.state # "none"

LEMMA Fields ==
  ASSUME NEW s \in Socket
  PROVE  /\ s.state \in {"none", "open", "closing", "freed"} /\ s.t \in 0..(MaxSessions + 1)
         /\ s.rid \in 0..MaxStreams /\ s.n \in 0..MaxStreams /\ s.backlog \in Seq(Units)
         /\ s.want \in SUBSET {"R", "W"} /\ s.pend \in SUBSET {"R", "W"}
BY DEF Socket

LEMMA FdeSets ==
  ASSUME NEW s \in Socket, NEW e \in SUBSET {"R", "W"}
  PROVE  /\ FdeSet(s, e) \in Socket
         /\ FdeSet(s, e).state = s.state /\ FdeSet(s, e).t = s.t /\ FdeSet(s, e).rid = s.rid
         /\ FdeSet(s, e).n = s.n /\ FdeSet(s, e).backlog = s.backlog /\ FdeSet(s, e).want = e
BY DEF FdeSet, Socket

LEMMA NoSocketFields ==
          /\ NoSocket \in Socket /\ Consistent(NoSocket)
          /\ NoSocket.state = "none" /\ NoSocket.t = 0 /\ NoSocket.n = 0 /\ NoSocket.rid = 0
          /\ NoSocket.backlog = <<>> /\ NoSocket.want = {} /\ NoSocket.pend = {}
BY Constants, EmptySeq DEF NoSocket, Socket, Consistent

LEMMA DestroyedFields ==
  ASSUME NEW s \in Socket
  PROVE  Destroyed(s) \in Socket /\ Destroyed(s).state = "freed" /\ Wanes(s, Destroyed(s))
<1>1. s.n \in 0..MaxStreams
  BY Fields
<1>2. /\ Destroyed(s) \in Socket /\ Destroyed(s).state = "freed" /\ Destroyed(s).n = s.n
      /\ Destroyed(s).backlog = NoSocket.backlog /\ Destroyed(s).want = NoSocket.want
  BY <1>1, NoSocketFields DEF Destroyed, Socket
<1> QED
  BY <1>2, NoSocketFields DEF Wanes, Consistent

LEMMA ClosedFields ==
  ASSUME NEW s \in Socket, Consistent(s)
  PROVE  /\ Closed(s) \in Socket /\ Closed(s).state \in {"closing", "freed"}
         /\ Wanes(s, Closed(s))
         /\ Closed(s).state = "freed" => s.state = "closing" \/ s.backlog = <<>>
<1>1. CASE s.state = "closing" \/ s.backlog = <<>>
  BY <1>1, DestroyedFields DEF Closed
<1>2. CASE ~(s.state = "closing" \/ s.backlog = <<>>)
  <2> DEFINE u == FdeSet(s, s.want \ {"R"})
  <2>1. Closed(s) = [u EXCEPT !.state = "closing"]
    BY <1>2 DEF Closed
  <2>2. s.want \ {"R"} \in SUBSET {"R", "W"}
    BY Fields
  <2>3. /\ u \in Socket /\ u.n = s.n /\ u.backlog = s.backlog /\ u.want = s.want \ {"R"}
    BY <2>2, FdeSets
  <2> HIDE DEF u
  <2>4. /\ Closed(s) \in Socket /\ Closed(s).state = "closing" /\ Closed(s).n = s.n
        /\ Closed(s).backlog = s.backlog /\ Closed(s).want = s.want \ {"R"}
    BY <2>1, <2>3 DEF Socket
  <2>5. "W" \in s.want \ {"R"} <=> "W" \in s.want
    OBVIOUS
  <2> QED
    BY <2>4, <2>5 DEF Wanes, Consistent
<1> QED
  BY <1>1, <1>2

LEMMA ServiceFields ==
  ASSUME TypeOK, NEW k \in Ids
  PROVE  /\ svc[k] \in Service
         /\ svc[k].state \in {"none", "started", "reading", "told", "exiting", "ended"}
         /\ svc[k].in \in Seq(Units) /\ svc[k].out \in Seq({"OKAY", "FAIL"}) /\ svc[k].off \in 0..Size
BY DEF TypeOK, Service

\* What is written goes to the thread, as far as there is room.
LEMMA Writing ==
  ASSUME TypeOK, NEW k \in Ids, Len(svc[k].in) <= Room, NEW units \in Seq(Units)
  PROVE  /\ Written(k, units) \in [Ids -> Service]
         /\ \A j \in Ids : /\ Written(k, units)[j].state = svc[j].state
                           /\ Written(k, units)[j].off = svc[j].off
                           /\ Written(k, units)[j].out = svc[j].out
                           /\ j # k => Written(k, units)[j] = svc[j]
         /\ Len(Written(k, units)[k].in) <= Room
         /\ Left(k, units) \in Seq(Units)
         /\ Left(k, units) = <<>> => Written(k, units)[k].in = svc[k].in \o units
<1> DEFINE n == Takes(k, units)
<1>1. Len(units) \in Nat /\ Len(svc[k].in) \in Nat /\ svc[k].in \in Seq(Units)
  BY LenProperties, ServiceFields
<1>2. n \in 0..Len(units) /\ n <= Room - Len(svc[k].in)
  <2> DEFINE room == Room - Len(svc[k].in)
  <2>1. room \in Nat
    BY <1>1, Constants
  <2>2. n = IF Len(units) <= room THEN Len(units) ELSE room
    BY DEF Takes
  <2> HIDE DEF n, room
  <2>3. n \in 0..Len(units) /\ n <= room
    BY <1>1, <2>1, <2>2
  <2> QED
    BY <2>3 DEF room
<1> HIDE DEF n
<1>3. /\ SubSeq(units, 1, n) \in Seq(Units) /\ Len(SubSeq(units, 1, n)) = n
      /\ SubSeq(units, n + 1, Len(units)) \in Seq(Units)
      /\ Len(SubSeq(units, n + 1, Len(units))) = Len(units) - n
  BY <1>2, Parts
<1>4. Left(k, units) \in Seq(Units) /\ Len(Left(k, units)) = Len(units) - n
  BY <1>3 DEF Left, n
<1> DEFINE now == svc[k].in \o SubSeq(units, 1, n)
<1>5. now \in Seq(Units) /\ Len(now) = Len(svc[k].in) + n
  BY <1>1, <1>3, Joined
<1>6. Written(k, units) = [svc EXCEPT ![k].in = now]
  BY DEF Written, n
<1> HIDE DEF now
<1>7. svc \in [Ids -> Service]
  BY DEF TypeOK
<1>8. /\ Written(k, units) \in [Ids -> Service] /\ Written(k, units)[k].in = now
      /\ \A j \in Ids : /\ Written(k, units)[j].state = svc[j].state
                        /\ Written(k, units)[j].off = svc[j].off
                        /\ Written(k, units)[j].out = svc[j].out
                        /\ j # k => Written(k, units)[j] = svc[j]
  <2>1. \A j \in Ids : svc[j] \in Service
    BY <1>7
  <2>2. Written(k, units)[k] = [svc[k] EXCEPT !.in = now]
    BY <1>6, <1>7
  <2>3. /\ Written(k, units)[k] \in Service /\ Written(k, units)[k].in = now
        /\ Written(k, units)[k].state = svc[k].state /\ Written(k, units)[k].off = svc[k].off
        /\ Written(k, units)[k].out = svc[k].out
    BY <1>5, <2>1, <2>2 DEF Service
  <2>4. \A j \in Ids : j # k => Written(k, units)[j] = svc[j]
    BY <1>6, <1>7
  <2>5. Written(k, units) \in [Ids -> Service]
    <3>1. Written(k, units) = [j \in Ids |-> Written(k, units)[j]]
      BY <1>6, <1>7
    <3> QED
      BY <2>1, <2>3, <2>4, <3>1
  <2> QED
    BY <2>3, <2>4, <2>5
<1>9. ASSUME Left(k, units) = <<>> PROVE Written(k, units)[k].in = svc[k].in \o units
  <2>1. n = Len(units)
    BY <1>1, <1>2, <1>4, <1>9, EmptySeq
  <2>2. SubSeq(units, 1, n) = units
    BY <2>1, SubSeqFull
  <2> QED
    BY <1>8, <2>2 DEF now
<1> QED
  BY <1>1, <1>2, <1>4, <1>5, <1>8, <1>9, Constants

-----------------------------------------------------------------------------
(* Steps of the device that open nothing                                   *)

\* Of each transport the first packet is gone, or none.
Shifted(d) ==
  /\ toDev' \in [Transports -> Seq(FromHost)]
  /\ ready' \subseteq Transports /\ \A t \in ready' : toDev'[t] # <<>>
  /\ \A t \in Transports :
       /\ Len(toDev'[t]) = Len(toDev[t]) - d[t]
       /\ \A i \in 1..Len(toDev'[t]) :
            i + d[t] \in 1..Len(toDev[t]) /\ toDev'[t][i] = toDev[t][i + d[t]]

\* What may be said to the server: not before its CNXN has come, and what is
\* true.
Good(p) ==
  /\ p.cmd # "CNXN"
  /\ host.up => p.stream > Base /\ p.arg1 = p.stream - Base
  /\ p.cmd = "WRTE" => p.data # <<>> /\ Truthful(p)

Speaks(t) == toDev[t] # <<>> \/ \E k \in Ids : Cabled(k)

\* The device's CNXN leaves nothing that could be said to the host before it
\* is read.
Greets(p) ==
  /\ p.cmd = "CNXN" /\ host.asked /\ ~host.up
  /\ toDev'[cable.t] = <<>> /\ \A k \in Ids : ~(sock'[k].state = "open" /\ sock'[k].t = cable.t)

SentWell ==
  /\ toHost' \in [Transports -> Seq(ToHost)]
  /\ \A t \in Transports :
       /\ toHost'[t] # toHost[t] => cable.in /\ t = cable.t /\ Speaks(t)
       /\ Len(toHost[t]) <= Len(toHost'[t])
       /\ \A i \in 1..Len(toHost'[t]) :
            IF i <= Len(toHost[t]) THEN toHost'[t][i] = toHost[t][i]
            ELSE Good(toHost'[t][i]) \/ (Greets(toHost'[t][i]) /\ i = Len(toHost'[t]))

SocketsWane ==
  /\ sock' \in [Ids -> Socket]
  /\ \A k \in Ids : /\ Wanes(sock[k], sock'[k])
                    /\ k >= nextId => sock'[k] = sock[k]
                    /\ sock'[k].state = "open" => online'[sock'[k].t]

ServicesKeep ==
  /\ svc' \in [Ids -> Service]
  /\ \A k \in Ids : /\ svc'[k].state = svc[k].state /\ svc'[k].off = svc[k].off
                    /\ svc'[k].out \in {svc[k].out, <<>>} /\ Len(svc'[k].in) <= Room
                    /\ k >= nextId => svc'[k] = svc[k]

LEMMA Resting ==
  ASSUME IInv, UNCHANGED <<toDev, ready>>
  PROVE  [t \in Transports |-> 0] \in [Transports -> {0, 1}] /\ Shifted([t \in Transports |-> 0])
<1>1. toDev \in [Transports -> Seq(FromHost)] /\ ready \subseteq Transports
  BY DEF IInv, TypeOK
<1>2. \A t \in ready : toDev[t] # <<>>
  BY DEF IInv, LinkInv
<1>3. \A t \in Transports : Len(toDev[t]) \in Nat
  BY <1>1, LenProperties
<1> DEFINE d == [t \in Transports |-> 0]
<1>4. d \in [Transports -> {0, 1}] /\ \A t \in Transports : d[t] = 0
  OBVIOUS
<1> HIDE DEF d
<1>5. \A t \in Transports : /\ Len(toDev'[t]) = Len(toDev[t]) - d[t]
                            /\ \A i \in 1..Len(toDev'[t]) :
                                 i + d[t] \in 1..Len(toDev[t]) /\ toDev'[t][i] = toDev[t][i + d[t]]
  <2> SUFFICES ASSUME NEW t \in Transports
               PROVE  /\ Len(toDev[t]) = Len(toDev[t]) - 0
                      /\ \A i \in 1..Len(toDev[t]) :
                           i + 0 \in 1..Len(toDev[t]) /\ toDev[t][i] = toDev[t][i + 0]
    BY <1>4
  <2> QED
    BY <1>3
<1>6. Shifted(d)
  BY <1>1, <1>2, <1>5 DEF Shifted
<1> QED
  BY <1>4, <1>6 DEF d

LEMMA Popping ==
  ASSUME IInv, NEW t \in ready, ready' = ready \ {t}, toDev' = [toDev EXCEPT ![t] = Tail(@)]
  PROVE  \E d \in [Transports -> {0, 1}] :
           Shifted(d) /\ \A u \in Transports : d[u] = IF u = t THEN 1 ELSE 0
<1>1. toDev \in [Transports -> Seq(FromHost)] /\ ready \subseteq Transports
  BY DEF IInv, TypeOK
<1>2. \A u \in ready : toDev[u] # <<>>
  BY DEF IInv, LinkInv
<1>3. \A u \in Transports : Len(toDev[u]) \in Nat
  BY <1>1, LenProperties
<1>4. /\ Tail(toDev[t]) \in Seq(FromHost) /\ Len(Tail(toDev[t])) = Len(toDev[t]) - 1
      /\ \A i \in 1..Len(Tail(toDev[t])) :
           i + 1 \in 1..Len(toDev[t]) /\ Tail(toDev[t])[i] = toDev[t][i + 1]
  BY <1>1, <1>2, Taken
<1> DEFINE d == [u \in Transports |-> IF u = t THEN 1 ELSE 0]
<1>5. d \in [Transports -> {0, 1}] /\ \A u \in Transports : d[u] = IF u = t THEN 1 ELSE 0
  OBVIOUS
<1> HIDE DEF d
<1>6. toDev'[t] = Tail(toDev[t]) /\ \A u \in Transports : u # t => toDev'[u] = toDev[u]
  BY <1>1
<1>7. toDev' \in [Transports -> Seq(FromHost)]
  BY <1>1, <1>4
<1>8. \A u \in Transports : /\ Len(toDev'[u]) = Len(toDev[u]) - d[u]
                            /\ \A i \in 1..Len(toDev'[u]) :
                                 i + d[u] \in 1..Len(toDev[u]) /\ toDev'[u][i] = toDev[u][i + d[u]]
  <2> SUFFICES ASSUME NEW u \in Transports
               PROVE  /\ Len(toDev'[u]) = Len(toDev[u]) - d[u]
                      /\ \A i \in 1..Len(toDev'[u]) :
                           i + d[u] \in 1..Len(toDev[u]) /\ toDev'[u][i] = toDev[u][i + d[u]]
    OBVIOUS
  <2>1. CASE u = t
    BY <1>4, <1>5, <1>6, <2>1, ZenonT(30)
  <2>2. CASE u # t
    BY <1>3, <1>5, <1>6, <2>2
  <2> QED
    BY <2>1, <2>2
<1>9. ready' \subseteq Transports /\ \A u \in ready' : toDev'[u] # <<>>
  BY <1>1, <1>2, <1>6
<1>10. Shifted(d)
  BY <1>7, <1>8, <1>9 DEF Shifted
<1> QED
  BY <1>5, <1>10

\* What goes out and what comes in.
LEMMA PacketsStep ==
  ASSUME IInv, UNCHANGED <<cable, host>>, NEW d \in [Transports -> {0, 1}], Shifted(d), SentWell,
         \A k \in Ids : sock'[k].state = "open" /\ sock'[k].t = cable.t => Speaks(cable.t),
         \A p : Truthful(p) => StillTruthful(p)
  PROVE  LinkInv' /\ DevInv' /\ HostInv'
<1>1. \A t \in Transports : d[t] \in {0, 1}
  OBVIOUS
<1>2. \A t \in Transports : Len(toDev[t]) \in Nat /\ Len(toHost[t]) \in Nat
  BY LenProperties DEF IInv, TypeOK
<1>3. cable.t \in Transports
  BY DEF IInv, TypeOK
<1>4. \A k \in Ids : Cabled(k)' => Speaks(cable.t)
  BY DEF Cabled
<1>5. \A p : Truthful(p) => StillTruthful(p)
  OBVIOUS
<1>6. LinkInv'
  <2>1. ASSUME NEW t \in Transports, t > cable.t PROVE toDev'[t] = <<>> /\ toHost'[t] = <<>>
    <3>1. toDev[t] = <<>> /\ toHost[t] = <<>>
      BY <2>1 DEF IInv, LinkInv
    <3>2. t # cable.t
      BY <1>3, <2>1, SocketsAssumption DEF Transports
    <3>3. toHost'[t] = toHost[t]
      BY <3>2 DEF SentWell
    <3>4. Len(toDev'[t]) = 0 - d[t] /\ Len(toDev'[t]) \in Nat
      BY <3>1, EmptySeq, LenProperties DEF Shifted
    <3>5. Len(toDev'[t]) = 0
      BY <1>1, <3>4
    <3> QED
      BY <3>1, <3>3, <3>5, EmptySeq DEF Shifted
  <2> QED
    BY <2>1 DEF IInv, LinkInv, Shifted
<1>7. DevInv'
  <2> SUFFICES ASSUME cable.in, NEW i \in 1..Len(toDev'[cable.t])
               PROVE  /\ toDev'[cable.t][i].cmd = "CNXN" =>
                           host.asked /\ ~host.up /\ i = Len(toDev'[cable.t])
                      /\ host.up => /\ toDev'[cable.t][i].stream > Base
                                    /\ toDev'[cable.t][i].arg0 = toDev'[cable.t][i].stream - Base
    BY DEF DevInv, Base
  <2>1. /\ i + d[cable.t] \in 1..Len(toDev[cable.t])
        /\ toDev'[cable.t][i] = toDev[cable.t][i + d[cable.t]]
        /\ Len(toDev'[cable.t]) = Len(toDev[cable.t]) - d[cable.t]
    BY <1>3 DEF Shifted
  <2>2. i \in Int /\ d[cable.t] \in Int
    BY <1>1, <1>3
  <2>3. i + d[cable.t] = Len(toDev[cable.t]) => i = Len(toDev'[cable.t])
    BY <1>2, <1>3, <2>1, <2>2
  <2> QED
    BY <2>1, <2>3 DEF IInv, DevInv
<1>8. HostInv'
  <2> SUFFICES ASSUME cable.in, NEW i \in 1..Len(toHost'[cable.t])
               PROVE  /\ toHost'[cable.t][i].cmd = "CNXN" =>
                           /\ host.asked /\ ~host.up /\ i = Len(toHost'[cable.t])
                           /\ toDev'[cable.t] = <<>> /\ \A k \in Ids : ~Cabled(k)'
                      /\ host.up => /\ toHost'[cable.t][i].stream > Base
                                    /\ toHost'[cable.t][i].arg1 = toHost'[cable.t][i].stream - Base
                      /\ toHost'[cable.t][i].cmd = "WRTE" =>
                           toHost'[cable.t][i].data # <<>> /\ StillTruthful(toHost'[cable.t][i])
    BY DEF HostInv, Base, Truthful, StillTruthful
  <2>1. CASE i <= Len(toHost[cable.t])
    <3>1. toHost'[cable.t][i] = toHost[cable.t][i] /\ i \in 1..Len(toHost[cable.t])
      <4>1. IF i <= Len(toHost[cable.t]) THEN toHost'[cable.t][i] = toHost[cable.t][i]
            ELSE \/ Good(toHost'[cable.t][i])
                 \/ Greets(toHost'[cable.t][i]) /\ i = Len(toHost'[cable.t])
        BY <1>3 DEF SentWell
      <4>2. Len(toHost[cable.t]) \in Nat /\ i \in Nat \ {0}
        BY <1>2, <1>3
      <4> QED
        BY <2>1, <4>1, <4>2
    <3>2. ASSUME toHost[cable.t][i].cmd = "CNXN"
          PROVE  i = Len(toHost'[cable.t]) /\ toDev'[cable.t] = <<>> /\ \A k \in Ids : ~Cabled(k)'
      <4>1. i = Len(toHost[cable.t]) /\ toDev[cable.t] = <<>> /\ \A k \in Ids : ~Cabled(k)
        BY <3>1, <3>2 DEF IInv, HostInv
      <4>2. toHost'[cable.t] = toHost[cable.t]
        BY <1>3, <4>1 DEF SentWell, Speaks
      <4>3. Len(toDev'[cable.t]) = 0 - d[cable.t] /\ Len(toDev'[cable.t]) \in Nat
        BY <1>3, <4>1, EmptySeq, LenProperties DEF Shifted
      <4>4. Len(toDev'[cable.t]) = 0
        BY <1>1, <1>3, <4>3
      <4>5. toDev'[cable.t] = <<>>
        BY <1>3, <4>4, EmptySeq DEF Shifted
      <4> QED
        BY <1>4, <4>1, <4>2, <4>5 DEF Speaks
    <3> QED
      BY <1>5, <3>1, <3>2 DEF IInv, HostInv
  <2>2. CASE ~(i <= Len(toHost[cable.t]))
    <3>1. \/ Good(toHost'[cable.t][i])
          \/ Greets(toHost'[cable.t][i]) /\ i = Len(toHost'[cable.t])
      BY <1>3, <2>2 DEF SentWell
    <3>2. CASE Good(toHost'[cable.t][i])
      BY <1>5, <3>2 DEF Good
    <3>3. CASE Greets(toHost'[cable.t][i]) /\ i = Len(toHost'[cable.t])
      BY <3>3 DEF Greets, Cabled
    <3> QED
      BY <3>1, <3>2, <3>3
  <2> QED
    BY <2>1, <2>2
<1> QED
  BY <1>6, <1>7, <1>8

\* No step of the device that opens nothing disturbs the invariant.
LEMMA DeviceStep ==
  ASSUME IInv, UNCHANGED <<cable, host, nextId, file, owner, fouled, alive>>,
         online' \in [Transports -> BOOLEAN],
         NEW d \in [Transports -> {0, 1}], Shifted(d), SocketsWane, ServicesKeep, SentWell
  PROVE  IInv'
<1>1. /\ \A k \in Ids : /\ sock'[k] \in Socket /\ Consistent(sock'[k]) /\ sock'[k].n = sock[k].n
                        /\ sock[k].state # "none" => sock'[k].state # "none"
                        /\ sock'[k].state = "open" => /\ sock[k].state = "open"
                                                      /\ sock'[k].t = sock[k].t
                                                      /\ sock'[k].rid = sock[k].rid
  BY DEF SocketsWane, Wanes
<1>2. \A t \in Transports : d[t] \in {0, 1}
  OBVIOUS
<1>3. \A t \in Transports : Len(toDev[t]) \in Nat /\ Len(toHost[t]) \in Nat
  BY LenProperties DEF IInv, TypeOK
<1>4. cable.t \in Transports
  BY DEF IInv, TypeOK
<1>5. \A k \in Ids : Cabled(k)' => Cabled(k)
  BY <1>1 DEF Cabled
<1>6. TypeOK'
  BY <1>1 DEF IInv, TypeOK, SocketsWane, ServicesKeep, SentWell, Shifted, Consistent
<1>7. SocketsInv'
  BY <1>1 DEF IInv, SocketsInv, SocketsWane, ServicesKeep, Consistent, TypeOK
<1>8. OpensInv'
  <2> SUFFICES ASSUME NEW t \in Transports, NEW i \in 1..Len(toDev'[t]), toDev'[t][i].cmd = "OPEN"
               PROVE  /\ toDev'[t][i].stream \in 1..host.opened
                      /\ \A k \in Ids : k < nextId => sock'[k].n # toDev'[t][i].stream
                      /\ \A u \in Transports : \A j \in 1..Len(toDev'[u]) :
                           toDev'[u][j].cmd = "OPEN" /\ toDev'[u][j].stream = toDev'[t][i].stream
                           => u = t /\ j = i
    BY DEF OpensInv
  <2>1. i + d[t] \in 1..Len(toDev[t]) /\ toDev'[t][i] = toDev[t][i + d[t]]
    BY DEF Shifted
  <2>2. /\ toDev'[t][i].stream \in 1..host.opened
        /\ \A k \in Ids : k < nextId => sock[k].n # toDev'[t][i].stream
    BY <2>1 DEF IInv, OpensInv
  <2>3. ASSUME NEW u \in Transports, NEW j \in 1..Len(toDev'[u]),
               toDev'[u][j].cmd = "OPEN", toDev'[u][j].stream = toDev'[t][i].stream
        PROVE  u = t /\ j = i
    <3>1. j + d[u] \in 1..Len(toDev[u]) /\ toDev'[u][j] = toDev[u][j + d[u]]
      BY DEF Shifted
    <3>2. u = t /\ j + d[u] = i + d[t]
      BY <2>1, <2>3, <3>1 DEF IInv, OpensInv
    <3>3. i \in Int /\ j \in Int /\ d[t] \in Int
      BY <1>2, <1>3
    <3> QED
      BY <3>2, <3>3
  <2> QED
    BY <1>1, <2>2, <2>3
<1>9. \A p : Truthful(p) => StillTruthful(p)
  BY <1>1 DEF Truthful, StillTruthful, ServicesKeep
<1>10. LinkInv' /\ DevInv' /\ HostInv'
  BY <1>5, <1>9, PacketsStep DEF Speaks, Cabled
<1>11. SessionInv'
  BY <1>1, <1>5 DEF IInv, SessionInv, Base, Cabled
<1>12. ServedInv'
  <2>1. \A k \in Ids :
          /\ svc'[k].state \in {"none", "started"} => svc'[k].off = 0 /\ svc'[k].out = <<>>
          /\ svc'[k].state = "exiting" => svc'[k].off = Size
          /\ \A j \in 1..Len(svc'[k].out) : svc'[k].out[j] = "OKAY" => svc'[k].off = Size
    <3> SUFFICES ASSUME NEW k \in Ids
                 PROVE  /\ svc'[k].state \in {"none", "started"} => svc'[k].off = 0 /\ svc'[k].out = <<>>
                        /\ svc'[k].state = "exiting" => svc'[k].off = Size
                        /\ \A j \in 1..Len(svc'[k].out) : svc'[k].out[j] = "OKAY" => svc'[k].off = Size
      OBVIOUS
    <3>1. \A j \in 1..Len(<<>>) : FALSE
      BY EmptySeq
    <3> QED
      BY <3>1 DEF IInv, ServedInv, ServicesKeep
  <2>2. owner # 0 => owner \in Ids
    BY DEF IInv, TypeOK, Ids
  <2> QED
    BY <1>1, <2>1, <2>2 DEF IInv, ServedInv, ServicesKeep
<1> QED
  BY <1>6, <1>7, <1>8, <1>10, <1>11, <1>12 DEF IInv

-----------------------------------------------------------------------------
(* What the device says                                                    *)

AllGood(ps) == ps \in Seq(ToHost) /\ \A i \in 1..Len(ps) : Good(ps[i])

LEMMA NothingSaid == AllGood(<<>>)
<1>1. \A i \in 1..Len(<<>>) : FALSE
  BY EmptySeq
<1> QED
  BY <1>1, EmptySeq DEF AllGood

LEMMA OneSaid ==
  ASSUME NEW p \in ToHost, Good(p)
  PROVE  AllGood(<<p>>)
<1>1. <<p>> \in Seq(ToHost) /\ Len(<<p>>) = 1 /\ <<p>>[1] = p
  OBVIOUS
<1> QED
  BY <1>1 DEF AllGood

LEMMA BothSaid ==
  ASSUME NEW ps, NEW qs, AllGood(ps), AllGood(qs)
  PROVE  AllGood(ps \o qs)
<1>1. ps \in Seq(ToHost) /\ qs \in Seq(ToHost)
  BY DEF AllGood
<1>2. /\ ps \o qs \in Seq(ToHost) /\ Len(ps) \in Nat /\ Len(qs) \in Nat
      /\ Len(ps \o qs) = Len(ps) + Len(qs)
      /\ \A i \in 1..Len(ps \o qs) :
           (ps \o qs)[i] = IF i <= Len(ps) THEN ps[i] ELSE qs[i - Len(ps)]
  BY <1>1, Joined
<1>3. ASSUME NEW i \in 1..Len(ps \o qs) PROVE Good((ps \o qs)[i])
  <2>1. CASE i <= Len(ps)
    <3>1. (ps \o qs)[i] = ps[i] /\ i \in 1..Len(ps)
      BY <1>2, <2>1
    <3> QED
      BY <3>1 DEF AllGood
  <2>2. CASE ~(i <= Len(ps))
    <3>1. (ps \o qs)[i] = qs[i - Len(ps)] /\ i - Len(ps) \in 1..Len(qs)
      BY <1>2, <2>2
    <3> QED
      BY <3>1 DEF AllGood
  <2> QED
    BY <2>1, <2>2
<1> QED
  BY <1>2, <1>3 DEF AllGood

LEMMA Sending ==
  ASSUME IInv, NEW t, NEW ps, Send(t, ps),
         cable.in /\ t = cable.t => AllGood(ps) /\ (ps # <<>> => Speaks(t))
  PROVE  SentWell
<1>1. toHost \in [Transports -> Seq(ToHost)] /\ cable.t \in Transports
  BY DEF IInv, TypeOK
<1>2. \A u \in Transports : Len(toHost[u]) \in Nat
  BY <1>1, LenProperties
<1>3. CASE ~(cable.in /\ t = cable.t)
  <2>1. toHost' = toHost
    BY <1>3 DEF Send
  <2> QED
    BY <1>1, <1>2, <2>1 DEF SentWell
<1>4. CASE cable.in /\ t = cable.t
  <2>1. ps \in Seq(ToHost) /\ \A i \in 1..Len(ps) : Good(ps[i])
    BY <1>4 DEF AllGood
  <2>2. toHost' = [toHost EXCEPT ![t] = @ \o ps]
    BY <1>4 DEF Send
  <2>3. toHost'[t] = toHost[t] \o ps /\ \A u \in Transports : u # t => toHost'[u] = toHost[u]
    BY <1>1, <1>4, <2>2
  <2>4. /\ toHost'[t] \in Seq(ToHost) /\ Len(toHost[t]) \in Nat /\ Len(ps) \in Nat
        /\ Len(toHost'[t]) = Len(toHost[t]) + Len(ps)
        /\ \A i \in 1..Len(toHost'[t]) :
             toHost'[t][i] = IF i <= Len(toHost[t]) THEN toHost[t][i] ELSE ps[i - Len(toHost[t])]
    BY <1>1, <1>4, <2>1, <2>3, Joined
  <2>5. toHost' \in [Transports -> Seq(ToHost)]
    BY <1>1, <1>4, <2>2, <2>3, <2>4
  <2>6. toHost'[t] # toHost[t] => Speaks(t)
    <3>1. ps = <<>> => toHost'[t] = toHost[t]
      BY <1>1, <1>4, <2>3, ConcatEmptySeq
    <3> QED
      BY <1>4, <3>1
  <2>7. ASSUME NEW i \in 1..Len(toHost'[t])
        PROVE  IF i <= Len(toHost[t]) THEN toHost'[t][i] = toHost[t][i] ELSE Good(toHost'[t][i])
    <3>1. CASE i <= Len(toHost[t])
      BY <2>4, <3>1
    <3>2. CASE ~(i <= Len(toHost[t]))
      <4>1. toHost'[t][i] = ps[i - Len(toHost[t])] /\ i - Len(toHost[t]) \in 1..Len(ps)
        BY <2>4, <3>2
      <4> QED
        BY <2>1, <3>2, <4>1
    <3> QED
      BY <3>1, <3>2
  <2>8. ASSUME NEW u \in Transports
        PROVE  /\ toHost'[u] # toHost[u] => cable.in /\ u = cable.t /\ Speaks(u)
               /\ Len(toHost[u]) <= Len(toHost'[u])
               /\ \A i \in 1..Len(toHost'[u]) :
                    IF i <= Len(toHost[u]) THEN toHost'[u][i] = toHost[u][i] ELSE Good(toHost'[u][i])
    <3>1. CASE u = t
      BY <1>4, <2>4, <2>6, <2>7, <3>1
    <3>2. CASE u # t
      BY <1>2, <2>3, <3>2
    <3> QED
      BY <3>1, <3>2
  <2> QED
    BY <2>5, <2>8 DEF SentWell
<1> QED
  BY <1>3, <1>4

LEMMA Silent ==
  ASSUME IInv, UNCHANGED toHost
  PROVE  SentWell
<1>1. toHost \in [Transports -> Seq(ToHost)]
  BY DEF IInv, TypeOK
<1>2. \A u \in Transports : Len(toHost[u]) \in Nat
  BY <1>1, LenProperties
<1> QED
  BY <1>1, <1>2 DEF SentWell

\* An open socket is one that has been given out, and consistent.
LEMMA Given ==
  ASSUME IInv, NEW k \in Ids
  PROVE  /\ sock[k] \in Socket /\ Consistent(sock[k]) /\ k \in Nat /\ nextId \in Nat
         /\ sock[k].state # "none" \/ sock[k].pend # {} \/ svc[k].state # "none" => k < nextId
         /\ Len(svc[k].in) <= Room
<1>1. sock[k] \in Socket /\ Consistent(sock[k])
  BY DEF IInv, TypeOK, SocketsInv, Consistent
<1>2. k \in Nat /\ nextId \in Nat
  BY Constants DEF IInv, TypeOK, Ids
<1>3. k >= nextId => sock[k] = NoSocket /\ svc[k] = NoService
  BY DEF IInv, SocketsInv
<1>4. NoService.state = "none"
  BY DEF NoService
<1>5. Len(svc[k].in) <= Room
  BY DEF IInv, SocketsInv
<1> QED
  BY <1>1, <1>2, <1>3, <1>4, <1>5, NoSocketFields

\* What an open socket says to its peer.
LEMMA PeerTold ==
  ASSUME IInv, NEW k \in Ids, Cabled(k), NEW a \in 0..MaxStreams,
         NEW c \in {"OKAY", "CLSE", "WRTE"}, NEW d \in Seq({"OKAY", "FAIL"}),
         c = "WRTE" => d # <<>> /\ (d[1] = "OKAY" => svc[k].off = Size)
  PROVE  AllGood(ToPeer(k, c, a, d))
<1> DEFINE p == Packet(c, a, sock[k].rid, sock[k].n, d)
<1>1. sock[k].rid \in 0..MaxStreams /\ sock[k].n \in 0..MaxStreams
  BY Given, Fields
<1>2. /\ p \in ToHost /\ p.cmd = c /\ p.arg1 = sock[k].rid /\ p.stream = sock[k].n /\ p.data = d
  BY <1>1, Packets
<1>3. k < nextId
  BY Given DEF Cabled
<1> HIDE DEF p
<1>4. Good(p)
  <2>1. host.up => p.stream > Base /\ p.arg1 = p.stream - Base
    BY <1>2 DEF IInv, SessionInv
  <2>2. p.cmd = "WRTE" => p.data # <<>> /\ Truthful(p)
    BY <1>2, <1>3 DEF Truthful
  <2> QED
    BY <1>2, <2>1, <2>2 DEF Good
<1>5. AllGood(<<p>>)
  BY <1>2, <1>4, OneSaid
<1> QED
  BY <1>5 DEF ToPeer, p

\* remote_socket_close, and the local socket's end.
LEMMA Farewells ==
  ASSUME IInv, NEW k \in Ids, sock[k].state = "open", Send(sock[k].t, Farewell(k))
  PROVE  SentWell
<1>1. <<>> \in Seq({"OKAY", "FAIL"}) /\ 0 \in 0..MaxStreams
  BY Constants, EmptySeq
<1>2. cable.in /\ sock[k].t = cable.t => Cabled(k)
  BY DEF Cabled
<1>3. cable.in /\ sock[k].t = cable.t => AllGood(Farewell(k)) /\ Speaks(sock[k].t)
  BY <1>1, <1>2, PeerTold DEF Farewell, Speaks
<1> QED
  BY <1>3, Sending

-----------------------------------------------------------------------------
(* local_socket_event_func                                                 *)

LEMMA Same ==
  ASSUME NEW s \in Socket, Consistent(s)
  PROVE  Wanes(s, s)
BY DEF Wanes

LEMMA Unpended ==
  ASSUME NEW s \in Socket, NEW e \in SUBSET {"R", "W"}
  PROVE  /\ [s EXCEPT !.pend = e] \in Socket
         /\ [s EXCEPT !.pend = e].state = s.state /\ [s EXCEPT !.pend = e].t = s.t
         /\ [s EXCEPT !.pend = e].rid = s.rid /\ [s EXCEPT !.pend = e].n = s.n
         /\ [s EXCEPT !.pend = e].backlog = s.backlog /\ [s EXCEPT !.pend = e].want = s.want
BY DEF Socket

LEMMA Rebacklogged ==
  ASSUME NEW s \in Socket, NEW b \in Seq(Units)
  PROVE  /\ [s EXCEPT !.backlog = b] \in Socket
         /\ [s EXCEPT !.backlog = b].state = s.state /\ [s EXCEPT !.backlog = b].t = s.t
         /\ [s EXCEPT !.backlog = b].rid = s.rid /\ [s EXCEPT !.backlog = b].n = s.n
         /\ [s EXCEPT !.backlog = b].backlog = b /\ [s EXCEPT !.backlog = b].want = s.want
BY DEF Socket

LEMMA OneWanes ==
  ASSUME IInv, NEW k \in Ids, k < nextId, UNCHANGED online,
         NEW u, Wanes(sock[k], u), sock' = [sock EXCEPT ![k] = u]
  PROVE  SocketsWane
<1>1. \A j \in Ids : sock[j] \in Socket /\ Consistent(sock[j])
  BY Given
<1>2. \A j \in Ids : sock[j].state = "open" => online[sock[j].t]
  BY DEF IInv, SocketsInv
<1>3. sock \in [Ids -> Socket]
  BY DEF IInv, TypeOK
<1>4. u \in Socket
  BY DEF Wanes
<1>5. sock' \in [Ids -> Socket] /\ sock'[k] = u /\ \A j \in Ids : j # k => sock'[j] = sock[j]
  BY <1>3, <1>4
<1>6. ~(k >= nextId)
  BY Given
<1>7. ASSUME NEW j \in Ids
      PROVE  /\ Wanes(sock[j], sock'[j]) /\ (j >= nextId => sock'[j] = sock[j])
             /\ sock'[j].state = "open" => online'[sock'[j].t]
  <2>1. CASE j = k
    BY <1>2, <1>5, <1>6, <2>1 DEF Wanes
  <2>2. CASE j # k
    <3>1. Wanes(sock[j], sock[j])
      BY <1>1, Same
    <3> QED
      BY <1>2, <1>5, <2>2, <3>1
  <2> QED
    BY <2>1, <2>2
<1> QED
  BY <1>5, <1>7 DEF SocketsWane

LEMMA NoneWanes ==
  ASSUME IInv, UNCHANGED <<sock, online>>
  PROVE  SocketsWane
<1>1. \A j \in Ids : Wanes(sock[j], sock[j])
  BY Given, Same
<1> QED
  BY <1>1 DEF SocketsWane, IInv, TypeOK, SocketsInv

LEMMA NoneFed ==
  ASSUME IInv, UNCHANGED svc
  PROVE  ServicesKeep
BY DEF ServicesKeep, IInv, TypeOK, SocketsInv

LEMMA Fed ==
  ASSUME IInv, NEW k \in Ids, k < nextId, NEW units \in Seq(Units), svc' = Written(k, units)
  PROVE  ServicesKeep
<1>1. Len(svc[k].in) <= Room /\ TypeOK /\ \A j \in Ids : Len(svc[j].in) <= Room
  BY DEF IInv, SocketsInv
<1>2. /\ svc' \in [Ids -> Service]
      /\ \A j \in Ids : /\ svc'[j].state = svc[j].state /\ svc'[j].off = svc[j].off
                        /\ svc'[j].out = svc[j].out /\ (j # k => svc'[j] = svc[j])
      /\ Len(svc'[k].in) <= Room
  BY <1>1, Writing
<1>3. ~(k >= nextId)
  BY Given
<1> QED
  BY <1>1, <1>2, <1>3 DEF ServicesKeep

\* A socket event changes one socket and its service, and tells the host.
LEMMA EventStep ==
  ASSUME IInv, NEW k \in Ids, SocketEvent(k), SocketsWane, ServicesKeep, SentWell
  PROVE  IInv'
<1>1. UNCHANGED <<cable, online, toDev, ready, nextId, file, owner, fouled, alive, host>>
  BY DEF SocketEvent
<1>2. /\ [t \in Transports |-> 0] \in [Transports -> {0, 1}]
      /\ Shifted([t \in Transports |-> 0])
  BY <1>1, Resting
<1>3. online' \in [Transports -> BOOLEAN]
  BY <1>1 DEF IInv, TypeOK
<1> QED
  BY <1>1, <1>2, <1>3, DeviceStep

LEMMA WriteFailsStep ==
  ASSUME IInv, NEW k \in Ids, SocketEvent(k), EventWriteFails(k, sock[k].pend)
  PROVE  IInv'
<1>1. /\ k < nextId /\ sock[k] \in Socket /\ Consistent(sock[k]) /\ UNCHANGED online
  BY Given DEF SocketEvent
<1> DEFINE s == [sock[k] EXCEPT !.pend = {}]
<1>2. /\ s \in Socket /\ s.state = sock[k].state /\ s.t = sock[k].t /\ s.rid = sock[k].rid
      /\ s.n = sock[k].n /\ s.backlog = sock[k].backlog /\ s.want = sock[k].want
  BY <1>1, Unpended
<1>3. sock' = [sock EXCEPT ![k] = Closed(s)] /\ UNCHANGED svc
  BY DEF EventWriteFails
<1> HIDE DEF s
<1>4. Consistent(s)
  BY <1>1, <1>2 DEF Consistent
<1>5. Wanes(s, Closed(s))
  BY <1>2, <1>4, ClosedFields
<1>6. Wanes(sock[k], Closed(s))
  BY <1>2, <1>5 DEF Wanes
<1>7. SocketsWane
  BY <1>1, <1>3, <1>6, OneWanes
<1>8. ServicesKeep
  BY <1>3, NoneFed
<1>9. SentWell
  BY Farewells, Silent DEF EventWriteFails
<1> QED
  BY <1>7, <1>8, <1>9, EventStep

LEMMA WritePartStep ==
  ASSUME IInv, NEW k \in Ids, SocketEvent(k), EventWritePart(k, sock[k].pend)
  PROVE  IInv'
<1>1. /\ k < nextId /\ sock[k] \in Socket /\ Consistent(sock[k]) /\ UNCHANGED online
      /\ sock[k].backlog \in Seq(Units) /\ Len(svc[k].in) <= Room
  BY Given, Fields DEF SocketEvent
<1> DEFINE left == Left(k, sock[k].backlog)
           u == [sock[k] EXCEPT !.pend = {}, !.backlog = left]
<1>2. left \in Seq(Units) /\ left # <<>>
  BY <1>1, Writing DEF EventWritePart, IInv
<1>3. sock[k].backlog # <<>>
  <2>1. left = SubSeq(sock[k].backlog, Takes(k, sock[k].backlog) + 1, Len(sock[k].backlog))
    BY DEF Left
  <2>2. ASSUME sock[k].backlog = <<>> PROVE FALSE
    <3>1. Len(sock[k].backlog) = 0
      BY <2>2, EmptySeq
    <3>2. Takes(k, sock[k].backlog) \in Nat
      <4>1. Len(svc[k].in) \in Nat
        BY ServiceFields, LenProperties DEF IInv
      <4>2. 0 <= Room - Len(svc[k].in)
        BY <1>1, <4>1, Constants
      <4> QED
        BY <3>1, <4>1, <4>2, Constants DEF Takes
    <3>3. left = <<>>
      BY <2>1, <3>1, <3>2, SubSeqEmpty
    <3> QED
      BY <1>2, <3>3
  <2> QED
    BY <2>2
<1>4. sock' = [sock EXCEPT ![k] = u] /\ svc' = Written(k, sock[k].backlog) /\ UNCHANGED toHost
  BY DEF EventWritePart
<1> HIDE DEF left
<1>5. /\ u \in Socket /\ u.state = sock[k].state /\ u.t = sock[k].t /\ u.rid = sock[k].rid
      /\ u.n = sock[k].n /\ u.backlog = left /\ u.want = sock[k].want
  BY <1>1, <1>2 DEF Socket
<1> HIDE DEF u
<1>6. Wanes(sock[k], u)
  BY <1>1, <1>2, <1>3, <1>5 DEF Wanes, Consistent
<1>7. SocketsWane
  BY <1>1, <1>4, <1>6, OneWanes
<1>8. ServicesKeep
  BY <1>1, <1>4, Fed
<1>9. SentWell
  BY <1>4, Silent
<1> QED
  BY <1>7, <1>8, <1>9, EventStep

LEMMA WriteLastStep ==
  ASSUME IInv, NEW k \in Ids, SocketEvent(k), EventWriteLast(k, sock[k].pend)
  PROVE  IInv'
<1>1. /\ k < nextId /\ sock[k] \in Socket /\ UNCHANGED online /\ sock[k].backlog \in Seq(Units)
  BY Given, Fields DEF SocketEvent
<1>2. /\ sock' = [sock EXCEPT ![k] = Destroyed(sock[k])] /\ svc' = Written(k, sock[k].backlog)
      /\ UNCHANGED toHost
  BY DEF EventWriteLast
<1>3. SocketsWane
  BY <1>1, <1>2, DestroyedFields, OneWanes
<1>4. ServicesKeep
  BY <1>1, <1>2, Fed
<1>5. SentWell
  BY <1>2, Silent
<1> QED
  BY <1>3, <1>4, <1>5, EventStep

\* The fields of the socket after its write half.
LEMMA AfterWriteFields ==
  ASSUME NEW k, NEW ev, sock[k] \in Socket, Consistent(sock[k])
  PROVE  /\ AfterWrite(k, ev) \in Socket /\ Consistent(AfterWrite(k, ev))
         /\ AfterWrite(k, ev).state = sock[k].state /\ AfterWrite(k, ev).t = sock[k].t
         /\ AfterWrite(k, ev).rid = sock[k].rid /\ AfterWrite(k, ev).n = sock[k].n
<1> DEFINE s == [sock[k] EXCEPT !.pend = {}]
           w == FdeSet(s, s.want \ {"W"})
<1>1. /\ s \in Socket /\ s.state = sock[k].state /\ s.t = sock[k].t /\ s.rid = sock[k].rid
      /\ s.n = sock[k].n /\ s.backlog = sock[k].backlog /\ s.want = sock[k].want
  BY Unpended
<1>2. AfterWrite(k, ev) = IF "W" \in ev THEN [w EXCEPT !.backlog = <<>>] ELSE s
  BY DEF AfterWrite
<1> HIDE DEF s
<1>3. s.want \ {"W"} \in SUBSET {"R", "W"}
  BY <1>1, Fields
<1>4. /\ w \in Socket /\ w.state = s.state /\ w.t = s.t /\ w.rid = s.rid /\ w.n = s.n
      /\ w.want = s.want \ {"W"}
  BY <1>1, <1>3, FdeSets
<1> HIDE DEF w
<1> DEFINE u == [w EXCEPT !.backlog = <<>>]
<1>5. /\ u \in Socket /\ u.state = w.state /\ u.t = w.t /\ u.rid = w.rid /\ u.n = w.n
      /\ u.want = w.want /\ u.backlog = <<>>
  BY <1>4, EmptySeq, Rebacklogged
<1> HIDE DEF u
<1>6. CASE "W" \in ev
  <2>1. AfterWrite(k, ev) = u
    BY <1>2, <1>6 DEF u
  <2>2. "W" \notin u.want
    BY <1>4, <1>5
  <2> QED
    BY <1>1, <1>4, <1>5, <2>1, <2>2 DEF Consistent
<1>7. CASE "W" \notin ev
  BY <1>1, <1>2, <1>7 DEF Consistent
<1> QED
  BY <1>6, <1>7

LEMMA ReadStep ==
  ASSUME IInv, NEW k \in Ids, SocketEvent(k), EventRead(k, sock[k].pend)
  PROVE  IInv'
<1> DEFINE ev   == sock[k].pend
           s    == AfterWrite(k, ev)
           data == IF "R" \in ev THEN svc[k].out ELSE <<>>
           fed  == IF "W" \in ev THEN Written(k, sock[k].backlog) ELSE svc
           eof  == "R" \in ev /\ Hung(k)
           sent == IF data # <<>> /\ s.state = "open" THEN ToPeer(k, "WRTE", k, data) ELSE <<>>
           off  == IF sent # <<>> THEN FdeSet(s, s.want \ {"R"}) ELSE s
           bye  == IF eof /\ s.state = "open" THEN Farewell(k) ELSE <<>>
<1>1. /\ Drained(k, ev)
      /\ svc' = [fed EXCEPT ![k].out = IF "R" \in ev THEN <<>> ELSE @]
      /\ sock' = [sock EXCEPT ![k] = IF eof THEN Closed(off) ELSE off]
      /\ Send(s.t, Resumed(k, ev) \o sent \o bye)
  BY DEF EventRead
<1>2. /\ k < nextId /\ sock[k] \in Socket /\ Consistent(sock[k]) /\ UNCHANGED online
      /\ sock[k].backlog \in Seq(Units) /\ Len(svc[k].in) <= Room
      /\ svc \in [Ids -> Service] /\ ~(k >= nextId) /\ k \in 0..MaxStreams
      /\ \A j \in Ids : Len(svc[j].in) <= Room
  BY Given, Fields, Constants DEF SocketEvent, IInv, TypeOK, Ids
<1>3. /\ s \in Socket /\ Consistent(s) /\ s.state = sock[k].state /\ s.t = sock[k].t
      /\ s.rid = sock[k].rid /\ s.n = sock[k].n
  BY <1>2, AfterWriteFields
<1>4. SocketsWane
  <2> HIDE DEF s, sent, eof
  <2>1. s.want \ {"R"} \in SUBSET {"R", "W"}
    BY <1>3, Fields
  <2>2. /\ off \in Socket /\ off.state = s.state /\ off.t = s.t /\ off.rid = s.rid
        /\ off.n = s.n /\ off.backlog = s.backlog
        /\ off.want = s.want \ {"R"} \/ off.want = s.want
    BY <1>3, <2>1, FdeSets
  <2> HIDE DEF off
  <2>3. Consistent(off)
    BY <1>3, <2>2 DEF Consistent
  <2>4. Wanes(off, off) /\ Wanes(off, Closed(off))
    BY <2>2, <2>3, Same, ClosedFields
  <2>5. Wanes(sock[k], off) /\ Wanes(sock[k], Closed(off))
    BY <1>3, <2>2, <2>4 DEF Wanes
  <2>6. Wanes(sock[k], IF eof THEN Closed(off) ELSE off)
    BY <2>5
  <2> QED
    BY <1>1, <1>2, <2>6, OneWanes
<1>5. ServicesKeep
  <2>1. /\ fed \in [Ids -> Service] /\ Len(fed[k].in) <= Room
        /\ \A j \in Ids : /\ fed[j].state = svc[j].state /\ fed[j].off = svc[j].off
                          /\ fed[j].out = svc[j].out /\ (j # k => fed[j] = svc[j])
    BY <1>2, Writing DEF IInv
  <2> HIDE DEF fed
  <2> DEFINE out == IF "R" \in ev THEN <<>> ELSE fed[k].out
  <2>2. svc' = [fed EXCEPT ![k].out = out]
    BY <1>1
  <2>3. out \in {svc[k].out, <<>>} /\ out \in Seq({"OKAY", "FAIL"})
    BY <2>1, EmptySeq, ServiceFields DEF IInv
  <2> HIDE DEF out
  <2>4. svc'[k] = [fed[k] EXCEPT !.out = out] /\ \A j \in Ids : j # k => svc'[j] = fed[j]
    BY <2>1, <2>2
  <2>5. /\ svc'[k] \in Service /\ svc'[k].state = fed[k].state /\ svc'[k].off = fed[k].off
        /\ svc'[k].out = out /\ svc'[k].in = fed[k].in
    BY <2>1, <2>3, <2>4, ZenonT(30) DEF Service
  <2>6. svc' \in [Ids -> Service]
    BY <2>1, <2>2, <2>4, <2>5
  <2> QED
    BY <1>2, <2>1, <2>3, <2>4, <2>5, <2>6 DEF ServicesKeep
<1>6. SentWell
  <2> HIDE DEF s, data, eof, ev
  <2>1. ASSUME cable.in, s.t = cable.t
        PROVE  AllGood(Resumed(k, ev) \o sent \o bye)
               /\ (Resumed(k, ev) \o sent \o bye # <<>> => Speaks(s.t))
    <3>1. s.state = "open" => Cabled(k)
      BY <1>3, <2>1 DEF Cabled
    <3>2. "W" \in ev => s.state = "open"
      BY <1>1, <1>3 DEF Drained
    <3>3. data \in Seq({"OKAY", "FAIL"}) /\ <<>> \in Seq({"OKAY", "FAIL"}) /\ 0 \in 0..MaxStreams
      BY EmptySeq, Constants, ServiceFields DEF data, IInv
    <3>4. data # <<>> => (data[1] = "OKAY" => svc[k].off = Size)
      <4> SUFFICES ASSUME data # <<>>, data[1] = "OKAY" PROVE svc[k].off = Size
        OBVIOUS
      <4>1. data = svc[k].out /\ 1 \in 1..Len(data)
        BY <3>3, EmptySeq DEF data
      <4> QED
        BY <4>1 DEF IInv, ServedInv
    <3>5. AllGood(Resumed(k, ev))
      BY <1>2, <3>1, <3>2, <3>3, PeerTold, NothingSaid DEF Resumed
    <3>6. AllGood(sent)
      <4>1. CASE data # <<>> /\ s.state = "open"
        <5>1. AllGood(ToPeer(k, "WRTE", k, data))
          BY <1>2, <3>1, <3>3, <3>4, <4>1, PeerTold
        <5> QED
          BY <4>1, <5>1
      <4>2. CASE ~(data # <<>> /\ s.state = "open")
        BY <4>2, NothingSaid
      <4> QED
        BY <4>1, <4>2
    <3>7. AllGood(bye)
      <4>1. s.state = "open" => AllGood(Farewell(k))
        BY <3>1, <3>3, PeerTold DEF Farewell
      <4> QED
        BY <4>1, NothingSaid
    <3>8. s.state # "open" => Resumed(k, ev) = <<>> /\ sent = <<>> /\ bye = <<>>
      BY <3>2 DEF Resumed
    <3>9. <<>> \o <<>> \o <<>> = <<>>
      BY EmptySeq, ConcatEmptySeq
    <3> HIDE DEF sent, bye
    <3>10. AllGood(Resumed(k, ev) \o sent \o bye)
      BY <3>5, <3>6, <3>7, BothSaid
    <3> QED
      BY <2>1, <3>1, <3>8, <3>9, <3>10 DEF Speaks
  <2> HIDE DEF sent, bye
  <2> QED
    BY <1>1, <2>1, Sending
<1> QED
  BY <1>4, <1>5, <1>6, EventStep

LEMMA SocketEventStep ==
  ASSUME IInv, NEW k \in Ids, SocketEvent(k)
  PROVE  IInv'
BY WriteFailsStep, WritePartStep, WriteLastStep, ReadStep DEF SocketEvent

-----------------------------------------------------------------------------
(* handle_packet                                                           *)

\* The packet that is handled.
LEMMA FirstPacket ==
  ASSUME IInv, NEW t, t \in ready
  PROVE  /\ t \in Transports /\ Speaks(t) /\ Len(toDev[t]) \in Nat /\ 1 \in 1..Len(toDev[t])
         /\ Head(toDev[t]) \in FromHost /\ Head(toDev[t]) = toDev[t][1]
         /\ cable.in /\ t = cable.t /\ host.up =>
              /\ Head(toDev[t]).stream > Base
              /\ Head(toDev[t]).arg0 = Head(toDev[t]).stream - Base
<1>1. t \in Transports /\ toDev[t] # <<>> /\ toDev[t] \in Seq(FromHost)
  BY DEF IInv, TypeOK, LinkInv
<1>2. Len(toDev[t]) \in Nat \ {0} /\ Head(toDev[t]) = toDev[t][1] /\ toDev[t][1] \in FromHost
  BY <1>1, Taken
<1>3. 1 \in 1..Len(toDev[t])
  BY <1>2
<1> QED
  BY <1>1, <1>2, <1>3 DEF IInv, DevInv, Speaks

LEMMA PacketFields ==
  ASSUME NEW p \in FromHost
  PROVE  /\ p.cmd \in {"SYNC", "CNXN", "OPEN", "OKAY", "CLSE", "WRTE"} /\ p.arg0 \in 0..MaxStreams
         /\ p.arg1 \in 0..MaxStreams /\ p.stream \in 0..MaxStreams /\ p.data \in Seq(Units)
BY DEF FromHost

LEMMA HandleStep ==
  ASSUME IInv, NEW t \in Transports, Handle(t), UNCHANGED nextId,
         online' \in [Transports -> BOOLEAN], SocketsWane, ServicesKeep, SentWell
  PROVE  IInv'
<1>1. /\ t \in ready /\ ready' = ready \ {t} /\ toDev' = [toDev EXCEPT ![t] = Tail(@)]
      /\ UNCHANGED <<cable, file, owner, fouled, alive, host>>
  BY DEF Handle
<1>2. PICK d \in [Transports -> {0, 1}] : Shifted(d)
  BY <1>1, Popping
<1> QED
  BY <1>1, <1>2, DeviceStep

\* The answer to the packet that is handled.
LEMMA Reply ==
  ASSUME IInv, NEW t, t \in ready, NEW c \in {"OKAY", "CLSE"}, NEW a \in 0..MaxStreams,
         NEW p, p = Head(toDev[t]), Send(t, <<Packet(c, a, p.arg0, p.stream, <<>>)>>)
  PROVE  SentWell
<1> DEFINE q == Packet(c, a, p.arg0, p.stream, <<>>)
<1>1. p.arg0 \in 0..MaxStreams /\ p.stream \in 0..MaxStreams
  BY FirstPacket, PacketFields
<1>2. <<>> \in Seq({"OKAY", "FAIL"})
  BY EmptySeq
<1>3. q \in ToHost /\ q.cmd = c /\ q.arg1 = p.arg0 /\ q.stream = p.stream
  <2>1. c \in {"CNXN", "OKAY", "CLSE", "WRTE"}
    OBVIOUS
  <2>2. p.arg0 \in 0..MaxStreams /\ p.stream \in 0..MaxStreams
    BY <1>1
  <2> QED
    BY <1>2, <2>1, <2>2 DEF Packet, ToHost
<1> HIDE DEF q
<1>4. ASSUME cable.in, t = cable.t PROVE AllGood(<<q>>) /\ Speaks(t)
  <2>1. host.up => q.stream > Base /\ q.arg1 = q.stream - Base
    BY <1>3, <1>4, FirstPacket
  <2>2. Good(q)
    BY <1>3, <2>1 DEF Good
  <2> QED
    BY <1>3, <2>2, OneSaid, FirstPacket
<1>5. Send(t, <<q>>)
  BY DEF q
<1> QED
  BY <1>4, <1>5, Sending

\* run_transport_disconnects leaves no open socket of the transport.
LEMMA Disconnects ==
  ASSUME IInv, NEW t \in Transports, sock' = Disconnected(t),
         \A u \in Transports : u # t => online'[u] = online[u]
  PROVE  /\ SocketsWane
         /\ \A k \in Ids : ~(sock'[k].state = "open" /\ sock'[k].t = t)
<1> SUFFICES ASSUME NEW k \in Ids
             PROVE  /\ sock'[k] \in Socket /\ Wanes(sock[k], sock'[k])
                    /\ k >= nextId => sock'[k] = sock[k]
                    /\ sock'[k].state = "open" => online'[sock'[k].t] /\ sock'[k].t # t
  <2>1. sock' = [k \in Ids |-> sock'[k]]
    BY DEF Disconnected
  <2> QED
    BY <2>1 DEF SocketsWane
<1>1. /\ sock[k] \in Socket /\ Consistent(sock[k]) /\ k \in Nat /\ nextId \in Nat
      /\ sock[k].state # "none" => k < nextId
  BY Given
<1>2. CASE sock[k].state = "open" /\ sock[k].t = t
  <2>1. sock'[k] = Closed(sock[k])
    BY <1>2 DEF Disconnected
  <2>2. /\ Closed(sock[k]) \in Socket /\ Closed(sock[k]).state \in {"closing", "freed"}
        /\ Wanes(sock[k], Closed(sock[k]))
    BY <1>1, ClosedFields
  <2> QED
    BY <1>1, <1>2, <2>1, <2>2
<1>3. CASE ~(sock[k].state = "open" /\ sock[k].t = t)
  <2>1. sock'[k] = sock[k]
    BY <1>3 DEF Disconnected
  <2>2. sock[k].state = "open" => online[sock[k].t] /\ sock[k].t \in Transports
    BY DEF IInv, SocketsInv
  <2> QED
    BY <1>1, <1>3, <2>1, <2>2, Same
<1> QED
  BY <1>2, <1>3

LEMMA SyncStep ==
  ASSUME IInv, NEW t \in Transports, Handle(t), HandleSync(t)
  PROVE  IInv'
<1>1. /\ online' = [online EXCEPT ![t] = FALSE] /\ sock' = Disconnected(t)
      /\ UNCHANGED <<toHost, nextId, svc>>
  BY DEF HandleSync
<1>2. online \in [Transports -> BOOLEAN]
  BY DEF IInv, TypeOK
<1>3. online' \in [Transports -> BOOLEAN] /\ \A u \in Transports : u # t => online'[u] = online[u]
  BY <1>1, <1>2
<1>4. SocketsWane
  BY <1>1, <1>3, Disconnects
<1> QED
  BY <1>1, <1>3, <1>4, NoneFed, Silent, HandleStep

\* Its CNXN is the last thing the device says before the host is up.
LEMMA Greeting ==
  ASSUME IInv, NEW t, t \in ready, toDev' = [toDev EXCEPT ![t] = Tail(@)],
         Head(toDev[t]).cmd = "CNXN", Send(t, <<Packet("CNXN", 0, 0, 0, <<>>)>>),
         \A k \in Ids : ~(sock'[k].state = "open" /\ sock'[k].t = t)
  PROVE  SentWell
<1>1. CASE ~(cable.in /\ t = cable.t)
  BY <1>1, Silent DEF Send
<1>2. CASE cable.in /\ t = cable.t
  <2> DEFINE q == Packet("CNXN", 0, 0, 0, <<>>)
  <2>1. q \in ToHost /\ q.cmd = "CNXN"
    <3>1. 0 \in 0..MaxStreams /\ <<>> \in Seq({"OKAY", "FAIL"})
      BY Constants, EmptySeq
    <3> QED
      BY <3>1 DEF Packet, ToHost
  <2>2. /\ toHost' = [toHost EXCEPT ![t] = @ \o <<q>>] /\ t \in Transports
        /\ toHost \in [Transports -> Seq(ToHost)] /\ toDev \in [Transports -> Seq(FromHost)]
    BY <1>2, FirstPacket DEF Send, IInv, TypeOK
  <2> HIDE DEF q
  <2>3. <<q>> \in Seq(ToHost) /\ Len(<<q>>) = 1 /\ <<q>>[1] = q
    BY <2>1
  <2>4. toHost'[t] = toHost[t] \o <<q>> /\ \A u \in Transports : u # t => toHost'[u] = toHost[u]
    BY <2>2
  <2>5. /\ toHost'[t] \in Seq(ToHost) /\ Len(toHost[t]) \in Nat
        /\ Len(toHost'[t]) = Len(toHost[t]) + 1
        /\ \A i \in 1..Len(toHost'[t]) :
             toHost'[t][i] = IF i <= Len(toHost[t]) THEN toHost[t][i] ELSE <<q>>[i - Len(toHost[t])]
    BY <2>2, <2>3, <2>4, Joined
  <2>6. Greets(q)
    <3>1. host.asked /\ ~host.up /\ Len(toDev[t]) = 1
      BY <1>2, FirstPacket DEF IInv, DevInv
    <3>2. Tail(toDev[t]) \in Seq(FromHost) /\ Len(Tail(toDev[t])) = 0
      <4>1. toDev[t] \in Seq(FromHost) /\ toDev[t] # <<>>
        BY <2>2 DEF IInv, LinkInv
      <4> QED
        BY <3>1, <4>1, Taken
    <3>3. toDev'[cable.t] = <<>>
      BY <1>2, <2>2, <3>2, EmptySeq
    <3> QED
      BY <1>2, <2>1, <3>1, <3>3 DEF Greets
  <2>7. ASSUME NEW i \in 1..Len(toHost'[t])
        PROVE  IF i <= Len(toHost[t]) THEN toHost'[t][i] = toHost[t][i]
               ELSE Good(toHost'[t][i]) \/ (Greets(toHost'[t][i]) /\ i = Len(toHost'[t]))
    <3>1. CASE i <= Len(toHost[t])
      BY <2>5, <3>1
    <3>2. CASE ~(i <= Len(toHost[t]))
      <4>1. i = Len(toHost'[t]) /\ i - Len(toHost[t]) = 1
        BY <2>5, <3>2
      <4>2. toHost'[t][i] = q
        BY <2>3, <2>5, <3>2, <4>1
      <4> QED
        BY <2>6, <3>2, <4>1, <4>2
    <3> QED
      BY <3>1, <3>2
  <2>8. toHost' \in [Transports -> Seq(ToHost)]
    BY <2>2, <2>4, <2>5
  <2>9. \A u \in Transports : Len(toHost[u]) \in Nat
    BY <2>2, LenProperties
  <2>10. ASSUME NEW u \in Transports
         PROVE  /\ toHost'[u] # toHost[u] => cable.in /\ u = cable.t /\ Speaks(u)
                /\ Len(toHost[u]) <= Len(toHost'[u])
                /\ \A i \in 1..Len(toHost'[u]) :
                     IF i <= Len(toHost[u]) THEN toHost'[u][i] = toHost[u][i]
                     ELSE Good(toHost'[u][i]) \/ (Greets(toHost'[u][i]) /\ i = Len(toHost'[u]))
    <3>1. CASE u = t
      BY <1>2, <2>5, <2>7, <3>1, FirstPacket
    <3>2. CASE u # t
      BY <2>4, <2>9, <3>2
    <3> QED
      BY <3>1, <3>2
  <2> QED
    BY <2>8, <2>10 DEF SentWell
<1> QED
  BY <1>1, <1>2

LEMMA ConnectStep ==
  ASSUME IInv, NEW t \in Transports, Handle(t), Head(toDev[t]).cmd = "CNXN", HandleConnect(t)
  PROVE  IInv'
<1>1. /\ online' = [online EXCEPT ![t] = TRUE]
      /\ sock' = IF online[t] THEN Disconnected(t) ELSE sock
      /\ Send(t, <<Packet("CNXN", 0, 0, 0, <<>>)>>)
      /\ UNCHANGED <<nextId, svc>>
  BY DEF HandleConnect
<1>2. online \in [Transports -> BOOLEAN]
  BY DEF IInv, TypeOK
<1>3. online' \in [Transports -> BOOLEAN] /\ \A u \in Transports : u # t => online'[u] = online[u]
  BY <1>1, <1>2
<1>4. SocketsWane /\ \A k \in Ids : ~(sock'[k].state = "open" /\ sock'[k].t = t)
  <2>1. CASE online[t]
    BY <1>1, <1>3, <2>1, Disconnects
  <2>2. CASE ~online[t]
    <3>1. sock' = sock
      BY <1>1, <2>2
    <3>2. \A k \in Ids : sock[k].state = "open" =>
                            sock[k].t \in Transports /\ online[sock[k].t] /\ sock[k].t # t
      BY <2>2 DEF IInv, SocketsInv
    <3>3. \A k \in Ids : Wanes(sock[k], sock[k])
      BY Given, Same
    <3>4. sock \in [Ids -> Socket]
      BY DEF IInv, TypeOK
    <3> QED
      BY <1>3, <3>1, <3>2, <3>3, <3>4 DEF SocketsWane
  <2> QED
    BY <2>1, <2>2
<1>5. t \in ready /\ toDev' = [toDev EXCEPT ![t] = Tail(@)]
  BY DEF Handle
<1>6. SentWell
  BY <1>1, <1>4, <1>5, Greeting
<1> QED
  BY <1>1, <1>3, <1>4, <1>6, NoneFed, HandleStep

LEMMA IgnoreStep ==
  ASSUME IInv, NEW t \in Transports, Handle(t), NEW p, Ignore(t, p)
  PROVE  IInv'
<1>1. UNCHANGED <<online, toHost, nextId, sock, svc>>
  BY DEF Ignore
<1>2. online' \in [Transports -> BOOLEAN]
  BY <1>1 DEF IInv, TypeOK
<1> QED
  BY <1>1, <1>2, NoneWanes, NoneFed, Silent, HandleStep

LEMMA OkayStep ==
  ASSUME IInv, NEW t \in Transports, Handle(t), NEW p, HandleOkay(t, p)
  PROVE  IInv'
<1> DEFINE k == p.arg1
           u == FdeSet(sock[k], sock[k].want \cup {"R"})
<1>1. /\ k \in Ids /\ sock[k].state = "open" /\ sock' = [sock EXCEPT ![k] = u]
      /\ UNCHANGED <<online, toHost, nextId, svc>>
  BY DEF HandleOkay, Found
<1> HIDE DEF k
<1>2. sock[k] \in Socket /\ Consistent(sock[k]) /\ k < nextId
  BY <1>1, Given
<1>3. sock[k].want \cup {"R"} \in SUBSET {"R", "W"}
  BY <1>2, Fields
<1>4. /\ u \in Socket /\ u.state = sock[k].state /\ u.t = sock[k].t /\ u.rid = sock[k].rid
      /\ u.n = sock[k].n /\ u.backlog = sock[k].backlog /\ u.want = sock[k].want \cup {"R"}
  BY <1>2, <1>3, FdeSets
<1> HIDE DEF u
<1>5. Wanes(sock[k], u)
  <2>1. "W" \in u.want <=> "W" \in sock[k].want
    BY <1>4
  <2> QED
    BY <1>2, <1>4, <2>1 DEF Wanes, Consistent
<1>6. SocketsWane
  BY <1>1, <1>2, <1>5, OneWanes
<1>7. online' \in [Transports -> BOOLEAN]
  BY <1>1 DEF IInv, TypeOK
<1> QED
  BY <1>1, <1>6, <1>7, NoneFed, Silent, HandleStep

LEMMA SocketCloses ==
  ASSUME IInv, NEW k \in Ids, sock[k].state = "open", UNCHANGED online, CloseSocket(k)
  PROVE  SocketsWane /\ SentWell
<1>1. sock[k] \in Socket /\ Consistent(sock[k]) /\ k < nextId
  BY Given
<1>2. sock' = [sock EXCEPT ![k] = Closed(sock[k])] /\ Send(sock[k].t, Farewell(k))
  BY DEF CloseSocket
<1>3. Wanes(sock[k], Closed(sock[k]))
  BY <1>1, ClosedFields
<1> QED
  BY <1>1, <1>2, <1>3, OneWanes, Farewells

LEMMA CloseStep ==
  ASSUME IInv, NEW t \in Transports, Handle(t), NEW p, HandleClose(t, p)
  PROVE  IInv'
<1>1. /\ p.arg1 \in Ids /\ sock[p.arg1].state = "open" /\ CloseSocket(p.arg1)
      /\ UNCHANGED <<online, nextId, svc>>
  BY DEF HandleClose, Found
<1>2. online' \in [Transports -> BOOLEAN]
  BY <1>1 DEF IInv, TypeOK
<1>3. SocketsWane /\ SentWell
  BY <1>1, SocketCloses
<1> QED
  BY <1>1, <1>2, <1>3, NoneFed, HandleStep

\* What cannot be written is queued.
LEMMA Queues ==
  ASSUME IInv, NEW k \in Ids, sock[k].state = "open", UNCHANGED online,
         NEW left \in Seq(Units), left # <<>>,
         sock' = [sock EXCEPT ![k] =
                    FdeSet([sock[k] EXCEPT !.backlog = sock[k].backlog \o left],
                           sock[k].want \cup {"W"})]
  PROVE  SocketsWane
<1> DEFINE b == sock[k].backlog \o left
           s == [sock[k] EXCEPT !.backlog = b]
           u == FdeSet(s, sock[k].want \cup {"W"})
<1>1. /\ sock[k] \in Socket /\ Consistent(sock[k]) /\ k < nextId /\ sock[k].backlog \in Seq(Units)
      /\ sock[k].want \cup {"W"} \in SUBSET {"R", "W"}
  BY Given, Fields
<1>2. b \in Seq(Units) /\ b # <<>>
  <2>1. b \in Seq(Units)
    BY <1>1, Joined
  <2>2. b # <<>>
    BY <1>1, ConcatEqualIffEmpty
  <2> QED
    BY <2>1, <2>2
<1>3. sock' = [sock EXCEPT ![k] = u]
  OBVIOUS
<1> HIDE DEF b
<1>4. /\ s \in Socket /\ s.state = sock[k].state /\ s.t = sock[k].t /\ s.rid = sock[k].rid
      /\ s.n = sock[k].n /\ s.backlog = b
  BY <1>1, <1>2, Rebacklogged
<1> HIDE DEF s
<1>5. /\ u \in Socket /\ u.state = s.state /\ u.t = s.t /\ u.rid = s.rid /\ u.n = s.n
      /\ u.backlog = s.backlog /\ u.want = sock[k].want \cup {"W"}
  BY <1>1, <1>4, FdeSets
<1> HIDE DEF u
<1>6. Wanes(sock[k], u)
  <2>1. "W" \in u.want
    BY <1>5
  <2> QED
    BY <1>1, <1>2, <1>4, <1>5, <2>1 DEF Wanes, Consistent
<1> QED
  BY <1>1, <1>3, <1>6, OneWanes

LEMMA WriteStep ==
  ASSUME IInv, NEW t \in Transports, Handle(t), NEW p, p = Head(toDev[t]), HandleWrite(t, p)
  PROVE  IInv'
<1> DEFINE k     == p.arg1
           waits == sock[k].backlog # <<>>
           left  == IF waits THEN p.data ELSE Left(k, p.data)
<1>1. k \in Ids /\ sock[k].state = "open" /\ UNCHANGED <<online, nextId>> /\ t \in ready
  BY DEF HandleWrite, Found, Handle
<1>2. online' \in [Transports -> BOOLEAN]
  BY <1>1 DEF IInv, TypeOK
<1>3. p.data \in Seq(Units) /\ p.arg0 \in 0..MaxStreams
  BY <1>1, FirstPacket, PacketFields
<1>4. k < nextId /\ Len(svc[k].in) <= Room /\ k \in 0..MaxStreams
  BY <1>1, Given, Constants DEF Ids
<1>5. left \in Seq(Units)
  <2>1. Left(k, p.data) \in Seq(Units)
    BY <1>1, <1>3, <1>4, Writing DEF IInv
  <2> QED
    BY <1>3, <2>1
<1>6. CASE /\ left # <<>> /\ UNCHANGED toHost
           /\ svc' = IF waits THEN svc ELSE Written(k, p.data)
           /\ sock' = [sock EXCEPT ![k] =
                         FdeSet([sock[k] EXCEPT !.backlog = sock[k].backlog \o left],
                                sock[k].want \cup {"W"})]
  <2> HIDE DEF k, left
  <2>1. SocketsWane
    BY <1>1, <1>5, <1>6, Queues
  <2>2. ServicesKeep
    <3>1. CASE waits
      BY <1>6, <3>1, NoneFed
    <3>2. CASE ~waits
      BY <1>1, <1>3, <1>4, <1>6, <3>2, Fed
    <3> QED
      BY <3>1, <3>2
  <2> QED
    BY <1>1, <1>2, <1>6, <2>1, <2>2, Silent, HandleStep
<1>7. CASE /\ svc' = Written(k, p.data) /\ UNCHANGED sock
           /\ Send(t, <<Packet("OKAY", k, p.arg0, p.stream, <<>>)>>)
  <2> HIDE DEF k
  <2>1. ServicesKeep
    BY <1>1, <1>3, <1>4, <1>7, Fed
  <2>2. SentWell
    BY <1>1, <1>4, <1>7, Reply
  <2> QED
    BY <1>1, <1>2, <1>7, <2>1, <2>2, NoneWanes, HandleStep
<1>8. CASE CloseSocket(k) /\ UNCHANGED svc
  <2> HIDE DEF k
  <2>1. SocketsWane /\ SentWell
    BY <1>1, <1>8, SocketCloses
  <2> QED
    BY <1>1, <1>2, <1>8, <2>1, NoneFed, HandleStep
<1>9. \/ /\ left # <<>> /\ UNCHANGED toHost
         /\ svc' = IF waits THEN svc ELSE Written(k, p.data)
         /\ sock' = [sock EXCEPT ![k] =
                       FdeSet([sock[k] EXCEPT !.backlog = sock[k].backlog \o left],
                              sock[k].want \cup {"W"})]
      \/ /\ svc' = Written(k, p.data) /\ UNCHANGED sock
         /\ Send(t, <<Packet("OKAY", k, p.arg0, p.stream, <<>>)>>)
      \/ CloseSocket(k) /\ UNCHANGED svc
  BY DEF HandleWrite
<1> HIDE DEF k, left, waits
<1> QED
  BY <1>6, <1>7, <1>8, <1>9

\* As each stream is opened once, there is an id left for it.
LEMMA IdLeft ==
  ASSUME IInv, NEW t, t \in ready, Head(toDev[t]).cmd = "OPEN"
  PROVE  nextId \in Ids
<1> DEFINE n == Head(toDev[t]).stream
           S == 1..(nextId - 1)
           T == (1..host.opened) \ {n}
           f == [k \in S |-> sock[k].n]
<1>1. /\ n \in 1..host.opened /\ \A k \in Ids : k < nextId => sock[k].n # n
  BY FirstPacket DEF IInv, OpensInv
<1>2. nextId \in 1..(MaxStreams + 1) /\ host.opened \in 0..MaxStreams /\ MaxStreams \in Nat
  BY Constants DEF IInv, TypeOK, Server
<1>3. S \subseteq Ids /\ \A k \in S : k < nextId
  BY <1>2 DEF Ids
<1>4. f \in [S -> T]
  BY <1>1, <1>3 DEF IInv, SocketsInv
<1>5. IsFiniteSet(S) /\ Cardinality(S) = nextId - 1
  <2>1. 1 \in Int /\ nextId - 1 \in Int
    BY <1>2
  <2>2. /\ IsFiniteSet(1..(nextId - 1))
        /\ Cardinality(1..(nextId - 1)) = IF 1 > nextId - 1 THEN 0 ELSE (nextId - 1) - 1 + 1
    BY <2>1, FS_Interval
  <2>3. (IF 1 > nextId - 1 THEN 0 ELSE (nextId - 1) - 1 + 1) = nextId - 1
    BY <1>2
  <2> QED
    BY <2>2, <2>3
<1>6. IsFiniteSet(T) /\ Cardinality(T) = host.opened - 1
  <2>1. IsFiniteSet(1..host.opened) /\ Cardinality(1..host.opened) = host.opened
    BY <1>1, <1>2, FS_Interval
  <2> QED
    BY <1>1, <2>1, FS_RemoveElement
<1>7. \A j, k \in S : f[j] = f[k] => j = k
  BY <1>3 DEF IInv, SocketsInv
<1> HIDE DEF S, T, f
<1>8. ASSUME nextId \notin Ids PROVE FALSE
  <2>1. nextId = MaxStreams + 1
    BY <1>2, <1>8 DEF Ids
  <2>2. Cardinality(T) < Cardinality(S)
    BY <1>2, <1>5, <1>6, <2>1
  <2>3. \E j, k \in S : j # k /\ f[j] = f[k]
    BY <1>4, <1>5, <1>6, <2>2, FS_PigeonHole
  <2> QED
    BY <1>7, <2>3
<1> QED
  BY <1>8

\* A new socket and its service.
LEMMA OpenStep ==
  ASSUME IInv, NEW t \in Transports, Handle(t), NEW p, p = Head(toDev[t]), p.cmd = "OPEN",
         online[t], UNCHANGED online,
         sock' = [sock EXCEPT ![nextId] =
                    [NoSocket EXCEPT !.state = "open", !.t = t, !.rid = p.arg0,
                                     !.n = p.stream, !.want = {"R"}]],
         svc' = [svc EXCEPT ![nextId].state = "started"],
         nextId' = nextId + 1,
         Send(t, <<Packet("OKAY", nextId, p.arg0, p.stream, <<>>)>>)
  PROVE  IInv'
<1> DEFINE new == [NoSocket EXCEPT !.state = "open", !.t = t, !.rid = p.arg0,
                                   !.n = p.stream, !.want = {"R"}]
<1>1. /\ t \in ready /\ ready' = ready \ {t} /\ toDev' = [toDev EXCEPT ![t] = Tail(@)]
      /\ UNCHANGED <<cable, file, owner, fouled, alive, host>>
  BY DEF Handle
<1>2. nextId \in Ids /\ nextId \in Nat /\ nextId \in 0..MaxStreams /\ nextId + 1 \in 1..(MaxStreams + 1)
  BY <1>1, IdLeft, Constants DEF Ids
<1>3. PICK d \in [Transports -> {0, 1}] : Shifted(d)
  BY <1>1, Popping
<1>4. SentWell
  BY <1>1, <1>2, Reply
<1>5. p \in FromHost /\ p = toDev[t][1] /\ 1 \in 1..Len(toDev[t]) /\ Speaks(t)
  BY <1>1, FirstPacket
<1>6. /\ p.stream \in 1..host.opened /\ p.arg0 \in 0..MaxStreams /\ p.stream \in 0..MaxStreams
      /\ \A k \in Ids : k < nextId => sock[k].n # p.stream
      /\ \A u \in Transports : \A j \in 1..Len(toDev[u]) :
           toDev[u][j].cmd = "OPEN" /\ toDev[u][j].stream = p.stream => u = t /\ j = 1
  BY <1>5, PacketFields DEF IInv, OpensInv
<1>7. sock \in [Ids -> Socket] /\ svc \in [Ids -> Service]
  BY DEF IInv, TypeOK
<1>8. sock[nextId] = NoSocket /\ svc[nextId] = NoService
  BY <1>2 DEF IInv, SocketsInv
<1>9. /\ new \in Socket /\ new.state = "open" /\ new.t = t /\ new.rid = p.arg0 /\ new.n = p.stream
      /\ new.backlog = <<>> /\ new.want = {"R"}
  <2>1. t \in 0..(MaxSessions + 1) /\ {"R"} \in SUBSET {"R", "W"}
    BY Constants DEF Transports
  <2>2. NoSocket.backlog \in Seq(Units) /\ NoSocket.pend \in SUBSET {"R", "W"}
    BY NoSocketFields, EmptySeq
  <2>3. /\ new.state = "open" /\ new.t = t /\ new.rid = p.arg0 /\ new.n = p.stream
        /\ new.backlog = <<>> /\ new.want = {"R"}
    BY DEF NoSocket
  <2>4. new \in Socket
    BY <1>6, <2>1, <2>2, NoSocketFields DEF Socket
  <2> QED
    BY <2>3, <2>4
<1>10. sock' = [sock EXCEPT ![nextId] = new]
  OBVIOUS
<1> HIDE DEF new
<1>11. /\ sock' \in [Ids -> Socket] /\ sock'[nextId] = new
       /\ \A k \in Ids : k # nextId => sock'[k] = sock[k]
  BY <1>2, <1>7, <1>9, <1>10
<1>12. NoService \in Service /\ NoService.off = 0 /\ NoService.in = <<>> /\ NoService.out = <<>>
  BY <1>7, <1>8, <1>2 DEF NoService
<1>13. /\ svc'[nextId] \in Service /\ svc'[nextId].state = "started" /\ svc'[nextId].off = 0
       /\ svc'[nextId].out = <<>> /\ svc'[nextId].in = <<>>
       /\ \A k \in Ids : k # nextId => svc'[k] = svc[k]
  <2>1. svc'[nextId] = [NoService EXCEPT !.state = "started"]
    BY <1>2, <1>7, <1>8
  <2> QED
    BY <1>7, <1>12, <2>1 DEF Service
<1>14. svc' \in [Ids -> Service]
  BY <1>7, <1>13
<1>15. \A k \in Ids : k \in Nat /\ (k < nextId' <=> k < nextId \/ k = nextId) /\ (k < nextId => k # nextId)
  BY <1>2, Constants
<1>16. LinkInv' /\ DevInv' /\ HostInv'
  <2>1. \A q : Truthful(q) => StillTruthful(q)
    BY <1>11, <1>13, <1>15 DEF Truthful, StillTruthful
  <2>2. \A k \in Ids : sock'[k].state = "open" /\ sock'[k].t = cable.t => Speaks(cable.t)
    <3> SUFFICES ASSUME NEW k \in Ids, sock'[k].state = "open", sock'[k].t = cable.t
                 PROVE  Speaks(cable.t)
      OBVIOUS
    <3>1. CASE k = nextId
      BY <1>5, <1>9, <1>11, <3>1
    <3>2. CASE k # nextId
      BY <1>11, <3>2 DEF Speaks, Cabled
    <3> QED
      BY <3>1, <3>2
  <2> QED
    BY <1>1, <1>3, <1>4, <2>1, <2>2, PacketsStep
<1>17. TypeOK'
  <2>1. \A k \in Ids : ("W" \in sock'[k].want) = (sock'[k].backlog # <<>>)
    <3>1. \A k \in Ids : Consistent(sock'[k])
      <4>1. Consistent(new)
        BY <1>9 DEF Consistent
      <4>2. \A k \in Ids : Consistent(sock[k])
        BY Given
      <4> QED
        BY <1>11, <4>1, <4>2
    <3> QED
      BY <3>1 DEF Consistent
  <2> QED
    BY <1>1, <1>2, <1>3, <1>4, <1>11, <1>14, <2>1 DEF IInv, TypeOK, Shifted, SentWell
<1>18. SocketsInv'
  <2>1. ASSUME NEW k \in Ids
        PROVE  /\ k >= nextId' => sock'[k] = NoSocket /\ svc'[k] = NoService
               /\ k < nextId' => sock'[k].state # "none" /\ sock'[k].n \in 1..host.opened
               /\ sock'[k].state = "freed" => sock'[k].backlog = <<>>
               /\ sock'[k].state = "open" => sock'[k].t \in Transports /\ online[sock'[k].t]
               /\ Len(svc'[k].in) <= Room
    <3>1. CASE k = nextId
      <4>1. Len(<<>>) <= Room
        BY EmptySeq, Constants
      <4> QED
        BY <1>2, <1>6, <1>9, <1>11, <1>13, <3>1, <4>1
    <3>2. CASE k # nextId
      <4>1. k >= nextId' => k >= nextId
        BY <1>2, <1>15
      <4> QED
        BY <1>11, <1>13, <1>15, <3>2, <4>1 DEF IInv, SocketsInv
    <3> QED
      BY <3>1, <3>2
  <2>2. ASSUME NEW j \in Ids, NEW k \in Ids, j < nextId', k < nextId', sock'[j].n = sock'[k].n
        PROVE  j = k
    BY <1>6, <1>9, <1>11, <1>15, <2>2 DEF IInv, SocketsInv
  <2> QED
    BY <1>1, <2>1, <2>2 DEF SocketsInv
<1>19. OpensInv'
  <2> SUFFICES ASSUME NEW u \in Transports, NEW i \in 1..Len(toDev'[u]), toDev'[u][i].cmd = "OPEN"
               PROVE  /\ toDev'[u][i].stream \in 1..host.opened
                      /\ \A k \in Ids : k < nextId' => sock'[k].n # toDev'[u][i].stream
                      /\ \A v \in Transports : \A j \in 1..Len(toDev'[v]) :
                           toDev'[v][j].cmd = "OPEN" /\ toDev'[v][j].stream = toDev'[u][i].stream
                           => v = u /\ j = i
    BY <1>1 DEF OpensInv
  <2>1. \A v \in Transports : \A j \in 1..Len(toDev'[v]) :
          /\ j + d[v] \in 1..Len(toDev[v]) /\ toDev'[v][j] = toDev[v][j + d[v]]
          /\ j \in Nat \ {0} /\ d[v] \in Nat
    <3>1. \A v \in Transports : d[v] \in {0, 1} /\ Len(toDev'[v]) \in Nat
      BY <1>3, LenProperties DEF Shifted
    <3> QED
      BY <1>3, <3>1, SMTT(30) DEF Shifted
  <2>2. /\ toDev'[u][i].stream \in 1..host.opened
        /\ \A k \in Ids : k < nextId => sock[k].n # toDev'[u][i].stream
    BY <2>1, SMTT(30) DEF IInv, OpensInv
  <2>3. toDev'[u][i].stream # p.stream
    <3> SUFFICES ASSUME toDev'[u][i].stream = p.stream PROVE FALSE
      OBVIOUS
    <3>1. /\ i + d[u] \in 1..Len(toDev[u]) /\ toDev[u][i + d[u]].cmd = "OPEN"
          /\ toDev[u][i + d[u]].stream = p.stream
      BY <2>1
    <3>2. u = t /\ i + d[u] = 1
      BY <1>6, <3>1
    <3>3. i >= 1 /\ d[t] = 0
      BY <2>1, <3>2
    <3>4. Len(toDev'[t]) = Len(toDev[t]) - d[t]
      BY <1>3 DEF Shifted
    <3>5. Len(toDev'[t]) = Len(toDev[t]) - 1 /\ Len(toDev[t]) \in Nat
      <4>1. toDev \in [Transports -> Seq(FromHost)] /\ toDev[t] # <<>>
        BY <1>1 DEF IInv, TypeOK, LinkInv
      <4>2. Len(Tail(toDev[t])) = Len(toDev[t]) - 1 /\ Len(toDev[t]) \in Nat
        BY <4>1, Taken
      <4> QED
        BY <1>1, <4>1, <4>2
    <3> QED
      BY <3>3, <3>4, <3>5
  <2>4. ASSUME NEW v \in Transports, NEW j \in 1..Len(toDev'[v]),
               toDev'[v][j].cmd = "OPEN", toDev'[v][j].stream = toDev'[u][i].stream
        PROVE  v = u /\ j = i
    <3>1. /\ i + d[u] \in 1..Len(toDev[u]) /\ toDev[u][i + d[u]].cmd = "OPEN"
          /\ j + d[v] \in 1..Len(toDev[v]) /\ toDev[v][j + d[v]].cmd = "OPEN"
          /\ toDev[v][j + d[v]].stream = toDev[u][i + d[u]].stream
      BY <2>1, <2>4
    <3>2. v = u /\ j + d[v] = i + d[u]
      BY <3>1 DEF IInv, OpensInv
    <3> QED
      BY <2>1, <3>2
  <2> QED
    BY <1>9, <1>11, <1>15, <2>2, <2>3, <2>4
<1>20. SessionInv'
  <2> SUFFICES ASSUME host.up, NEW k \in Ids, sock'[k].state = "open", sock'[k].t = cable.t
               PROVE  sock'[k].n > Base /\ sock'[k].rid = sock'[k].n - Base
    BY <1>1 DEF SessionInv, Cabled, Base
  <2>1. CASE k = nextId
    <3>1. cable.in
      BY DEF IInv, LinkInv
    <3> QED
      BY <1>1, <1>9, <1>11, <2>1, <3>1, FirstPacket
  <2>2. CASE k # nextId
    BY <1>11, <2>2 DEF IInv, SessionInv, Cabled
  <2> QED
    BY <2>1, <2>2
<1>21. ServedInv'
  <2>1. ASSUME NEW k \in Ids
        PROVE  /\ svc'[k].state \in {"none", "started"} => svc'[k].off = 0 /\ svc'[k].out = <<>>
               /\ svc'[k].state = "exiting" => svc'[k].off = Size
               /\ \A j \in 1..Len(svc'[k].out) : svc'[k].out[j] = "OKAY" => svc'[k].off = Size
    <3>1. CASE k = nextId
      <4>1. \A j \in 1..Len(<<>>) : FALSE
        BY EmptySeq
      <4> QED
        BY <1>13, <3>1, <4>1
    <3>2. CASE k # nextId
      BY <1>13, <3>2 DEF IInv, ServedInv
    <3> QED
      BY <3>1, <3>2
  <2>2. owner # 0 => owner \in Ids
    BY DEF IInv, TypeOK, Ids
  <2>3. owner # 0 => /\ owner < nextId' /\ sock'[owner] = sock[owner] /\ svc'[owner] = svc[owner]
                     /\ (~fouled => \A q \in 1..svc[owner].off : file[q] = sock[owner].n)
    BY <1>11, <1>13, <1>15, <2>2 DEF IInv, ServedInv
  <2>4. host.status = "OKAY" /\ host.id # 0 =>
          \E k \in Ids : k < nextId' /\ sock'[k].n = host.opened /\ svc'[k].off = Size
    BY <1>11, <1>13, <1>15 DEF IInv, ServedInv
  <2> QED
    BY <1>1, <2>1, <2>3, <2>4, ZenonT(30) DEF ServedInv
<1> QED
  BY <1>16, <1>17, <1>18, <1>19, <1>20, <1>21 DEF IInv

LEMMA HandleOpenStep ==
  ASSUME IInv, NEW t \in Transports, Handle(t), NEW p, p = Head(toDev[t]), p.cmd = "OPEN",
         HandleOpen(t, p)
  PROVE  IInv'
<1>1. online[t] /\ UNCHANGED online /\ t \in ready
  BY DEF HandleOpen, Handle
<1>2. CASE /\ Send(t, <<Packet("CLSE", 0, p.arg0, p.stream, <<>>)>>)
           /\ UNCHANGED <<sock, svc, nextId>>
  <2>1. online' \in [Transports -> BOOLEAN] /\ 0 \in 0..MaxStreams
    BY <1>1, Constants DEF IInv, TypeOK
  <2>2. SentWell
    BY <1>1, <1>2, <2>1, Reply
  <2> QED
    BY <1>1, <1>2, <2>1, <2>2, NoneWanes, NoneFed, HandleStep
<1>3. CASE /\ sock' = [sock EXCEPT ![nextId] =
                         [NoSocket EXCEPT !.state = "open", !.t = t, !.rid = p.arg0,
                                          !.n = p.stream, !.want = {"R"}]]
           /\ svc' = [svc EXCEPT ![nextId].state = "started"]
           /\ nextId' = nextId + 1
           /\ Send(t, <<Packet("OKAY", nextId, p.arg0, p.stream, <<>>)>>)
  BY <1>1, <1>3, OpenStep
<1> QED
  BY <1>2, <1>3 DEF HandleOpen

LEMMA PacketStep ==
  ASSUME IInv, NEW t \in Transports, Handle(t)
  PROVE  IInv'
<1> DEFINE p == Head(toDev[t])
<1>1. CASE p.cmd = "SYNC" /\ HandleSync(t)
  BY <1>1, SyncStep
<1>2. CASE p.cmd = "CNXN" /\ HandleConnect(t)
  BY <1>2, ConnectStep
<1>3. CASE p.cmd = "OPEN" /\ HandleOpen(t, p)
  BY <1>3, HandleOpenStep
<1>4. CASE p.cmd = "OKAY" /\ HandleOkay(t, p)
  BY <1>4, OkayStep
<1>5. CASE p.cmd = "CLSE" /\ HandleClose(t, p)
  BY <1>5, CloseStep
<1>6. CASE p.cmd = "WRTE" /\ HandleWrite(t, p)
  BY <1>6, WriteStep
<1>7. CASE p.cmd \notin {"SYNC", "CNXN"} /\ Ignore(t, p)
  BY <1>7, IgnoreStep
<1> QED
  BY <1>1, <1>2, <1>3, <1>4, <1>5, <1>6, <1>7 DEF Handle

\* fdevent_process collects what is ready.
LEMMA PollStep ==
  ASSUME IInv, Poll
  PROVE  IInv'
<1>1. /\ ready' = {t \in Transports : toDev[t] # <<>>}
      /\ sock' = [k \in Ids |-> [sock[k] EXCEPT !.pend = Readiness(k) \cap sock[k].want]]
      /\ UNCHANGED <<cable, online, toDev, toHost, nextId, svc, file, owner, fouled, alive, host>>
  BY DEF Poll
<1>2. toDev \in [Transports -> Seq(FromHost)] /\ online \in [Transports -> BOOLEAN]
  BY DEF IInv, TypeOK
<1>3. \A t \in Transports : Len(toDev[t]) \in Nat
  BY <1>2, LenProperties
<1> DEFINE d == [t \in Transports |-> 0]
<1>4. d \in [Transports -> {0, 1}] /\ \A t \in Transports : d[t] = 0
  OBVIOUS
<1> HIDE DEF d
<1>5. Shifted(d)
  BY <1>1, <1>2, <1>3, <1>4 DEF Shifted
<1>6. ASSUME NEW k \in Ids
      PROVE  /\ sock'[k] \in Socket /\ Wanes(sock[k], sock'[k])
             /\ k >= nextId => sock'[k] = sock[k]
             /\ sock'[k].state = "open" => online[sock'[k].t]
  <2> DEFINE e == Readiness(k) \cap sock[k].want
  <2>1. sock[k] \in Socket /\ Consistent(sock[k])
    BY Given
  <2>2. e \in SUBSET {"R", "W"}
    BY <2>1, Fields
  <2>3. sock'[k] = [sock[k] EXCEPT !.pend = e]
    BY <1>1
  <2>4. k >= nextId => sock'[k] = sock[k]
    <3> SUFFICES ASSUME k >= nextId PROVE sock'[k] = sock[k]
      OBVIOUS
    <3>1. sock[k] = NoSocket
      BY DEF IInv, SocketsInv
    <3>2. e = {}
      BY <3>1, NoSocketFields
    <3>3. [NoSocket EXCEPT !.pend = {}] = NoSocket
      BY DEF NoSocket
    <3> HIDE DEF e
    <3> QED
      BY <2>3, <3>1, <3>2, <3>3
  <2> HIDE DEF e
  <2>5. /\ sock'[k] \in Socket /\ sock'[k].state = sock[k].state /\ sock'[k].t = sock[k].t
        /\ sock'[k].rid = sock[k].rid /\ sock'[k].n = sock[k].n
        /\ sock'[k].backlog = sock[k].backlog /\ sock'[k].want = sock[k].want
    BY <2>1, <2>2, <2>3, Unpended
  <2>6. sock[k].state = "open" => online[sock[k].t]
    BY DEF IInv, SocketsInv
  <2> QED
    BY <2>1, <2>4, <2>5, <2>6 DEF Wanes, Consistent
<1>7. SocketsWane
  <2>1. sock' = [k \in Ids |-> sock'[k]]
    BY <1>1
  <2> QED
    BY <1>1, <1>6, <2>1 DEF SocketsWane
<1> QED
  BY <1>1, <1>2, <1>4, <1>5, <1>7, NoneFed, Silent, DeviceStep

-----------------------------------------------------------------------------
(* sideload_service                                                        *)

\* A step of a service thread, which never takes back what it has written.
LEMMA ThreadStep ==
  ASSUME IInv, NEW k \in Ids, k < nextId,
         UNCHANGED <<cable, online, toDev, toHost, ready, nextId, sock, alive, host>>,
         svc' = [svc EXCEPT ![k] = svc'[k]], svc'[k] \in Service, Len(svc'[k].in) <= Room,
         svc[k].off = Size => svc'[k].off = Size,
         svc'[k].state \notin {"none", "started"},
         svc'[k].state = "exiting" => svc'[k].off = Size,
         \A j \in 1..Len(svc'[k].out) : svc'[k].out[j] = "OKAY" => svc'[k].off = Size,
         file' \in [Units -> 0..MaxStreams], owner' \in 0..MaxStreams, fouled' \in BOOLEAN,
         owner' # 0 => /\ owner' < nextId
                       /\ ~fouled' => \A p \in 1..svc'[owner'].off : file'[p] = sock[owner'].n
  PROVE  IInv'
<1>1. svc \in [Ids -> Service]
  BY DEF IInv, TypeOK
<1>2. \A j \in Ids : j # k => svc'[j] = svc[j]
  BY <1>1
<1>3. svc' \in [Ids -> Service]
  BY <1>1
<1>4. ~(k >= nextId)
  BY Given
<1>5. \A j \in Ids : svc[j].off = Size => svc'[j].off = Size
  BY <1>2
<1>6. \A p : Truthful(p) => StillTruthful(p)
  BY <1>5 DEF Truthful, StillTruthful
<1>7. TypeOK'
  BY <1>3 DEF IInv, TypeOK
<1>8. LinkInv'
  BY DEF IInv, LinkInv
<1>9. SocketsInv'
  BY <1>2, <1>4 DEF IInv, SocketsInv
<1>10. OpensInv' /\ DevInv' /\ SessionInv'
  BY DEF IInv, OpensInv, DevInv, SessionInv, Base, Cabled
<1>11. HostInv'
  <2> SUFFICES ASSUME cable.in, NEW i \in 1..Len(toHost[cable.t])
               PROVE  /\ toHost[cable.t][i].cmd = "CNXN" =>
                           /\ host.asked /\ ~host.up /\ i = Len(toHost[cable.t])
                           /\ toDev[cable.t] = <<>> /\ \A j \in Ids : ~Cabled(j)
                      /\ host.up => /\ toHost[cable.t][i].stream > Base
                                    /\ toHost[cable.t][i].arg1 = toHost[cable.t][i].stream - Base
                      /\ toHost[cable.t][i].cmd = "WRTE" =>
                           toHost[cable.t][i].data # <<>> /\ StillTruthful(toHost[cable.t][i])
    BY DEF HostInv, Base, Cabled, Truthful, StillTruthful
  <2> QED
    BY <1>6 DEF IInv, HostInv
<1>12. ServedInv'
  <2>1. host.status = "OKAY" /\ host.id # 0 =>
          \E j \in Ids : j < nextId /\ sock[j].n = host.opened /\ svc'[j].off = Size
    BY <1>5 DEF IInv, ServedInv
  <2>2. \A j \in Ids :
          /\ svc'[j].state \in {"none", "started"} => svc'[j].off = 0 /\ svc'[j].out = <<>>
          /\ svc'[j].state = "exiting" => svc'[j].off = Size
          /\ \A m \in 1..Len(svc'[j].out) : svc'[j].out[m] = "OKAY" => svc'[j].off = Size
    BY <1>2 DEF IInv, ServedInv
  <2> QED
    BY <2>1, <2>2 DEF ServedInv
<1> QED
  BY <1>7, <1>8, <1>9, <1>10, <1>11, <1>12 DEF IInv

\* What a service thread that has been started holds.
LEMMA Threads ==
  ASSUME IInv, NEW k \in Ids, svc[k].state # "none"
  PROVE  /\ k < nextId /\ sock[k].n \in 1..MaxStreams /\ k \in 1..MaxStreams
         /\ svc \in [Ids -> Service] /\ svc[k] \in Service
         /\ svc[k].in \in Seq(Units) /\ svc[k].out \in Seq({"OKAY", "FAIL"}) /\ svc[k].off \in 0..Size
         /\ Len(svc[k].in) <= Room /\ Len(svc[k].in) \in Nat
         /\ \A j \in 1..Len(svc[k].out) : svc[k].out[j] = "OKAY" => svc[k].off = Size
         /\ file \in [Units -> 0..MaxStreams] /\ owner \in 0..MaxStreams /\ fouled \in BOOLEAN
         /\ owner # 0 => /\ owner \in Ids /\ owner < nextId
                         /\ ~fouled => \A p \in 1..svc[owner].off : file[p] = sock[owner].n
<1>1. k < nextId /\ Len(svc[k].in) <= Room
  BY Given
<1>2. /\ svc[k].in \in Seq(Units) /\ svc[k].out \in Seq({"OKAY", "FAIL"}) /\ svc[k].off \in 0..Size
      /\ svc[k] \in Service
  BY ServiceFields DEF IInv
<1>3. /\ svc \in [Ids -> Service] /\ file \in [Units -> 0..MaxStreams] /\ owner \in 0..MaxStreams
      /\ fouled \in BOOLEAN /\ host.opened \in 0..MaxStreams
  BY DEF IInv, TypeOK, Server
<1>4. sock[k].n \in 1..MaxStreams
  <2>1. sock[k].n \in 1..host.opened
    BY <1>1 DEF IInv, SocketsInv
  <2> QED
    BY <1>3, <2>1, Constants
<1>5. owner # 0 => owner \in Ids
  BY <1>3 DEF Ids
<1>6. Len(svc[k].in) \in Nat
  BY <1>2, LenProperties
<1>7. k \in 1..MaxStreams
  BY DEF Ids
<1> QED
  BY <1>1, <1>2, <1>3, <1>4, <1>5, <1>6, <1>7 DEF IInv, ServedInv

\* Steps of a thread that leave the file alone.
LEMMA ThreadAlone ==
  ASSUME IInv, NEW k \in Ids, svc[k].state # "none",
         UNCHANGED <<cable, online, toDev, toHost, ready, nextId, sock, alive, host>>,
         UNCHANGED <<file, owner, fouled>>,
         svc' = [svc EXCEPT ![k] = svc'[k]], svc'[k] \in Service, Len(svc'[k].in) <= Room,
         svc'[k].off = svc[k].off, svc'[k].state \notin {"none", "started"},
         svc'[k].state = "exiting" => svc[k].off = Size,
         \A j \in 1..Len(svc'[k].out) : svc'[k].out[j] = "OKAY" => svc[k].off = Size
  PROVE  IInv'
<1>1. /\ k < nextId /\ svc \in [Ids -> Service]
      /\ file \in [Units -> 0..MaxStreams] /\ owner \in 0..MaxStreams /\ fouled \in BOOLEAN
      /\ owner # 0 => /\ owner \in Ids /\ owner < nextId
                      /\ ~fouled => \A p \in 1..svc[owner].off : file[p] = sock[owner].n
  BY Threads
<1>2. \A j \in Ids : svc'[j].off = svc[j].off
  BY <1>1
<1>3. owner' # 0 => /\ owner' < nextId
                    /\ ~fouled' => \A p \in 1..svc'[owner'].off : file'[p] = sock[owner'].n
  BY <1>1, <1>2
<1> QED
  BY <1>1, <1>3, ThreadStep

LEMMA CreateStep ==
  ASSUME IInv, NEW k \in Ids, Create(k),
         UNCHANGED <<cable, online, toDev, toHost, ready, nextId, sock, alive, host>>
  PROVE  IInv'
<1>1. svc[k].state = "started"
  BY DEF Create
<1>2. /\ k < nextId /\ svc \in [Ids -> Service] /\ svc[k] \in Service /\ k \in 1..MaxStreams
      /\ svc[k].in \in Seq(Units) /\ svc[k].out \in Seq({"OKAY", "FAIL"}) /\ svc[k].off \in 0..Size
      /\ Len(svc[k].in) <= Room
      /\ \A j \in 1..Len(svc[k].out) : svc[k].out[j] = "OKAY" => svc[k].off = Size
  BY <1>1, Threads
<1>3. svc[k].off = 0
  BY <1>1 DEF IInv, ServedInv
<1>4. CASE /\ file' = [p \in 1..Size |-> 0] /\ owner' = k /\ fouled' = FALSE
           /\ svc' = [svc EXCEPT ![k].state = "reading"]
  <2>1. svc'[k] = [svc[k] EXCEPT !.state = "reading"] /\ svc' = [svc EXCEPT ![k] = svc'[k]]
    BY <1>2, <1>4
  <2>2. /\ svc'[k] \in Service /\ svc'[k].state = "reading" /\ svc'[k].off = svc[k].off
        /\ svc'[k].in = svc[k].in /\ svc'[k].out = svc[k].out
    BY <1>2, <2>1 DEF Service
  <2>3. file' \in [Units -> 0..MaxStreams]
    BY <1>4, Constants DEF Units
  <2>4. \A p \in 1..svc'[k].off : FALSE
    BY <1>3, <2>2
  <2>5. owner' # 0 => /\ owner' < nextId
                      /\ ~fouled' => \A p \in 1..svc'[owner'].off : file'[p] = sock[owner'].n
    BY <1>2, <1>4, <2>4
  <2>6. owner' \in 0..MaxStreams /\ fouled' \in BOOLEAN
    <3>1. k \in 0..MaxStreams
      BY <1>2
    <3> QED
      BY <1>4, <3>1
  <2>7. Len(svc'[k].in) <= Room /\ (svc[k].off = Size => svc'[k].off = Size)
    BY <1>2, <2>2
  <2>8. \A j \in 1..Len(svc'[k].out) : svc'[k].out[j] = "OKAY" => svc'[k].off = Size
    BY <1>2, <2>2
  <2>9. svc'[k].state \notin {"none", "started"} /\ svc'[k].state # "exiting"
    BY <2>2
  <2> QED
    BY <1>2, <2>1, <2>2, <2>3, <2>5, <2>6, <2>7, <2>8, <2>9, ThreadStep
<1>5. CASE /\ svc' = [svc EXCEPT ![k].state = "ended", ![k].in = <<>>]
           /\ UNCHANGED <<file, owner, fouled>>
  <2>1. /\ svc'[k] = [svc[k] EXCEPT !.state = "ended", !.in = <<>>]
        /\ svc' = [svc EXCEPT ![k] = svc'[k]]
    BY <1>2, <1>5
  <2>2. /\ svc'[k] \in Service /\ svc'[k].state = "ended" /\ svc'[k].off = svc[k].off
        /\ svc'[k].in = <<>> /\ svc'[k].out = svc[k].out
    <3>1. <<>> \in Seq(Units)
      BY EmptySeq
    <3> QED
      BY <1>2, <2>1, <3>1 DEF Service
  <2>3. Len(svc'[k].in) <= Room
    BY <2>2, EmptySeq, Constants
  <2>4. \A j \in 1..Len(svc'[k].out) : svc'[k].out[j] = "OKAY" => svc[k].off = Size
    BY <1>2, <2>2
  <2>5. svc'[k].state \notin {"none", "started"} /\ svc'[k].state # "exiting"
    BY <2>2
  <2> QED
    BY <1>1, <1>5, <2>1, <2>2, <2>3, <2>4, <2>5, ThreadAlone
<1> QED
  BY <1>4, <1>5 DEF Create

LEMMA ReceiveStep ==
  ASSUME IInv, NEW k \in Ids, Receive(k),
         UNCHANGED <<cable, online, toDev, toHost, ready, nextId, sock, alive, host>>
  PROVE  IInv'
<1>1. /\ svc[k].state = "reading" /\ svc[k].off < Size /\ svc[k].in # <<>>
      /\ file' = [file EXCEPT ![svc[k].off + 1] = sock[k].n]
      /\ fouled' = (fouled \/ owner # k)
      /\ svc' = [svc EXCEPT ![k].off = svc[k].off + 1, ![k].in = Tail(svc[k].in)]
      /\ UNCHANGED owner
  BY DEF Receive
<1>2. /\ k < nextId /\ svc \in [Ids -> Service] /\ svc[k] \in Service /\ k \in 1..MaxStreams
      /\ svc[k].in \in Seq(Units) /\ svc[k].out \in Seq({"OKAY", "FAIL"}) /\ svc[k].off \in 0..Size
      /\ Len(svc[k].in) <= Room /\ Len(svc[k].in) \in Nat /\ sock[k].n \in 1..MaxStreams
      /\ \A j \in 1..Len(svc[k].out) : svc[k].out[j] = "OKAY" => svc[k].off = Size
      /\ file \in [Units -> 0..MaxStreams] /\ owner \in 0..MaxStreams /\ fouled \in BOOLEAN
      /\ owner # 0 => /\ owner \in Ids /\ owner < nextId
                      /\ ~fouled => \A p \in 1..svc[owner].off : file[p] = sock[owner].n
  BY <1>1, Threads
<1>3. Tail(svc[k].in) \in Seq(Units) /\ Len(Tail(svc[k].in)) = Len(svc[k].in) - 1
  BY <1>1, <1>2, Taken
<1>4. svc[k].off + 1 \in 0..Size /\ svc[k].off + 1 \in Units /\ svc[k].off # Size
  <2>1. Size \in Nat /\ svc[k].off \in Nat
    BY <1>2, Constants
  <2> QED
    BY <1>1, <2>1 DEF Units
<1>5. /\ svc'[k] = [svc[k] EXCEPT !.off = svc[k].off + 1, !.in = Tail(svc[k].in)]
      /\ svc' = [svc EXCEPT ![k] = svc'[k]]
  BY <1>1, <1>2
<1>6. /\ svc'[k] \in Service /\ svc'[k].state = svc[k].state /\ svc'[k].off = svc[k].off + 1
      /\ svc'[k].in = Tail(svc[k].in) /\ svc'[k].out = svc[k].out
  BY <1>2, <1>3, <1>4, <1>5 DEF Service
<1>7. file' \in [Units -> 0..MaxStreams] /\ fouled' \in BOOLEAN
  <2>1. sock[k].n \in 0..MaxStreams
    BY <1>2
  <2>2. file' \in [Units -> 0..MaxStreams]
    BY <1>1, <1>2, <2>1
  <2> QED
    BY <1>1, <1>2, <2>2
<1>8. ASSUME owner # 0, ~fouled' PROVE \A p \in 1..svc'[owner].off : file'[p] = sock[owner].n
  <2>1. owner = k /\ ~fouled
    BY <1>1, <1>2, <1>8
  <2>2. ASSUME NEW p \in 1..svc[k].off + 1 PROVE file'[p] = sock[k].n
    <3>1. p \in Units
      BY <1>2, <1>4, Constants DEF Units
    <3>2. p = svc[k].off + 1 \/ p \in 1..svc[k].off
      BY <1>2
    <3> QED
      BY <1>1, <1>2, <1>4, <1>8, <2>1, <3>1, <3>2
  <2> QED
    BY <1>6, <2>1, <2>2
<1>9. Len(svc'[k].in) <= Room
  BY <1>2, <1>3, <1>6, Constants
<1>10. owner' # 0 => /\ owner' < nextId
                     /\ ~fouled' => \A p \in 1..svc'[owner'].off : file'[p] = sock[owner'].n
  BY <1>1, <1>2, <1>8
<1>11. \A j \in 1..Len(svc'[k].out) : svc'[k].out[j] = "OKAY" => svc'[k].off = Size
  BY <1>2, <1>4, <1>6
<1>12. svc'[k].state \notin {"none", "started"} /\ svc'[k].state # "exiting"
  BY <1>1, <1>6
<1>13. owner' \in 0..MaxStreams
  BY <1>1, <1>2
<1> QED
  BY <1>2, <1>4, <1>5, <1>6, <1>7, <1>9, <1>10, <1>11, <1>12, <1>13, ThreadStep

\* An answer is put behind what is there, and stays true.
LEMMA AnswerStep ==
  ASSUME IInv, NEW k \in Ids, NEW status \in {"OKAY", "FAIL"}, svc[k].state = "reading",
         Answer(k, status), status = "OKAY" => svc[k].off = Size,
         UNCHANGED <<cable, online, toDev, toHost, ready, nextId, sock, alive, host>>,
         UNCHANGED <<file, owner, fouled>>
  PROVE  IInv'
<1>1. /\ svc \in [Ids -> Service] /\ svc[k] \in Service /\ Len(svc[k].in) <= Room
      /\ svc[k].in \in Seq(Units) /\ svc[k].out \in Seq({"OKAY", "FAIL"}) /\ svc[k].off \in 0..Size
      /\ \A j \in 1..Len(svc[k].out) : svc[k].out[j] = "OKAY" => svc[k].off = Size
  BY Threads
<1> DEFINE out == IF MainClosed(k) THEN svc[k].out ELSE Append(svc[k].out, status)
<1>2. svc'[k] = [svc[k] EXCEPT !.state = "told", !.out = out] /\ svc' = [svc EXCEPT ![k] = svc'[k]]
  BY <1>1 DEF Answer
<1>3. /\ out \in Seq({"OKAY", "FAIL"})
      /\ \A j \in 1..Len(out) : out[j] = "OKAY" => svc[k].off = Size
  <2>1. CASE MainClosed(k)
    BY <1>1, <2>1
  <2>2. CASE ~MainClosed(k)
    <3>1. out = Append(svc[k].out, status)
      BY <2>2
    <3>2. /\ Append(svc[k].out, status) \in Seq({"OKAY", "FAIL"}) /\ Len(svc[k].out) \in Nat
          /\ Len(Append(svc[k].out, status)) = Len(svc[k].out) + 1
          /\ \A j \in 1..Len(Append(svc[k].out, status)) :
               Append(svc[k].out, status)[j] = IF j <= Len(svc[k].out) THEN svc[k].out[j] ELSE status
      BY <1>1, Added
    <3> HIDE DEF out
    <3>3. ASSUME NEW j \in 1..Len(out), out[j] = "OKAY" PROVE svc[k].off = Size
      <4>1. j <= Len(svc[k].out) => j \in 1..Len(svc[k].out)
        BY <3>1, <3>2
      <4> QED
        BY <1>1, <3>1, <3>2, <3>3, <4>1
    <3> QED
      BY <3>1, <3>2, <3>3
  <2> QED
    BY <2>1, <2>2
<1> HIDE DEF out
<1>4. /\ svc'[k] \in Service /\ svc'[k].state = "told" /\ svc'[k].off = svc[k].off
      /\ svc'[k].in = svc[k].in /\ svc'[k].out = out
  BY <1>1, <1>2, <1>3 DEF Service
<1>5. Len(svc'[k].in) <= Room
  BY <1>1, <1>4
<1>6. \A j \in 1..Len(svc'[k].out) : svc'[k].out[j] = "OKAY" => svc[k].off = Size
  BY <1>3, <1>4
<1>7. svc'[k].state \notin {"none", "started"} /\ svc'[k].state # "exiting"
  BY <1>4
<1> QED
  BY <1>2, <1>4, <1>5, <1>6, <1>7, ThreadAlone

LEMMA HangUpStep ==
  ASSUME IInv, NEW k \in Ids, HangUp(k),
         UNCHANGED <<cable, online, toDev, toHost, ready, nextId, sock, alive, host>>
  PROVE  IInv'
<1> DEFINE state == IF svc[k].off = Size THEN "exiting" ELSE "ended"
<1>1. /\ svc[k].state = "told" /\ UNCHANGED <<file, owner, fouled>>
      /\ svc' = [svc EXCEPT ![k].state = state, ![k].in = <<>>]
  BY DEF HangUp
<1>2. /\ svc \in [Ids -> Service] /\ svc[k] \in Service
      /\ svc[k].out \in Seq({"OKAY", "FAIL"}) /\ svc[k].off \in 0..Size
      /\ \A j \in 1..Len(svc[k].out) : svc[k].out[j] = "OKAY" => svc[k].off = Size
  BY <1>1, Threads
<1>3. state \in {"exiting", "ended"} /\ (state = "exiting" => svc[k].off = Size)
  OBVIOUS
<1> HIDE DEF state
<1>4. svc'[k] = [svc[k] EXCEPT !.state = state, !.in = <<>>] /\ svc' = [svc EXCEPT ![k] = svc'[k]]
  BY <1>1, <1>2
<1>5. /\ svc'[k] \in Service /\ svc'[k].state = state /\ svc'[k].off = svc[k].off
      /\ svc'[k].in = <<>> /\ svc'[k].out = svc[k].out
  <2>1. <<>> \in Seq(Units)
    BY EmptySeq
  <2> QED
    BY <1>2, <1>3, <1>4, <2>1 DEF Service
<1>6. Len(svc'[k].in) <= Room
  BY <1>5, EmptySeq, Constants
<1>7. \A j \in 1..Len(svc'[k].out) : svc'[k].out[j] = "OKAY" => svc[k].off = Size
  BY <1>2, <1>5
<1>8. svc'[k].state \notin {"none", "started"} /\ (svc'[k].state = "exiting" => svc[k].off = Size)
  BY <1>3, <1>5
<1>9. svc[k].state # "none"
  BY <1>1
<1> QED
  BY <1>1, <1>4, <1>5, <1>6, <1>7, <1>8, <1>9, ThreadAlone

LEMMA ServiceSteps ==
  ASSUME IInv, NEW k \in Ids, ServiceStep(k) \/ Exit(k)
  PROVE  IInv'
<1>1. CASE ServiceStep(k)
  <2>1. UNCHANGED <<cable, online, toDev, toHost, ready, nextId, sock, alive, host>>
    BY <1>1 DEF ServiceStep
  <2>2. CASE Create(k)
    BY <2>1, <2>2, CreateStep
  <2>3. CASE Receive(k)
    BY <2>1, <2>3, ReceiveStep
  <2>4. CASE GiveUp(k)
    <3>1. svc[k].state = "reading" /\ Answer(k, "FAIL") /\ UNCHANGED <<file, owner, fouled>>
      BY <2>4 DEF GiveUp
    <3> QED
      BY <2>1, <3>1, AnswerStep
  <2>5. CASE Succeed(k)
    <3>1. /\ svc[k].state = "reading" /\ svc[k].off = Size /\ Answer(k, "OKAY")
          /\ UNCHANGED <<file, owner, fouled>>
      BY <2>5 DEF Succeed
    <3> QED
      BY <2>1, <3>1, AnswerStep
  <2>6. CASE HangUp(k)
    BY <2>1, <2>6, HangUpStep
  <2> QED
    BY <1>1, <2>2, <2>3, <2>4, <2>5, <2>6 DEF ServiceStep
<1>2. CASE Exit(k)
  <2>1. /\ alive' = FALSE
        /\ UNCHANGED <<cable, online, toDev, toHost, ready, nextId, sock, svc, file, owner,
                       fouled, host>>
    BY <1>2 DEF Exit
  <2>2. TypeOK'
    BY <2>1 DEF IInv, TypeOK
  <2> QED
    BY <2>1, <2>2 DEF IInv, LinkInv, SocketsInv, OpensInv, DevInv, HostInv, SessionInv,
                      ServedInv, Truthful, Cabled, Base
<1> QED
  BY <1>1, <1>2

-----------------------------------------------------------------------------
(* The host and the cable                                                  *)

LEMMA ServerFields ==
  ASSUME IInv
  PROVE  /\ host \in Server /\ host.up \in BOOLEAN /\ host.asked \in BOOLEAN
         /\ host.restarts \in 0..MaxSessions /\ host.opened \in 0..MaxStreams
         /\ host.lastId \in 0..MaxStreams /\ host.id \in 0..MaxStreams /\ host.rid \in 0..MaxStreams
         /\ host.sent \in 0..Size /\ host.credit \in BOOLEAN
         /\ host.status \in {"none", "OKAY", "FAIL"}
         /\ host.opened \in Int /\ host.lastId \in Int /\ Base \in Int /\ Base >= 0
         /\ cable.t \in Transports /\ cable.in \in BOOLEAN
         /\ cable = [t |-> cable.t, in |-> cable.in]
         /\ toDev \in [Transports -> Seq(FromHost)] /\ toHost \in [Transports -> Seq(ToHost)]
<1>1. host \in Server /\ cable \in [t : Transports, in : BOOLEAN]
  BY DEF IInv, TypeOK
<1>2. /\ host.up \in BOOLEAN /\ host.asked \in BOOLEAN
      /\ host.restarts \in 0..MaxSessions /\ host.opened \in 0..MaxStreams
      /\ host.lastId \in 0..MaxStreams /\ host.id \in 0..MaxStreams /\ host.rid \in 0..MaxStreams
      /\ host.sent \in 0..Size /\ host.credit \in BOOLEAN
      /\ host.status \in {"none", "OKAY", "FAIL"}
  BY <1>1 DEF Server
<1>3. host.lastId <= host.opened
  BY DEF IInv, LinkInv
<1>4. Base \in Int /\ Base >= 0
  BY <1>2, <1>3 DEF Base
<1> QED
  BY <1>1, <1>2, <1>4 DEF IInv, TypeOK

\* What the host must look like for the parts of the invariant that are about
\* sockets and services to hold on.
LEMMA HostFrame ==
  ASSUME IInv, UnchangedDevice,
         cable' \in [t : Transports, in : BOOLEAN], toDev' \in [Transports -> Seq(FromHost)],
         toHost' \in [Transports -> Seq(ToHost)], host' \in Server, host.opened <= host'.opened,
         host'.status = "OKAY" /\ host'.id # 0 =>
           \E k \in Ids : k < nextId /\ sock[k].n = host'.opened /\ svc[k].off = Size
  PROVE  TypeOK' /\ SocketsInv' /\ ServedInv'
<1>1. UNCHANGED <<online, ready, nextId, sock, svc, file, owner, fouled, alive>>
  BY DEF UnchangedDevice
<1>2. TypeOK'
  BY <1>1 DEF IInv, TypeOK
<1>3. ASSUME NEW k \in Ids, k < nextId PROVE sock[k].n \in 1..host'.opened
  <2>1. sock[k].n \in 1..host.opened
    BY <1>3 DEF IInv, SocketsInv
  <2>2. host.opened \in Int /\ host'.opened \in Int
    BY ServerFields DEF Server
  <2> QED
    BY <2>1, <2>2
<1>4. SocketsInv'
  BY <1>1, <1>3 DEF IInv, SocketsInv
<1>5. ServedInv'
  BY <1>1 DEF IInv, ServedInv
<1> QED
  BY <1>2, <1>4, <1>5

\* The host says something, or nothing.
LEMMA Utterance ==
  ASSUME IInv, cable.in, NEW p \in FromHost, HostSends(p)
  PROVE  /\ toDev' \in [Transports -> Seq(FromHost)]
         /\ \A t \in Transports : t # cable.t => toDev'[t] = toDev[t]
         /\ toDev'[cable.t] # <<>> /\ Len(toDev[cable.t]) \in Nat
         /\ Len(toDev'[cable.t]) = Len(toDev[cable.t]) + 1
         /\ \A i \in 1..Len(toDev'[cable.t]) :
              toDev'[cable.t][i] = IF i <= Len(toDev[cable.t]) THEN toDev[cable.t][i] ELSE p
         /\ \A t \in ready : toDev'[t] # <<>>
         /\ \A t \in Transports : t > cable.t => toDev'[t] = <<>>
<1>1. toDev \in [Transports -> Seq(FromHost)] /\ cable.t \in Transports
  BY ServerFields
<1>2. toDev' = [toDev EXCEPT ![cable.t] = Append(@, p)]
  BY DEF HostSends
<1>3. toDev'[cable.t] = Append(toDev[cable.t], p) /\ toDev[cable.t] \in Seq(FromHost)
  BY <1>1, <1>2
<1>4. /\ toDev'[cable.t] \in Seq(FromHost) /\ toDev'[cable.t] # <<>> /\ Len(toDev[cable.t]) \in Nat
      /\ Len(toDev'[cable.t]) = Len(toDev[cable.t]) + 1
      /\ \A i \in 1..Len(toDev'[cable.t]) :
           toDev'[cable.t][i] = IF i <= Len(toDev[cable.t]) THEN toDev[cable.t][i] ELSE p
  BY <1>3, Added
<1>5. \A t \in Transports : t # cable.t => toDev'[t] = toDev[t]
  BY <1>1, <1>2
<1>6. toDev' \in [Transports -> Seq(FromHost)]
  BY <1>1, <1>2, <1>3, <1>4
<1>7. \A t \in Transports : t > cable.t => t # cable.t
  BY <1>1, Constants
<1>8. \A t \in Transports : t > cable.t => toDev'[t] = <<>>
  BY <1>5, <1>7 DEF IInv, LinkInv
<1>9. \A t \in ready : toDev'[t] # <<>>
  BY <1>4, <1>5 DEF IInv, LinkInv, TypeOK
<1> QED
  BY <1>4, <1>5, <1>6, <1>8, <1>9

\* A packet that opens a stream opens a new one.
LEMMA OpensKeep ==
  ASSUME IInv, UnchangedDevice, cable.in, NEW p \in FromHost, HostSends(p), host' \in Server,
         host.opened <= host'.opened,
         p.cmd = "OPEN" => p.stream = host.opened + 1 /\ host'.opened = host.opened + 1
  PROVE  OpensInv'
<1>1. /\ \A t \in Transports : t # cable.t => toDev'[t] = toDev[t]
      /\ Len(toDev[cable.t]) \in Nat /\ Len(toDev'[cable.t]) = Len(toDev[cable.t]) + 1
      /\ \A i \in 1..Len(toDev'[cable.t]) :
           toDev'[cable.t][i] = IF i <= Len(toDev[cable.t]) THEN toDev[cable.t][i] ELSE p
  BY Utterance
<1>2. host.opened \in Int /\ host'.opened \in Int /\ host.opened >= 0
  BY ServerFields DEF Server
<1>3. UNCHANGED <<nextId, sock>>
  BY DEF UnchangedDevice
<1> DEFINE New(t, i) == t = cable.t /\ i = Len(toDev[t]) + 1
<1>4. ASSUME NEW t \in Transports, NEW i \in 1..Len(toDev'[t]), ~New(t, i)
      PROVE  i \in 1..Len(toDev[t]) /\ toDev'[t][i] = toDev[t][i]
  <2>1. CASE t = cable.t
    <3>1. i \in Nat /\ i <= Len(toDev[t]) + 1 /\ i # Len(toDev[t]) + 1 /\ i >= 1
      BY <1>1, <1>4, <2>1
    <3>2. i <= Len(toDev[t]) /\ i \in 1..Len(toDev[t])
      BY <1>1, <2>1, <3>1
    <3> QED
      BY <1>1, <2>1, <3>2
  <2>2. CASE t # cable.t
    BY <1>1, <2>2
  <2> QED
    BY <2>1, <2>2
<1>5. ASSUME NEW t \in Transports, NEW i \in 1..Len(toDev'[t]), New(t, i)
      PROVE  toDev'[t][i] = p
  <2>1. ~(i <= Len(toDev[cable.t])) /\ t = cable.t
    BY <1>1, <1>5
  <2> QED
    BY <1>1, <2>1
<1>6. ASSUME NEW t \in Transports, NEW i \in 1..Len(toDev[t]), toDev[t][i].cmd = "OPEN"
      PROVE  toDev[t][i].stream \in 1..host.opened /\ toDev[t][i].stream # host.opened + 1
  <2>1. toDev[t][i].stream \in 1..host.opened
    BY <1>6 DEF IInv, OpensInv
  <2> QED
    BY <1>2, <2>1
<1> HIDE DEF New
<1> SUFFICES ASSUME NEW t \in Transports, NEW i \in 1..Len(toDev'[t]), toDev'[t][i].cmd = "OPEN"
             PROVE  /\ toDev'[t][i].stream \in 1..host'.opened
                    /\ \A k \in Ids : k < nextId => sock[k].n # toDev'[t][i].stream
                    /\ \A u \in Transports : \A j \in 1..Len(toDev'[u]) :
                         toDev'[u][j].cmd = "OPEN" /\ toDev'[u][j].stream = toDev'[t][i].stream
                         => u = t /\ j = i
  BY <1>3 DEF OpensInv
<1>7. CASE New(t, i)
  <2>1. /\ toDev'[t][i] = p /\ p.stream = host.opened + 1 /\ host'.opened = host.opened + 1
        /\ t = cable.t /\ i = Len(toDev[t]) + 1
    BY <1>5, <1>7 DEF New
  <2>2. \A k \in Ids : k < nextId => sock[k].n # p.stream
    <3>1. \A k \in Ids : k < nextId => sock[k].n \in 1..host.opened
      BY DEF IInv, SocketsInv
    <3> QED
      BY <1>2, <2>1, <3>1
  <2>3. ASSUME NEW u \in Transports, NEW j \in 1..Len(toDev'[u]), toDev'[u][j].cmd = "OPEN",
               toDev'[u][j].stream = p.stream
        PROVE  u = t /\ j = i
    <3>1. New(u, j)
      BY <1>4, <1>6, <2>1, <2>3
    <3> QED
      BY <2>1, <3>1 DEF New
  <2> QED
    BY <1>2, <2>1, <2>2, <2>3
<1>8. CASE ~New(t, i)
  <2>1. i \in 1..Len(toDev[t]) /\ toDev'[t][i] = toDev[t][i]
    BY <1>4, <1>8
  <2>2. /\ toDev[t][i].stream \in 1..host.opened /\ toDev[t][i].stream # host.opened + 1
        /\ \A k \in Ids : k < nextId => sock[k].n # toDev[t][i].stream
    BY <1>6, <2>1 DEF IInv, OpensInv
  <2>3. ASSUME NEW u \in Transports, NEW j \in 1..Len(toDev'[u]), toDev'[u][j].cmd = "OPEN",
               toDev'[u][j].stream = toDev[t][i].stream
        PROVE  u = t /\ j = i
    <3>1. ~New(u, j)
      BY <1>5, <2>2, <2>3
    <3>2. j \in 1..Len(toDev[u]) /\ toDev'[u][j] = toDev[u][j]
      BY <1>4, <3>1
    <3> QED
      BY <2>1, <2>3, <3>2 DEF IInv, OpensInv
  <2>4. toDev[t][i].stream \in 1..host'.opened
    BY <1>2, <2>2
  <2> QED
    BY <2>1, <2>2, <2>3, <2>4
<1> QED
  BY <1>7, <1>8

\* The host reads the first e packets that it is sent: one or none.
Hears(e) ==
  /\ toHost' \in [Transports -> Seq(ToHost)]
  /\ \A t \in Transports : t > cable.t => toHost'[t] = <<>>
  /\ Len(toHost'[cable.t]) = Len(toHost[cable.t]) - e /\ Len(toHost[cable.t]) \in Nat
  /\ \A i \in 1..Len(toHost'[cable.t]) :
       i + e \in 1..Len(toHost[cable.t]) /\ toHost'[cable.t][i] = toHost[cable.t][i + e]

LEMMA NothingHeard ==
  ASSUME IInv, UNCHANGED toHost
  PROVE  Hears(0)
<1>1. toHost \in [Transports -> Seq(ToHost)] /\ cable.t \in Transports
  BY ServerFields
<1>2. Len(toHost[cable.t]) \in Nat
  BY <1>1, LenProperties
<1>3. \A t \in Transports : t > cable.t => toHost[t] = <<>>
  BY DEF IInv, LinkInv
<1> QED
  BY <1>1, <1>2, <1>3 DEF Hears

LEMMA OneHeard ==
  ASSUME IInv, toHost[cable.t] # <<>>, toHost' = [toHost EXCEPT ![cable.t] = Tail(@)]
  PROVE  /\ Hears(1) /\ Head(toHost[cable.t]) = toHost[cable.t][1] /\ 1 \in 1..Len(toHost[cable.t])
         /\ toHost[cable.t][1] \in ToHost
<1>1. toHost \in [Transports -> Seq(ToHost)] /\ cable.t \in Transports
  BY ServerFields
<1>2. toHost'[cable.t] = Tail(toHost[cable.t]) /\ toHost[cable.t] \in Seq(ToHost)
  BY <1>1
<1>3. /\ Len(toHost[cable.t]) \in Nat \ {0} /\ Head(toHost[cable.t]) = toHost[cable.t][1]
      /\ toHost[cable.t][1] \in ToHost
      /\ toHost'[cable.t] \in Seq(ToHost) /\ Len(toHost'[cable.t]) = Len(toHost[cable.t]) - 1
      /\ \A i \in 1..Len(toHost'[cable.t]) :
           i + 1 \in 1..Len(toHost[cable.t]) /\ toHost'[cable.t][i] = toHost[cable.t][i + 1]
  <2> DEFINE s == toHost[cable.t]
  <2>1. s \in Seq(ToHost) /\ s # <<>>
    BY <1>2
  <2> HIDE DEF s
  <2>2. /\ Len(s) \in Nat \ {0} /\ Head(s) = s[1] /\ s[1] \in ToHost
        /\ Tail(s) \in Seq(ToHost) /\ Len(Tail(s)) = Len(s) - 1
        /\ \A i \in 1..Len(Tail(s)) : i + 1 \in 1..Len(s) /\ Tail(s)[i] = s[i + 1]
    BY <2>1, Taken
  <2> QED
    BY <1>2, <2>2 DEF s
<1>4. \A t \in Transports : t > cable.t => t # cable.t
  BY <1>1, Constants
<1>5. \A t \in Transports : t > cable.t => toHost'[t] = <<>>
  BY <1>1, <1>4 DEF IInv, LinkInv
<1>6. toHost' \in [Transports -> Seq(ToHost)]
  BY <1>1, <1>2, <1>3
<1> QED
  BY <1>3, <1>5, <1>6 DEF Hears

\* What the host may say or do as the server it is.
Own(p) ==
  /\ p.cmd # "CNXN" /\ p.stream = host'.opened /\ p.arg0 = p.stream - Base /\ p.stream > Base
  /\ p.cmd = "OPEN" => p.stream = host.opened + 1

LEMMA HostUp ==
  ASSUME IInv, UnchangedDevice, UNCHANGED cable, cable.in, host.up, NEW e \in {0, 1}, Hears(e),
         host' \in Server, host'.up, host'.asked, host'.opened - host'.lastId = Base,
         host.opened <= host'.opened, host'.id # 0 => host'.id = host'.lastId,
         host'.rid # 0 \/ host'.credit => host'.id # 0,
         host'.status = "OKAY" /\ host'.id # 0 =>
           \E k \in Ids : k < nextId /\ sock[k].n = host'.opened /\ svc[k].off = Size,
         UNCHANGED toDev \/ \E p \in FromHost : Own(p) /\ HostSends(p)
  PROVE  IInv'
<1>1. /\ cable \in [t : Transports, in : BOOLEAN] /\ cable.t \in Transports /\ Base \in Int
      /\ Base >= 0 /\ toDev \in [Transports -> Seq(FromHost)]
  BY ServerFields DEF IInv, TypeOK
<1>2. Len(toDev[cable.t]) \in Nat
  BY <1>1, LenProperties
<1>3. UNCHANGED <<online, ready, nextId, sock, svc>>
  BY DEF UnchangedDevice
<1>4. Base' = Base
  BY DEF Base
<1>5. /\ \A i \in 1..Len(toDev[cable.t]) :
           /\ toDev[cable.t][i].cmd # "CNXN" /\ toDev[cable.t][i].stream > Base
           /\ toDev[cable.t][i].arg0 = toDev[cable.t][i].stream - Base
      /\ \A i \in 1..Len(toHost[cable.t]) :
           /\ toHost[cable.t][i].cmd # "CNXN" /\ toHost[cable.t][i].stream > Base
           /\ toHost[cable.t][i].arg1 = toHost[cable.t][i].stream - Base
           /\ toHost[cable.t][i].cmd = "WRTE" =>
                toHost[cable.t][i].data # <<>> /\ Truthful(toHost[cable.t][i])
  BY DEF IInv, DevInv, HostInv
<1>6. /\ toDev' \in [Transports -> Seq(FromHost)]
      /\ \A t \in ready : toDev'[t] # <<>>
      /\ \A t \in Transports : t > cable.t => toDev'[t] = <<>>
      /\ \A i \in 1..Len(toDev'[cable.t]) :
           /\ toDev'[cable.t][i].cmd # "CNXN" /\ toDev'[cable.t][i].stream > Base
           /\ toDev'[cable.t][i].arg0 = toDev'[cable.t][i].stream - Base
      /\ OpensInv'
  <2>1. CASE UNCHANGED toDev
    <3>1. OpensInv'
      <4>1. host.opened \in Int /\ host'.opened \in Int
        BY ServerFields DEF Server
      <4>2. \A n \in 1..host.opened : n \in 1..host'.opened
        BY <4>1
      <4> QED
        BY <1>3, <2>1, <4>2 DEF IInv, OpensInv
    <3> QED
      BY <1>1, <1>5, <2>1, <3>1 DEF IInv, LinkInv
  <2>2. CASE \E p \in FromHost : Own(p) /\ HostSends(p)
    <3>1. PICK p \in FromHost : Own(p) /\ HostSends(p)
      BY <2>2
    <3>2. /\ toDev' \in [Transports -> Seq(FromHost)]
          /\ Len(toDev'[cable.t]) = Len(toDev[cable.t]) + 1
          /\ \A i \in 1..Len(toDev'[cable.t]) :
               toDev'[cable.t][i] = IF i <= Len(toDev[cable.t]) THEN toDev[cable.t][i] ELSE p
          /\ \A t \in ready : toDev'[t] # <<>>
          /\ \A t \in Transports : t > cable.t => toDev'[t] = <<>>
      BY <3>1, Utterance
    <3>3. OpensInv'
      <4>1. p.cmd = "OPEN" => p.stream = host.opened + 1 /\ host'.opened = host.opened + 1
        BY <3>1 DEF Own
      <4> QED
        BY <3>1, <4>1, OpensKeep
    <3>4. ASSUME NEW i \in 1..Len(toDev'[cable.t])
          PROVE  /\ toDev'[cable.t][i].cmd # "CNXN" /\ toDev'[cable.t][i].stream > Base
                 /\ toDev'[cable.t][i].arg0 = toDev'[cable.t][i].stream - Base
      <4>1. CASE i <= Len(toDev[cable.t])
        <5>1. i \in 1..Len(toDev[cable.t]) /\ toDev'[cable.t][i] = toDev[cable.t][i]
          BY <1>2, <3>2, <4>1
        <5> QED
          BY <1>5, <5>1
      <4>2. CASE ~(i <= Len(toDev[cable.t]))
        <5>1. toDev'[cable.t][i] = p
          BY <3>2, <4>2
        <5> QED
          BY <3>1, <5>1 DEF Own
      <4> QED
        BY <4>1, <4>2
    <3> QED
      BY <3>2, <3>3, <3>4
  <2> QED
    BY <2>1, <2>2
<1>7. /\ toHost' \in [Transports -> Seq(ToHost)]
      /\ \A t \in Transports : t > cable.t => toHost'[t] = <<>>
      /\ \A i \in 1..Len(toHost'[cable.t]) :
           i + e \in 1..Len(toHost[cable.t]) /\ toHost'[cable.t][i] = toHost[cable.t][i + e]
  BY DEF Hears
<1>8. TypeOK' /\ SocketsInv' /\ ServedInv'
  BY <1>1, <1>6, <1>7, HostFrame
<1>9. LinkInv'
  <2>1. host'.lastId <= host'.opened
    <3>1. host'.lastId \in Int /\ host'.opened \in Int
      BY DEF Server
    <3> QED
      BY <1>1, <3>1
  <2> QED
    BY <1>3, <1>6, <1>7, <2>1 DEF LinkInv
<1>10. DevInv'
  BY <1>4, <1>6 DEF DevInv
<1>11. HostInv'
  <2> SUFFICES ASSUME NEW i \in 1..Len(toHost'[cable.t])
               PROVE  /\ toHost'[cable.t][i].cmd # "CNXN" /\ toHost'[cable.t][i].stream > Base
                      /\ toHost'[cable.t][i].arg1 = toHost'[cable.t][i].stream - Base
                      /\ toHost'[cable.t][i].cmd = "WRTE" =>
                           toHost'[cable.t][i].data # <<>> /\ Truthful(toHost'[cable.t][i])
    BY <1>3, <1>4 DEF HostInv, Truthful
  <2>1. i + e \in 1..Len(toHost[cable.t]) /\ toHost'[cable.t][i] = toHost[cable.t][i + e]
    BY <1>7
  <2> DEFINE m == i + e
  <2>2. m \in 1..Len(toHost[cable.t]) /\ toHost'[cable.t][i] = toHost[cable.t][m]
    BY <2>1
  <2> HIDE DEF m
  <2> QED
    BY <1>5, <2>2
<1>12. SessionInv'
  BY <1>3, <1>4 DEF IInv, SessionInv, Cabled
<1> QED
  BY <1>6, <1>8, <1>9, <1>10, <1>11, <1>12 DEF IInv

LEMMA HostOpenStep ==
  ASSUME IInv, UnchangedDevice, HostOpen
  PROVE  IInv'
<1>1. /\ cable.in /\ host.up /\ host.id = 0 /\ host.opened < MaxStreams
      /\ host' = [host EXCEPT !.opened = host.opened + 1, !.lastId = host.lastId + 1,
                              !.id = host.lastId + 1, !.status = "none"]
      /\ HostSends(Packet("OPEN", host.lastId + 1, 0, host.opened + 1, <<>>))
      /\ UNCHANGED <<cable, toHost>>
  BY DEF HostOpen
<1>2. /\ host \in Server /\ host.opened \in 0..MaxStreams /\ host.lastId \in 0..MaxStreams
      /\ Base \in Int /\ Base >= 0
  BY ServerFields
<1>3. MaxStreams \in Nat /\ host.lastId <= host.opened /\ host.asked
  BY <1>1, Constants DEF IInv, LinkInv
<1>4. /\ host.opened + 1 \in 0..MaxStreams /\ host.lastId + 1 \in 0..MaxStreams
      /\ host.lastId + 1 # 0
  BY <1>1, <1>2, <1>3
<1>5. /\ host' \in Server /\ host'.up = host.up /\ host'.asked = host.asked
      /\ host'.opened = host.opened + 1 /\ host'.lastId = host.lastId + 1
      /\ host'.id = host.lastId + 1 /\ host'.rid = host.rid /\ host'.credit = host.credit
      /\ host'.status = "none"
  BY <1>1, <1>2, <1>4 DEF Server
<1> DEFINE p == Packet("OPEN", host.lastId + 1, 0, host.opened + 1, <<>>)
<1>6. p \in FromHost
  <2>1. <<>> \in Seq(Units) /\ 0 \in 0..MaxStreams
    BY <1>3, EmptySeq
  <2> QED
    BY <1>4, <2>1, Packets
<1>7. /\ p.cmd = "OPEN" /\ p.stream = host.opened + 1 /\ p.arg0 = host.lastId + 1
  BY Packets
<1> HIDE DEF p
<1>8. host.opened + 1 - (host.lastId + 1) = Base
  BY <1>2 DEF Base
<1>9. host.lastId + 1 = host.opened + 1 - Base /\ host.opened + 1 > Base
  BY <1>2 DEF Base
<1>10. Own(p)
  <2>1. p.arg0 = p.stream - Base /\ p.stream > Base
    BY <1>2, <1>3, <1>7, <1>9
  <2>2. p.cmd # "CNXN" /\ p.stream = host'.opened /\ p.stream = host.opened + 1
    BY <1>5, <1>7
  <2> QED
    BY <2>1, <2>2 DEF Own
<1>11. \E q \in FromHost : Own(q) /\ HostSends(q)
  BY <1>1, <1>6, <1>10 DEF p
<1>12. host'.opened - host'.lastId = Base /\ host.opened <= host'.opened
  BY <1>2, <1>5, <1>8
<1>13. host'.id = host'.lastId /\ host'.id # 0
  BY <1>4, <1>5
<1>14. Hears(0)
  BY <1>1, NothingHeard
<1>15. host'.status # "OKAY" /\ host'.up /\ host'.asked
  BY <1>1, <1>3, <1>5
<1>16. cable.in /\ host.up /\ UNCHANGED cable
  BY <1>1
<1>17. 0 \in {0, 1}
  OBVIOUS
<1> QED
  BY <1>5, <1>11, <1>12, <1>13, <1>14, <1>15, <1>16, <1>17, HostUp

\* The packets of a stream that the host has open.
LEMMA OwnPackets ==
  ASSUME IInv, host.id # 0, host'.opened = host.opened, NEW c \in {"OKAY", "CLSE", "WRTE"},
         NEW d \in Seq(Units)
  PROVE  /\ Packet(c, host.id, host.rid, host.opened, d) \in FromHost
         /\ Own(Packet(c, host.id, host.rid, host.opened, d))
<1>1. /\ host.opened \in 0..MaxStreams /\ host.lastId \in 0..MaxStreams
      /\ host.id \in 0..MaxStreams /\ host.rid \in 0..MaxStreams
  BY ServerFields
<1>2. host.id = host.lastId
  BY DEF IInv, LinkInv
<1> DEFINE p == Packet(c, host.id, host.rid, host.opened, d)
<1>3. c \in {"SYNC", "CNXN", "OPEN", "OKAY", "CLSE", "WRTE"}
  OBVIOUS
<1>4. p \in FromHost
  BY <1>1, <1>3, Packets
<1>5. p.cmd = c /\ p.stream = host.opened /\ p.arg0 = host.id
  BY Packets
<1>6. host.id = host.opened - Base /\ host.opened > Base
  BY <1>1, <1>2 DEF Base
<1> HIDE DEF p
<1>7. Own(p)
  BY <1>5, <1>6 DEF Own
<1> QED
  BY <1>4, <1>7 DEF p

LEMMA HostSendStep ==
  ASSUME IInv, UnchangedDevice, HostSend
  PROVE  IInv'
<1> DEFINE upto == IF host.sent + Payload <= Size THEN host.sent + Payload ELSE Size
           data == [i \in 1..(upto - host.sent) |-> host.sent + i]
<1>1. /\ cable.in /\ host.credit /\ host.sent < Size
      /\ host' = [host EXCEPT !.sent = upto, !.credit = FALSE]
      /\ HostSends(Packet("WRTE", host.id, host.rid, host.opened, data))
      /\ UNCHANGED <<cable, toHost>>
  BY DEF HostSend
<1>2. host \in Server /\ host.sent \in 0..Size /\ Size \in Nat /\ Payload \in Nat /\ Payload > 0
  BY ServerFields, Constants
<1>3. upto \in 0..Size /\ upto > host.sent
  BY <1>1, <1>2
<1> HIDE DEF upto
<1>4. data \in Seq(Units)
  <2>1. upto - host.sent \in Nat
    BY <1>2, <1>3
  <2>2. \A i \in 1..(upto - host.sent) : host.sent + i \in Units
    BY <1>2, <1>3 DEF Units
  <2>3. data \in [1..(upto - host.sent) -> Units]
    BY <2>2
  <2> HIDE DEF data
  <2> QED
    BY <2>1, <2>3, SeqDef
<1> HIDE DEF data
<1>5. /\ host' \in Server /\ host'.up = host.up /\ host'.asked = host.asked
      /\ host'.opened = host.opened /\ host'.lastId = host.lastId
      /\ host'.id = host.id /\ host'.status = host.status
  BY <1>1, <1>2, <1>3 DEF Server
<1>6. host.id # 0 /\ host.id = host.lastId /\ host.up /\ host.asked
  BY <1>1 DEF IInv, LinkInv
<1>7. \E p \in FromHost : Own(p) /\ HostSends(p)
  BY <1>1, <1>4, <1>5, <1>6, OwnPackets
<1>8. host'.status = "OKAY" /\ host'.id # 0 =>
        \E k \in Ids : k < nextId /\ sock[k].n = host'.opened /\ svc[k].off = Size
  BY <1>5 DEF IInv, ServedInv
<1>9. host'.opened - host'.lastId = Base /\ host.opened <= host'.opened
  BY <1>5, ServerFields DEF Base
<1>10. Hears(0)
  BY <1>1, NothingHeard
<1>11. 0 \in {0, 1}
  OBVIOUS
<1>12. cable.in /\ host.up /\ UNCHANGED cable /\ host'.up /\ host'.asked
       /\ host'.id = host'.lastId /\ host'.id # 0
  BY <1>1, <1>5, <1>6
<1> QED
  BY <1>5, <1>7, <1>8, <1>9, <1>10, <1>11, <1>12, HostUp

LEMMA StreamlessFields ==
  ASSUME IInv
  PROVE  /\ Streamless(host) \in Server
         /\ Streamless(host).up = host.up /\ Streamless(host).asked = host.asked
         /\ Streamless(host).restarts = host.restarts
         /\ Streamless(host).opened = host.opened /\ Streamless(host).lastId = host.lastId
         /\ Streamless(host).id = 0 /\ Streamless(host).rid = 0
         /\ Streamless(host).credit = FALSE /\ Streamless(host).status = host.status
<1>1. host \in Server /\ 0 \in 0..MaxStreams /\ 0 \in 0..Size
  BY ServerFields, Constants
<1> QED
  BY <1>1 DEF Streamless, Server

\* The stream is over for the host, with or without a CLSE of its own.
LEMMA HostLets ==
  ASSUME IInv, UnchangedDevice, UNCHANGED cable, cable.in, host.up, NEW e \in {0, 1}, Hears(e),
         host' = Streamless(host), UNCHANGED toDev \/ \E p \in FromHost : Own(p) /\ HostSends(p)
  PROVE  IInv'
<1>1. /\ host' \in Server /\ host'.up = host.up /\ host'.asked = host.asked
      /\ host'.opened = host.opened /\ host'.lastId = host.lastId /\ host'.id = 0
      /\ host'.rid = 0 /\ host'.credit = FALSE
  BY StreamlessFields
<1>2. host.asked
  BY DEF IInv, LinkInv
<1>3. host'.opened - host'.lastId = Base /\ host.opened <= host'.opened
  BY <1>1, ServerFields DEF Base
<1>4. host'.id # 0 => host'.id = host'.lastId
  BY <1>1
<1>5. host'.rid # 0 \/ host'.credit => host'.id # 0
  BY <1>1
<1>6. host'.status = "OKAY" /\ host'.id # 0 =>
        \E k \in Ids : k < nextId /\ sock[k].n = host'.opened /\ svc[k].off = Size
  BY <1>1
<1>7. host'.up /\ host'.asked
  BY <1>1, <1>2
<1> QED
  BY <1>1, <1>3, <1>4, <1>5, <1>6, <1>7, HostUp

LEMMA HostCloseStep ==
  ASSUME IInv, UnchangedDevice, HostClose
  PROVE  IInv'
<1>1. /\ cable.in /\ host.rid # 0 /\ host' = Streamless(host)
      /\ HostSends(Packet("CLSE", host.id, host.rid, host.opened, <<>>))
      /\ UNCHANGED <<cable, toHost>>
  BY DEF HostClose
<1>2. host.id # 0 /\ host.up
  BY <1>1 DEF IInv, LinkInv
<1>3. host'.opened = host.opened /\ <<>> \in Seq(Units)
  BY <1>1, StreamlessFields, EmptySeq
<1>4. \E p \in FromHost : Own(p) /\ HostSends(p)
  BY <1>1, <1>2, <1>3, OwnPackets
<1>5. Hears(0) /\ 0 \in {0, 1}
  BY <1>1, NothingHeard
<1> QED
  BY <1>1, <1>2, <1>4, <1>5, HostLets

\* A packet for the stream that is open is about it.
LEMMA Mine ==
  ASSUME IInv, cable.in, host.up, host.id # 0, NEW i \in 1..Len(toHost[cable.t]),
         toHost[cable.t][i].arg1 = host.id
  PROVE  toHost[cable.t][i].stream = host.opened
<1>1. /\ host.opened \in Int /\ host.lastId \in Int /\ host.id = host.lastId
  BY ServerFields DEF IInv, LinkInv
<1> DEFINE p == toHost[cable.t][i]
<1>2. p.stream \in Int
  <2>1. toHost \in [Transports -> Seq(ToHost)] /\ cable.t \in Transports
    BY ServerFields
  <2>2. p \in ToHost
    BY <2>1, ElementOfSeq
  <2>3. p.stream \in 0..MaxStreams
    BY <2>2 DEF ToHost
  <2> QED
    BY <2>3, Constants
<1>3. p.arg1 = p.stream - Base
  BY DEF IInv, HostInv
<1> HIDE DEF p
<1>4. p.arg1 = host.id
  BY DEF p
<1>5. p.stream = host.opened
  BY <1>1, <1>2, <1>3, <1>4 DEF Base
<1> QED
  BY <1>5 DEF p

\* Of the host only what it knows of its stream has changed.
LEMMA HostLearns ==
  ASSUME IInv, UnchangedDevice, UNCHANGED cable, cable.in, host.up, host.id # 0,
         NEW rid \in 0..MaxStreams, NEW credit \in BOOLEAN, NEW status \in {"none", "OKAY", "FAIL"},
         host' = [host EXCEPT !.rid = rid, !.credit = credit, !.status = status],
         Hears(1), UNCHANGED toDev \/ \E p \in FromHost : Own(p) /\ HostSends(p),
         status = "OKAY" => \E k \in Ids : k < nextId /\ sock[k].n = host.opened /\ svc[k].off = Size
  PROVE  IInv'
<1>1. host \in Server
  BY ServerFields
<1>2. /\ host' \in Server /\ host'.up = host.up /\ host'.asked = host.asked
      /\ host'.opened = host.opened /\ host'.lastId = host.lastId
      /\ host'.id = host.id /\ host'.status = status
  BY <1>1 DEF Server
<1>3. host.id = host.lastId /\ host.asked
  BY DEF IInv, LinkInv
<1>4. host'.opened - host'.lastId = Base /\ host.opened <= host'.opened
  BY <1>2, ServerFields DEF Base
<1>5. host'.status = "OKAY" /\ host'.id # 0 =>
        \E k \in Ids : k < nextId /\ sock[k].n = host'.opened /\ svc[k].off = Size
  BY <1>2
<1>6. host'.up /\ host'.asked /\ host'.id = host'.lastId /\ host'.id # 0
  BY <1>2, <1>3
<1>7. 1 \in {0, 1}
  OBVIOUS
<1> QED
  BY <1>2, <1>4, <1>5, <1>6, <1>7, HostUp

\* Nothing has changed but that a packet is read, or not.
LEMMA HostSkips ==
  ASSUME IInv, UnchangedDevice, UNCHANGED <<cable, host, toDev>>, cable.in,
         Hears(1), 1 \in 1..Len(toHost[cable.t]), toHost[cable.t][1].cmd # "CNXN"
  PROVE  IInv'
<1>1. /\ cable \in [t : Transports, in : BOOLEAN] /\ toDev \in [Transports -> Seq(FromHost)]
      /\ host \in Server /\ host.opened \in Int
  BY ServerFields DEF IInv, TypeOK
<1>2. /\ toHost' \in [Transports -> Seq(ToHost)]
      /\ \A t \in Transports : t > cable.t => toHost'[t] = <<>>
      /\ Len(toHost'[cable.t]) = Len(toHost[cable.t]) - 1 /\ Len(toHost[cable.t]) \in Nat
      /\ \A i \in 1..Len(toHost'[cable.t]) :
           i + 1 \in 1..Len(toHost[cable.t]) /\ toHost'[cable.t][i] = toHost[cable.t][i + 1]
  BY DEF Hears
<1>3. UNCHANGED <<online, ready, nextId, sock, svc>>
  BY DEF UnchangedDevice
<1>4. TypeOK' /\ SocketsInv' /\ ServedInv'
  <2>1. host'.status = "OKAY" /\ host'.id # 0 =>
          \E k \in Ids : k < nextId /\ sock[k].n = host'.opened /\ svc[k].off = Size
    BY DEF IInv, ServedInv
  <2>2. host.opened <= host'.opened
    BY <1>1
  <2>3. cable' \in [t : Transports, in : BOOLEAN] /\ toDev' \in [Transports -> Seq(FromHost)]
        /\ host' \in Server
    BY <1>1
  <2> QED
    BY <1>2, <2>1, <2>2, <2>3, HostFrame
<1>5. LinkInv'
  BY <1>2, <1>3 DEF IInv, LinkInv
<1>6. OpensInv' /\ DevInv' /\ SessionInv'
  BY <1>3 DEF IInv, OpensInv, DevInv, SessionInv, Base, Cabled
<1>7. HostInv'
  <2> SUFFICES ASSUME NEW i \in 1..Len(toHost'[cable.t])
               PROVE  /\ toHost'[cable.t][i].cmd = "CNXN" =>
                           /\ host.asked /\ ~host.up /\ i = Len(toHost'[cable.t])
                           /\ toDev[cable.t] = <<>> /\ \A k \in Ids : ~Cabled(k)
                      /\ host.up => /\ toHost'[cable.t][i].stream > Base
                                    /\ toHost'[cable.t][i].arg1 = toHost'[cable.t][i].stream - Base
                      /\ toHost'[cable.t][i].cmd = "WRTE" =>
                           toHost'[cable.t][i].data # <<>> /\ Truthful(toHost'[cable.t][i])
    BY <1>3 DEF HostInv, Truthful, Base, Cabled
  <2> DEFINE m == i + 1
  <2>1. m \in 1..Len(toHost[cable.t]) /\ toHost'[cable.t][i] = toHost[cable.t][m]
    BY <1>2
  <2>2. m = Len(toHost[cable.t]) => i = Len(toHost'[cable.t])
    BY <1>2
  <2> HIDE DEF m
  <2> QED
    BY <2>1, <2>2 DEF IInv, HostInv
<1> QED
  BY <1>4, <1>5, <1>6, <1>7 DEF IInv

\* The device's CNXN has come: nothing of an earlier session is on its way.
LEMMA HostConnected ==
  ASSUME IInv, UnchangedDevice, UNCHANGED <<cable, toDev>>, cable.in,
         Hears(1), 1 \in 1..Len(toHost[cable.t]), toHost[cable.t][1].cmd = "CNXN",
         host' = [host EXCEPT !.up = host.asked]
  PROVE  IInv'
<1>1. /\ cable \in [t : Transports, in : BOOLEAN] /\ toDev \in [Transports -> Seq(FromHost)]
      /\ host \in Server /\ host.opened \in Int
  BY ServerFields DEF IInv, TypeOK
<1>2. /\ toHost' \in [Transports -> Seq(ToHost)]
      /\ \A t \in Transports : t > cable.t => toHost'[t] = <<>>
      /\ Len(toHost'[cable.t]) = Len(toHost[cable.t]) - 1 /\ Len(toHost[cable.t]) \in Nat
  BY DEF Hears
<1>3. UNCHANGED <<online, ready, nextId, sock, svc>>
  BY DEF UnchangedDevice
<1>4. /\ host.asked /\ ~host.up /\ 1 = Len(toHost[cable.t]) /\ toDev[cable.t] = <<>>
      /\ \A k \in Ids : ~Cabled(k)
  BY DEF IInv, HostInv
<1>5. host.id = 0
  BY <1>4 DEF IInv, LinkInv
<1>6. /\ host' \in Server /\ host'.up /\ host'.asked /\ host'.opened = host.opened
      /\ host'.lastId = host.lastId /\ host'.id = 0 /\ host'.rid = host.rid
      /\ host'.credit = host.credit /\ host'.status = host.status
  BY <1>1, <1>4, <1>5 DEF Server
<1>7. Len(toHost'[cable.t]) = 0 /\ Len(toDev'[cable.t]) = 0
  BY <1>2, <1>4, EmptySeq
<1>8. TypeOK' /\ SocketsInv' /\ ServedInv'
  <2>1. host'.status = "OKAY" /\ host'.id # 0 =>
          \E k \in Ids : k < nextId /\ sock[k].n = host'.opened /\ svc[k].off = Size
    BY <1>6
  <2>2. host.opened <= host'.opened
    BY <1>1, <1>6
  <2>3. cable' \in [t : Transports, in : BOOLEAN] /\ toDev' \in [Transports -> Seq(FromHost)]
    BY <1>1
  <2> QED
    BY <1>2, <1>6, <2>1, <2>2, <2>3, HostFrame
<1>9. LinkInv'
  BY <1>2, <1>3, <1>5, <1>6 DEF IInv, LinkInv
<1>10. OpensInv'
  BY <1>3, <1>6 DEF IInv, OpensInv
<1>11. DevInv' /\ HostInv'
  <2>1. \A i \in 1..Len(toHost'[cable.t]) : FALSE
    BY <1>7
  <2>2. \A i \in 1..Len(toDev'[cable.t]) : FALSE
    BY <1>7
  <2> QED
    BY <2>1, <2>2 DEF DevInv, HostInv
<1>12. SessionInv'
  BY <1>3, <1>4 DEF SessionInv, Cabled
<1> QED
  BY <1>8, <1>9, <1>10, <1>11, <1>12 DEF IInv

LEMMA HostReceiveStep ==
  ASSUME IInv, UnchangedDevice, HostReceive
  PROVE  IInv'
<1> DEFINE p == Head(toHost[cable.t])
           mine == host.up /\ host.id # 0 /\ p.arg1 = host.id
<1>1. /\ cable.in /\ toHost[cable.t] # <<>> /\ UNCHANGED cable
      /\ toHost' = [toHost EXCEPT ![cable.t] = Tail(@)]
  BY DEF HostReceive
<1>2. Hears(1) /\ p = toHost[cable.t][1] /\ 1 \in 1..Len(toHost[cable.t]) /\ p \in ToHost
  BY <1>1, OneHeard
<1>3. \/ p.cmd = "CNXN" /\ host' = [host EXCEPT !.up = host.asked] /\ UNCHANGED toDev
      \/ p.cmd = "OKAY" /\ mine /\ host' = [host EXCEPT !.rid = p.arg0, !.credit = TRUE]
         /\ UNCHANGED toDev
      \/ p.cmd = "WRTE" /\ mine /\ host' = [host EXCEPT !.status = Head(p.data)]
         /\ HostSends(Packet("OKAY", host.id, host.rid, host.opened, <<>>))
      \/ p.cmd = "CLSE" /\ mine /\ host' = Streamless(host) /\ UNCHANGED toDev
      \/ p.cmd # "CNXN" /\ ~mine /\ UNCHANGED <<host, toDev>>
  BY DEF HostReceive
<1> HIDE DEF p
<1>4. /\ host \in Server /\ host.rid \in 0..MaxStreams /\ host.credit \in BOOLEAN
      /\ host.status \in {"none", "OKAY", "FAIL"}
  BY ServerFields
<1>5. CASE p.cmd = "CNXN" /\ host' = [host EXCEPT !.up = host.asked] /\ UNCHANGED toDev
  BY <1>1, <1>2, <1>5, HostConnected
<1>6. CASE p.cmd = "OKAY" /\ mine /\ host' = [host EXCEPT !.rid = p.arg0, !.credit = TRUE]
           /\ UNCHANGED toDev
  <2>1. p.arg0 \in 0..MaxStreams /\ TRUE \in BOOLEAN
    BY <1>2 DEF ToHost
  <2>2. host' = [host EXCEPT !.rid = p.arg0, !.credit = TRUE, !.status = host.status]
    BY <1>4, <1>6 DEF Server
  <2>3. host.status = "OKAY" =>
          \E k \in Ids : k < nextId /\ sock[k].n = host.opened /\ svc[k].off = Size
    BY <1>6 DEF IInv, ServedInv
  <2> QED
    BY <1>1, <1>2, <1>4, <1>6, <2>1, <2>2, <2>3, HostLearns
<1>7. CASE p.cmd = "WRTE" /\ mine /\ host' = [host EXCEPT !.status = Head(p.data)]
           /\ HostSends(Packet("OKAY", host.id, host.rid, host.opened, <<>>))
  <2>1. p.data \in Seq({"OKAY", "FAIL"})
    BY <1>2 DEF ToHost
  <2>2. p.data # <<>> /\ Truthful(p)
    BY <1>1, <1>2, <1>7 DEF IInv, HostInv
  <2>3. Head(p.data) = p.data[1] /\ p.data[1] \in {"OKAY", "FAIL"}
    BY <2>1, <2>2, Taken
  <2>4. p.stream = host.opened
    BY <1>1, <1>2, <1>7, Mine
  <2>5. Head(p.data) = "OKAY" =>
          \E k \in Ids : k < nextId /\ sock[k].n = host.opened /\ svc[k].off = Size
    BY <2>2, <2>3, <2>4 DEF Truthful
  <2>6. host' = [host EXCEPT !.rid = host.rid, !.credit = host.credit, !.status = Head(p.data)]
    BY <1>4, <1>7 DEF Server
  <2>7. host'.opened = host.opened
    BY <1>4, <1>7 DEF Server
  <2>8. \E q \in FromHost : Own(q) /\ HostSends(q)
    <3>1. <<>> \in Seq(Units)
      BY EmptySeq
    <3> QED
      BY <1>7, <2>7, <3>1, OwnPackets
  <2>9. Head(p.data) \in {"none", "OKAY", "FAIL"}
    BY <2>3
  <2> QED
    BY <1>1, <1>2, <1>4, <1>7, <2>5, <2>6, <2>8, <2>9, HostLearns
<1>8. CASE p.cmd = "CLSE" /\ mine /\ host' = Streamless(host) /\ UNCHANGED toDev
  <2>1. 1 \in {0, 1}
    OBVIOUS
  <2> QED
    BY <1>1, <1>2, <1>8, <2>1, HostLets
<1>9. CASE p.cmd # "CNXN" /\ ~mine /\ UNCHANGED <<host, toDev>>
  BY <1>1, <1>2, <1>9, HostSkips
<1> QED
  BY <1>3, <1>5, <1>6, <1>7, <1>8, <1>9

LEMMA HostConnectStep ==
  ASSUME IInv, UnchangedDevice, HostConnect
  PROVE  IInv'
<1> DEFINE p == Packet("CNXN", 0, 0, 0, <<>>)
<1>1. /\ cable.in /\ ~host.asked /\ host' = [host EXCEPT !.asked = TRUE]
      /\ HostSends(p) /\ UNCHANGED <<cable, toHost>>
  BY DEF HostConnect
<1>2. p \in FromHost /\ p.cmd = "CNXN"
  <2>1. <<>> \in Seq(Units) /\ 0 \in 0..MaxStreams
    BY EmptySeq, Constants
  <2>2. "CNXN" \in {"SYNC", "CNXN", "OPEN", "OKAY", "CLSE", "WRTE"}
    OBVIOUS
  <2>3. p \in FromHost
    BY <2>1, <2>2, Packets
  <2>4. p.cmd = "CNXN"
    BY Packets
  <2> QED
    BY <2>3, <2>4
<1> HIDE DEF p
<1>3. /\ cable \in [t : Transports, in : BOOLEAN] /\ host \in Server /\ host.opened \in Int
      /\ toHost \in [Transports -> Seq(ToHost)]
  BY ServerFields DEF IInv, TypeOK
<1>4. /\ host' \in Server /\ host'.up = host.up /\ host'.asked /\ host'.opened = host.opened
      /\ host'.lastId = host.lastId /\ host'.id = host.id /\ host'.rid = host.rid
      /\ host'.credit = host.credit /\ host'.status = host.status
  BY <1>1, <1>3 DEF Server
<1>5. UNCHANGED <<online, ready, nextId, sock, svc>>
  BY DEF UnchangedDevice
<1>6. ~host.up /\ host.id = 0
  BY <1>1 DEF IInv, LinkInv
<1>7. /\ toDev' \in [Transports -> Seq(FromHost)]
      /\ Len(toDev[cable.t]) \in Nat /\ Len(toDev'[cable.t]) = Len(toDev[cable.t]) + 1
      /\ \A i \in 1..Len(toDev'[cable.t]) :
           toDev'[cable.t][i] = IF i <= Len(toDev[cable.t]) THEN toDev[cable.t][i] ELSE p
      /\ \A t \in ready : toDev'[t] # <<>>
      /\ \A t \in Transports : t > cable.t => toDev'[t] = <<>>
  BY <1>1, <1>2, Utterance
<1>8. TypeOK' /\ SocketsInv' /\ ServedInv'
  <2>1. host'.status = "OKAY" /\ host'.id # 0 =>
          \E k \in Ids : k < nextId /\ sock[k].n = host'.opened /\ svc[k].off = Size
    BY <1>4, <1>6
  <2>2. host.opened <= host'.opened
    BY <1>3, <1>4
  <2>3. cable' \in [t : Transports, in : BOOLEAN] /\ toHost' \in [Transports -> Seq(ToHost)]
    BY <1>1, <1>3
  <2> QED
    BY <1>4, <1>7, <2>1, <2>2, <2>3, HostFrame
<1>9. LinkInv'
  <2>1. \A t \in Transports : t > cable.t => toHost'[t] = <<>>
    BY <1>1 DEF IInv, LinkInv
  <2>2. host'.lastId <= host'.opened
    BY <1>4 DEF IInv, LinkInv
  <2> QED
    BY <1>1, <1>4, <1>5, <1>6, <1>7, <2>1, <2>2 DEF IInv, LinkInv
<1>10. OpensInv'
  <2>1. host.opened <= host'.opened
    BY <1>3, <1>4
  <2>2. p.cmd # "OPEN"
    BY <1>2
  <2> QED
    BY <1>1, <1>2, <1>4, <2>1, <2>2, OpensKeep
<1>11. DevInv'
  <2> SUFFICES ASSUME NEW i \in 1..Len(toDev'[cable.t]), toDev'[cable.t][i].cmd = "CNXN"
               PROVE  i = Len(toDev'[cable.t])
    BY <1>1, <1>4, <1>6 DEF DevInv
  <2>1. CASE i <= Len(toDev[cable.t])
    <3>1. i \in 1..Len(toDev[cable.t]) /\ toDev'[cable.t][i] = toDev[cable.t][i]
      BY <1>7, <2>1
    <3> QED
      BY <1>1, <3>1 DEF IInv, DevInv
  <2>2. CASE ~(i <= Len(toDev[cable.t]))
    BY <1>7, <2>2
  <2> QED
    BY <2>1, <2>2
<1>12. HostInv'
  <2>1. \A i \in 1..Len(toHost[cable.t]) :
          /\ toHost[cable.t][i].cmd # "CNXN"
          /\ toHost[cable.t][i].cmd = "WRTE" =>
               toHost[cable.t][i].data # <<>> /\ Truthful(toHost[cable.t][i])
    BY <1>1 DEF IInv, HostInv
  <2> QED
    BY <1>1, <1>4, <1>5, <1>6, <2>1 DEF HostInv, Truthful
<1>13. SessionInv'
  BY <1>4, <1>6 DEF SessionInv
<1> QED
  BY <1>8, <1>9, <1>10, <1>11, <1>12, <1>13 DEF IInv

\* A server that knows nothing, and no CNXN for it on the way.
LEMMA HostDown ==
  ASSUME IInv, UnchangedDevice,
         cable' \in [t : Transports, in : BOOLEAN], toDev' \in [Transports -> Seq(FromHost)],
         toHost' \in [Transports -> Seq(ToHost)], host' \in Server, host'.opened = host.opened,
         ~host'.up, ~host'.asked, host'.id = 0, host'.rid = 0, host'.credit = FALSE,
         host'.lastId <= host'.opened,
         \A t \in ready : toDev'[t] # <<>>,
         \A t \in Transports : t > cable'.t => toDev'[t] = <<>> /\ toHost'[t] = <<>>,
         \A t \in Transports : \A i \in 1..Len(toDev'[t]) :
           toDev'[t][i].cmd = "OPEN" => i \in 1..Len(toDev[t]) /\ toDev'[t][i] = toDev[t][i],
         cable'.in => \A i \in 1..Len(toDev'[cable'.t]) : toDev'[cable'.t][i].cmd # "CNXN",
         cable'.in => \A i \in 1..Len(toHost'[cable'.t]) :
           /\ toHost'[cable'.t][i].cmd # "CNXN"
           /\ toHost'[cable'.t][i].cmd = "WRTE" =>
                toHost'[cable'.t][i].data # <<>> /\ Truthful(toHost'[cable'.t][i])
  PROVE  IInv'
<1>1. UNCHANGED <<online, ready, nextId, sock, svc>>
  BY DEF UnchangedDevice
<1>2. TypeOK' /\ SocketsInv' /\ ServedInv'
  <2>1. host.opened <= host'.opened
    BY ServerFields
  <2>2. host'.status = "OKAY" /\ host'.id # 0 =>
          \E k \in Ids : k < nextId /\ sock[k].n = host'.opened /\ svc[k].off = Size
    OBVIOUS
  <2> QED
    BY <2>1, <2>2, HostFrame
<1>3. LinkInv'
  BY <1>1 DEF LinkInv
<1>4. OpensInv'
  <2> SUFFICES ASSUME NEW t \in Transports, NEW i \in 1..Len(toDev'[t]), toDev'[t][i].cmd = "OPEN"
               PROVE  /\ toDev'[t][i].stream \in 1..host.opened
                      /\ \A k \in Ids : k < nextId => sock[k].n # toDev'[t][i].stream
                      /\ \A u \in Transports : \A j \in 1..Len(toDev'[u]) :
                           toDev'[u][j].cmd = "OPEN" /\ toDev'[u][j].stream = toDev'[t][i].stream
                           => u = t /\ j = i
    BY <1>1 DEF OpensInv
  <2>1. i \in 1..Len(toDev[t]) /\ toDev'[t][i] = toDev[t][i]
    OBVIOUS
  <2>2. ASSUME NEW u \in Transports, NEW j \in 1..Len(toDev'[u]), toDev'[u][j].cmd = "OPEN",
               toDev'[u][j].stream = toDev[t][i].stream
        PROVE  u = t /\ j = i
    <3>1. j \in 1..Len(toDev[u]) /\ toDev'[u][j] = toDev[u][j]
      BY <2>2
    <3> QED
      BY <2>1, <2>2, <3>1 DEF IInv, OpensInv
  <2> QED
    BY <2>1, <2>2 DEF IInv, OpensInv
<1>5. DevInv' /\ HostInv' /\ SessionInv'
  BY <1>1 DEF DevInv, HostInv, SessionInv, Truthful
<1> QED
  BY <1>2, <1>3, <1>4, <1>5 DEF IInv

LEMMA RestartedFields ==
  ASSUME IInv
  PROVE  /\ Restarted(host) \in Server /\ Restarted(host).up = FALSE
         /\ Restarted(host).asked = FALSE /\ Restarted(host).restarts = host.restarts
         /\ Restarted(host).opened = host.opened /\ Restarted(host).lastId = 0
         /\ Restarted(host).id = 0 /\ Restarted(host).rid = 0 /\ Restarted(host).credit = FALSE
         /\ 0 <= host.opened
<1>1. 0 \in 0..MaxStreams
  BY Constants
<1>2. 0 <= host.opened
  BY ServerFields
<1> QED
  BY <1>1, <1>2, StreamlessFields DEF Restarted, Server

LEMMA HostRestartStep ==
  ASSUME IInv, UnchangedDevice, HostRestart
  PROVE  IInv'
<1>1. /\ host.up /\ Sessions < MaxSessions
      /\ host' = [Restarted(host) EXCEPT !.restarts = Restarted(host).restarts + 1]
      /\ UNCHANGED <<cable, toDev, toHost>>
  BY DEF HostRestart
<1>2. host.restarts + 1 \in 0..MaxSessions
  <2>1. /\ host.restarts \in 0..MaxSessions /\ cable.t \in 1..(MaxSessions + 1)
        /\ MaxSessions \in Nat
    BY ServerFields, Constants DEF Transports
  <2> QED
    BY <1>1, <2>1 DEF Sessions
<1>3. /\ host' \in Server /\ ~host'.up /\ ~host'.asked /\ host'.opened = host.opened
      /\ host'.lastId = 0 /\ host'.id = 0 /\ host'.rid = 0 /\ host'.credit = FALSE
      /\ host'.lastId <= host'.opened
  <2> DEFINE h == Restarted(host)
  <2>1. /\ h \in Server /\ h.up = FALSE /\ h.asked = FALSE /\ h.restarts = host.restarts
        /\ h.opened = host.opened /\ h.lastId = 0 /\ h.id = 0 /\ h.rid = 0 /\ h.credit = FALSE
        /\ 0 <= host.opened
    BY RestartedFields
  <2>2. host' = [h EXCEPT !.restarts = host.restarts + 1]
    BY <1>1, <2>1
  <2> HIDE DEF h
  <2> QED
    BY <1>2, <2>1, <2>2 DEF Server
<1>4. /\ cable \in [t : Transports, in : BOOLEAN] /\ toDev \in [Transports -> Seq(FromHost)]
      /\ toHost \in [Transports -> Seq(ToHost)]
  BY DEF IInv, TypeOK
<1>5. /\ \A t \in ready : toDev[t] # <<>>
      /\ \A t \in Transports : t > cable.t => toDev[t] = <<>> /\ toHost[t] = <<>>
  BY DEF IInv, LinkInv
<1>6. cable.in => \A i \in 1..Len(toDev[cable.t]) : toDev[cable.t][i].cmd # "CNXN"
  BY <1>1 DEF IInv, DevInv
<1>7. cable.in => \A i \in 1..Len(toHost[cable.t]) :
        /\ toHost[cable.t][i].cmd # "CNXN"
        /\ toHost[cable.t][i].cmd = "WRTE" =>
             toHost[cable.t][i].data # <<>> /\ Truthful(toHost[cable.t][i])
  BY <1>1 DEF IInv, HostInv
<1> QED
  BY <1>1, <1>3, <1>4, <1>5, <1>6, <1>7, HostDown

LEMMA UnplugStep ==
  ASSUME IInv, UnchangedDevice, Unplug
  PROVE  IInv'
<1> DEFINE p == Packet("SYNC", 0, 0, 0, <<>>)
<1>1. PICK m \in 0..Len(toDev[cable.t]) :
        toDev' = [toDev EXCEPT ![cable.t] = Append(SubSeq(toDev[cable.t], 1, m), p)]
  BY DEF Unplug
<1>2. /\ cable.in /\ cable' = [cable EXCEPT !.in = FALSE]
      /\ toHost' = [toHost EXCEPT ![cable.t] = <<>>] /\ host' = Restarted(host)
  BY DEF Unplug
<1>3. /\ cable \in [t : Transports, in : BOOLEAN] /\ cable.t \in Transports
      /\ toDev \in [Transports -> Seq(FromHost)] /\ toHost \in [Transports -> Seq(ToHost)]
  BY ServerFields DEF IInv, TypeOK
<1>4. p \in FromHost /\ p.cmd = "SYNC"
  <2>1. <<>> \in Seq(Units) /\ 0 \in 0..MaxStreams
    BY EmptySeq, Constants
  <2>2. "SYNC" \in {"SYNC", "CNXN", "OPEN", "OKAY", "CLSE", "WRTE"}
    OBVIOUS
  <2>3. p \in FromHost
    BY <2>1, <2>2, Packets
  <2>4. p.cmd = "SYNC"
    BY Packets
  <2> QED
    BY <2>3, <2>4
<1> HIDE DEF p
<1> DEFINE old == toDev[cable.t]
           kept == SubSeq(old, 1, m)
           new == Append(kept, p)
<1>5. old \in Seq(FromHost) /\ Len(old) \in Nat
  BY <1>3, LenProperties
<1>6. kept \in Seq(FromHost) /\ Len(kept) = m /\ \A i \in 1..m : kept[i] = old[i]
  BY <1>5, Parts
<1> HIDE DEF kept
<1>7. /\ new \in Seq(FromHost) /\ new # <<>> /\ Len(new) = Len(kept) + 1
      /\ \A i \in 1..Len(new) : new[i] = IF i <= Len(kept) THEN kept[i] ELSE p
  BY <1>4, <1>6, Added
<1>8. toDev' = [toDev EXCEPT ![cable.t] = new]
  BY <1>1 DEF kept
<1>9. ASSUME NEW i \in 1..Len(new), new[i].cmd = "OPEN"
      PROVE  i \in 1..Len(old) /\ new[i] = old[i]
  <2>1. i <= Len(kept)
    BY <1>4, <1>7, <1>9
  <2>2. i \in 1..m
    BY <1>5, <1>6, <1>7, <2>1
  <2> QED
    BY <1>5, <1>6, <1>7, <2>1, <2>2
<1> HIDE DEF new
<1>10. /\ toDev'[cable.t] = new /\ \A t \in Transports : t # cable.t => toDev'[t] = toDev[t]
       /\ toDev' \in [Transports -> Seq(FromHost)]
  BY <1>3, <1>7, <1>8
<1>11. /\ toHost'[cable.t] = <<>> /\ \A t \in Transports : t # cable.t => toHost'[t] = toHost[t]
       /\ toHost' \in [Transports -> Seq(ToHost)]
  <2>1. <<>> \in Seq(ToHost)
    BY EmptySeq
  <2> QED
    BY <1>2, <1>3, <2>1
<1>12. cable' \in [t : Transports, in : BOOLEAN] /\ cable'.t = cable.t /\ ~cable'.in
  BY <1>2, <1>3
<1>13. \A t \in Transports : t > cable.t => t # cable.t
  BY <1>3, Constants
<1>14. \A t \in Transports : t > cable'.t => toDev'[t] = <<>> /\ toHost'[t] = <<>>
  BY <1>10, <1>11, <1>12, <1>13 DEF IInv, LinkInv
<1>15. \A t \in ready : toDev'[t] # <<>>
  BY <1>7, <1>10 DEF IInv, LinkInv, TypeOK
<1>16. ASSUME NEW t \in Transports, NEW i \in 1..Len(toDev'[t]), toDev'[t][i].cmd = "OPEN"
       PROVE  i \in 1..Len(toDev[t]) /\ toDev'[t][i] = toDev[t][i]
  <2>1. CASE t = cable.t
    BY <1>9, <1>10, <1>16, <2>1
  <2>2. CASE t # cable.t
    BY <1>10, <1>16, <2>2
  <2> QED
    BY <2>1, <2>2
<1>17. /\ host' \in Server /\ ~host'.up /\ ~host'.asked /\ host'.opened = host.opened
       /\ host'.id = 0 /\ host'.rid = 0 /\ host'.credit = FALSE /\ host'.lastId <= host'.opened
  BY <1>2, RestartedFields
<1> QED
  BY <1>10, <1>11, <1>12, <1>14, <1>15, <1>16, <1>17, HostDown

LEMMA PlugStep ==
  ASSUME IInv, UnchangedDevice, Plug
  PROVE  IInv'
<1>1. /\ ~cable.in /\ Sessions < MaxSessions /\ cable' = [t |-> cable.t + 1, in |-> TRUE]
      /\ UNCHANGED <<toDev, toHost, host>>
  BY DEF Plug
<1>2. /\ cable'.t = cable.t + 1 /\ cable.t + 1 \in Transports
      /\ \A t \in Transports : t > cable.t + 1 \/ t = cable.t + 1 => t > cable.t
  <2>1. /\ host.restarts \in 0..MaxSessions /\ cable.t \in 1..(MaxSessions + 1)
        /\ MaxSessions \in Nat
    BY ServerFields, Constants DEF Transports
  <2> QED
    BY <1>1, <2>1 DEF Sessions, Transports
<1>3. /\ cable' \in [t : Transports, in : BOOLEAN] /\ toDev \in [Transports -> Seq(FromHost)]
      /\ toHost \in [Transports -> Seq(ToHost)] /\ host \in Server
  BY <1>1, <1>2, ServerFields
<1>4. ~host.asked /\ ~host.up /\ host.id = 0 /\ host.rid = 0 /\ ~host.credit
      /\ host.lastId <= host.opened
  BY <1>1 DEF IInv, LinkInv
<1>5. host.credit = FALSE
  BY <1>4, ServerFields
<1>6. \A t \in Transports : t > cable'.t \/ t = cable'.t => toDev[t] = <<>> /\ toHost[t] = <<>>
  BY <1>2 DEF IInv, LinkInv
<1>7. \A i \in 1..Len(<<>>) : FALSE
  BY EmptySeq
<1>8. \A t \in ready : toDev[t] # <<>>
  BY DEF IInv, LinkInv
<1>9. toDev[cable'.t] = <<>> /\ toHost[cable'.t] = <<>>
  BY <1>2, <1>6
<1>10. (\A i \in 1..Len(toDev[cable'.t]) : FALSE) /\ (\A i \in 1..Len(toHost[cable'.t]) : FALSE)
  BY <1>7, <1>9
<1> QED
  BY <1>1, <1>3, <1>4, <1>5, <1>6, <1>8, <1>10, HostDown

LEMMA HostSteps ==
  ASSUME IInv, HostStep
  PROVE  IInv'
BY HostConnectStep, HostRestartStep, HostOpenStep, HostSendStep, HostCloseStep,
   HostReceiveStep, UnplugStep, PlugStep DEF HostStep

-----------------------------------------------------------------------------
(* The invariant                                                           *)

LEMMA Initially ==
  ASSUME Init
  PROVE  IInv
<1>1. /\ cable = [t |-> 1, in |-> TRUE] /\ online = [t \in Transports |-> FALSE]
      /\ toDev = [t \in Transports |-> <<>>] /\ toHost = [t \in Transports |-> <<>>]
      /\ ready = {} /\ nextId = 1
      /\ sock = [k \in Ids |-> NoSocket] /\ svc = [k \in Ids |-> NoService]
      /\ file = [p \in 1..Size |-> 0] /\ owner = 0 /\ fouled = FALSE
      /\ alive = TRUE /\ host = NoHost
  BY DEF Init
<1>2. 1 \in Transports /\ 1 \in 1..(MaxStreams + 1) /\ 0 \in 0..MaxStreams /\ 0 \in 0..Size
      /\ 0 \in 0..MaxSessions /\ 0 <= Room
  BY Constants DEF Transports
<1>3. /\ <<>> \in Seq(FromHost) /\ <<>> \in Seq(ToHost) /\ <<>> \in Seq(Units)
      /\ <<>> \in Seq({"OKAY", "FAIL"}) /\ Len(<<>>) = 0 /\ \A i \in 1..Len(<<>>) : FALSE
  BY EmptySeq
<1>4. /\ NoSocket \in Socket /\ NoSocket.state = "none" /\ NoSocket.backlog = <<>>
      /\ NoSocket.want = {}
  BY NoSocketFields
<1>5. /\ NoService \in Service /\ NoService.state = "none" /\ NoService.in = <<>>
      /\ NoService.out = <<>> /\ NoService.off = 0
  BY <1>2, <1>3 DEF NoService, Service
<1>6. /\ NoHost \in Server /\ ~NoHost.up /\ ~NoHost.asked /\ NoHost.id = 0 /\ NoHost.rid = 0
      /\ ~NoHost.credit /\ NoHost.opened = 0 /\ NoHost.lastId = 0 /\ NoHost.status = "none"
  BY <1>2 DEF NoHost, Server
<1>7. TypeOK
  <2>1. cable \in [t : Transports, in : BOOLEAN]
    BY <1>1, <1>2
  <2>2. /\ online \in [Transports -> BOOLEAN] /\ toDev \in [Transports -> Seq(FromHost)]
        /\ toHost \in [Transports -> Seq(ToHost)]
    BY <1>1, <1>3
  <2>3. sock \in [Ids -> Socket] /\ svc \in [Ids -> Service]
    BY <1>1, <1>4, <1>5
  <2>4. file \in [Units -> 0..MaxStreams]
    BY <1>1, <1>2 DEF Units
  <2>5. \A k \in Ids : ("W" \in sock[k].want) = (sock[k].backlog # <<>>)
    BY <1>1, <1>4
  <2> QED
    BY <1>1, <1>2, <1>6, <2>1, <2>2, <2>3, <2>4, <2>5 DEF TypeOK
<1>8. LinkInv
  BY <1>1, <1>6 DEF LinkInv
<1>9. SocketsInv
  <2>1. \A k \in Ids : ~(k < nextId)
    BY <1>1, Constants DEF Ids
  <2> QED
    BY <1>1, <1>2, <1>3, <1>4, <1>5, <2>1 DEF SocketsInv
<1>10. OpensInv
  BY <1>1, <1>3 DEF OpensInv
<1>11. DevInv /\ HostInv
  <2>1. cable.t \in Transports
    BY <1>1, <1>2
  <2>2. toDev[cable.t] = <<>> /\ toHost[cable.t] = <<>>
    BY <1>1, <2>1
  <2> QED
    BY <1>3, <2>2 DEF DevInv, HostInv
<1>12. SessionInv
  BY <1>1, <1>6 DEF SessionInv
<1>13. ServedInv
  <2>1. \A k \in Ids : svc[k] = NoService
    BY <1>1
  <2> QED
    BY <1>1, <1>3, <1>5, <1>6, <2>1 DEF ServedInv
<1> QED
  BY <1>7, <1>8, <1>9, <1>10, <1>11, <1>12, <1>13 DEF IInv

LEMMA Stays ==
  ASSUME IInv, UNCHANGED vars
  PROVE  IInv'
<1>1. TypeOK' /\ LinkInv'
  BY DEF vars, IInv, TypeOK, LinkInv
<1>2. SocketsInv' /\ OpensInv'
  BY DEF vars, IInv, SocketsInv, OpensInv
<1>3. DevInv' /\ HostInv' /\ SessionInv'
  BY DEF vars, IInv, DevInv, HostInv, SessionInv, Truthful, Cabled, Base
<1>4. ServedInv'
  BY DEF vars, IInv, ServedInv
<1> QED
  BY <1>1, <1>2, <1>3, <1>4 DEF IInv

LEMMA Inductive ==
  ASSUME IInv, [Next]_vars
  PROVE  IInv'
<1>1. CASE MainStep
  BY <1>1, PollStep, PacketStep, SocketEventStep DEF MainStep
<1>2. CASE \E k \in Ids : ServiceStep(k) \/ Exit(k)
  BY <1>2, ServiceSteps
<1>3. CASE HostStep
  BY <1>3, HostSteps
<1>4. CASE UNCHANGED vars
  BY <1>4, Stays
<1> QED
  BY <1>1, <1>2, <1>3, <1>4 DEF Next

\* Whatever the host, the cable and the threads do, in any order.
THEOREM AdbInductive == Spec => []IInv
<1>1. Init => IInv
  BY Initially
<1>2. IInv /\ [Next]_vars => IInv'
  BY Inductive
<1> QED
  BY <1>1, <1>2, PTL DEF Spec

\* Every variable has its type, and a socket asks for room to write exactly
\* while it has a backlog: no packet handled, event served or connection lost
\* leaves a backlog that nobody will be woken for (sockets.c:130-254).
THEOREM AdbTypes == Spec => []TypeOK
<1>1. IInv => TypeOK
  BY DEF IInv
<1> QED
  BY <1>1, AdbInductive, PTL

-----------------------------------------------------------------------------
(* What it says                                                            *)

\* However often the cable is pulled and the server restarted, a server never
\* takes for its own a packet of a stream that an earlier one opened: the
\* device closes every stream of a session before its CNXN (adb.c:310-319).
THEOREM AdbNoOldSession == Spec => []NoOldSession
<1>1. ASSUME IInv PROVE NoOldSession
  <2> SUFFICES ASSUME NEW i \in DOMAIN toHost[cable.t], cable.in, host.asked,
                      host.up \/ \E j \in 1..(i - 1) : toHost[cable.t][j].cmd = "CNXN",
                      toHost[cable.t][i].cmd # "CNXN", toHost[cable.t][i].arg1 = host.id
               PROVE  toHost[cable.t][i].stream = host.opened
    BY DEF NoOldSession
  <2>1. toHost \in [Transports -> Seq(ToHost)] /\ cable.t \in Transports
    BY <1>1, ServerFields
  <2>2. i \in 1..Len(toHost[cable.t]) /\ Len(toHost[cable.t]) \in Nat
    BY <2>1, LenProperties
  <2>3. host.up
    <3>1. ASSUME NEW j \in 1..(i - 1), toHost[cable.t][j].cmd = "CNXN" PROVE FALSE
      <4>1. j \in 1..Len(toHost[cable.t]) /\ j # Len(toHost[cable.t])
        BY <2>2
      <4> QED
        BY <1>1, <3>1, <4>1 DEF IInv, HostInv
    <3> QED
      BY <3>1
  <2>4. host.id # 0
    <3> SUFFICES ASSUME host.id = 0 PROVE FALSE
      OBVIOUS
    <3> DEFINE p == toHost[cable.t][i]
    <3>1. p \in ToHost
      BY <2>1, <2>2, ElementOfSeq
    <3>2. p.stream \in 0..MaxStreams /\ MaxStreams \in Nat /\ Base \in Int
      BY <1>1, <3>1, Constants, ServerFields DEF ToHost
    <3>3. p.stream > Base /\ p.arg1 = p.stream - Base /\ p.arg1 = 0
      BY <1>1, <2>2, <2>3 DEF IInv, HostInv
    <3> HIDE DEF p
    <3> QED
      BY <3>2, <3>3
  <2> QED
    BY <1>1, <2>2, <2>3, <2>4, Mine
<1> QED
  BY <1>1, AdbInductive, PTL

\* When the host is told OKAY, or the process is about to exit with a success,
\* every unit of the blob is in the file, whatever other streams, sessions and
\* threads there have been, unless one of them created or wrote the file
\* after this one did (services.c:46-81).
THEOREM AdbSuccessMeansWhole == Spec => []SuccessMeansWhole
<1>1. ASSUME IInv PROVE SuccessMeansWhole
  <2> SUFFICES ASSUME NEW k \in Ids, ToldOkay(k) \/ svc[k].state = "exiting", owner = k, ~fouled,
                      NEW p \in Units
               PROVE  file[p] = sock[k].n
    BY DEF SuccessMeansWhole
  <2>1. k # 0 /\ k < nextId
    BY <1>1, Constants DEF IInv, ServedInv
  <2>2. svc[k].off = Size
    <3>1. CASE svc[k].state = "exiting"
      BY <1>1, <3>1 DEF IInv, ServedInv
    <3>2. CASE ToldOkay(k)
      <4>1. PICK j \in Ids : j < nextId /\ sock[j].n = host.opened /\ svc[j].off = Size
        BY <1>1, <3>2 DEF IInv, ServedInv, ToldOkay
      <4>2. sock[j].n = sock[k].n
        BY <3>2, <4>1 DEF ToldOkay
      <4>3. j = k
        BY <1>1, <2>1, <4>1, <4>2 DEF IInv, SocketsInv
      <4> QED
        BY <4>1, <4>3
    <3> QED
      BY <3>1, <3>2
  <2>3. \A q \in 1..svc[owner].off : file[q] = sock[owner].n
    BY <1>1, <2>1 DEF IInv, ServedInv
  <2> QED
    BY <2>2, <2>3 DEF Units
<1> QED
  BY <1>1, AdbInductive, PTL

-----------------------------------------------------------------------------
(* What becomes of a backlog                                               *)

\* An open socket that has a backlog lingers.
LEMMA Lingers ==
  ASSUME IInv, NEW k \in Ids, sock[k].state = "open", sock[k].backlog # <<>>
  PROVE  Closed(sock[k]).state # "freed"
<1>1. sock[k] \in Socket /\ Consistent(sock[k])
  BY Given
<1> QED
  BY <1>1, ClosedFields

LEMMA HandleSpares ==
  ASSUME IInv, NEW t \in Transports, Handle(t), NEW k \in Ids, sock[k].backlog # <<>>
  PROVE  sock'[k].state # "freed"
<1> DEFINE p == Head(toDev[t])
<1>1. /\ sock \in [Ids -> Socket] /\ sock[k] \in Socket /\ sock[k].state # "freed"
      /\ nextId \in 1..(MaxStreams + 1)
  BY DEF IInv, TypeOK, SocketsInv
<1>2. t \in ready /\ p \in FromHost
  BY FirstPacket DEF Handle
<1>3. CASE sock' = sock
  BY <1>1, <1>3
<1>4. CASE sock' = Disconnected(t)
  BY <1>1, <1>4, Lingers DEF Disconnected
<1>5. ASSUME NEW j \in Ids, sock[j].state = "open",
             NEW e \in SUBSET {"R", "W"}, sock' = [sock EXCEPT ![j] = FdeSet(@, e)]
      PROVE  sock'[k].state # "freed"
  <2>1. CASE j = k
    BY <1>1, <1>5, <2>1, FdeSets
  <2>2. CASE j # k
    BY <1>1, <1>5, <2>2
  <2> QED
    BY <2>1, <2>2
<1>6. ASSUME NEW j \in Ids, sock[j].state = "open", sock' = [sock EXCEPT ![j] = Closed(@)]
      PROVE  sock'[k].state # "freed"
  <2>1. CASE j = k
    BY <1>1, <1>6, <2>1, Lingers
  <2>2. CASE j # k
    BY <1>1, <1>6, <2>2
  <2> QED
    BY <2>1, <2>2
<1> HIDE DEF p
<1>7. CASE HandleOpen(t, p) /\ p.cmd = "OPEN"
  <2>1. \/ UNCHANGED sock
        \/ \E s : s.state = "open" /\ sock' = [sock EXCEPT ![nextId] = s]
    <3> DEFINE s == [NoSocket EXCEPT !.state = "open", !.t = t, !.rid = p.arg0,
                                     !.n = p.stream, !.want = {"R"}]
    <3>1. s.state = "open"
      BY DEF NoSocket
    <3>2. UNCHANGED sock \/ sock' = [sock EXCEPT ![nextId] = s]
      BY <1>7 DEF HandleOpen
    <3> HIDE DEF s
    <3> QED
      BY <3>1, <3>2
  <2> QED
    BY <1>1, <2>1
<1>8. CASE HandleOkay(t, p)
  <2>1. p.arg1 \in Ids /\ sock[p.arg1].state = "open"
    BY <1>8 DEF HandleOkay, Found
  <2>2. sock[p.arg1].want \cup {"R"} \in SUBSET {"R", "W"}
    BY <2>1, Given, Fields
  <2>3. sock' = [sock EXCEPT ![p.arg1] = FdeSet(@, sock[p.arg1].want \cup {"R"})]
    BY <1>1, <1>8, <2>1 DEF HandleOkay
  <2> QED
    BY <1>5, <2>1, <2>2, <2>3
<1>9. CASE HandleClose(t, p)
  <2>1. /\ p.arg1 \in Ids /\ sock[p.arg1].state = "open"
        /\ sock' = [sock EXCEPT ![p.arg1] = Closed(@)]
    BY <1>9 DEF HandleClose, Found, CloseSocket
  <2> QED
    BY <1>6, <2>1
<1>10. CASE HandleWrite(t, p)
  <2> DEFINE j == p.arg1
             left == IF sock[j].backlog # <<>> THEN p.data ELSE Left(j, p.data)
  <2>1. /\ j \in Ids /\ sock[j].state = "open"
        /\ \/ UNCHANGED sock
           \/ sock' = [sock EXCEPT ![j] = Closed(@)]
           \/ sock' = [sock EXCEPT ![j] =
                         FdeSet([sock[j] EXCEPT !.backlog = sock[j].backlog \o left],
                                sock[j].want \cup {"W"})]
    BY <1>1, <1>10 DEF HandleWrite, Found, CloseSocket
  <2>2. sock[j] \in Socket /\ p.data \in Seq(Units) /\ Len(svc[j].in) <= Room /\ TypeOK
    BY <1>2, <2>1, Given, PacketFields DEF IInv
  <2>3. left \in Seq(Units) /\ sock[j].backlog \in Seq(Units)
    BY <2>1, <2>2, Writing, Fields
  <2> HIDE DEF j, left
  <2>4. CASE sock' = [sock EXCEPT ![j] =
                        FdeSet([sock[j] EXCEPT !.backlog = sock[j].backlog \o left],
                               sock[j].want \cup {"W"})]
    <3> DEFINE s == [sock[j] EXCEPT !.backlog = sock[j].backlog \o left]
               u == FdeSet(s, sock[j].want \cup {"W"})
    <3>1. sock[j].backlog \o left \in Seq(Units)
      BY <2>3, Joined
    <3>2. s \in Socket /\ s.state = "open"
      BY <2>1, <2>2, <3>1, Rebacklogged
    <3>3. sock[j].want \cup {"W"} \in SUBSET {"R", "W"}
      BY <2>2, Fields
    <3>4. sock' = [sock EXCEPT ![j] = u]
      BY <2>4
    <3> HIDE DEF s
    <3>5. u.state = "open"
      BY <3>2, <3>3, FdeSets
    <3> HIDE DEF u
    <3> QED
      BY <1>1, <2>1, <3>4, <3>5
  <2> QED
    BY <1>3, <1>6, <2>1, <2>4
<1>11. CASE Ignore(t, p)
  BY <1>3, <1>11 DEF Ignore
<1>12. HandleSync(t) => sock' = Disconnected(t)
  BY DEF HandleSync
<1>13. HandleConnect(t) => sock' = Disconnected(t) \/ sock' = sock
  BY DEF HandleConnect
<1> QED
  BY <1>3, <1>4, <1>7, <1>8, <1>9, <1>10, <1>11, <1>12, <1>13 DEF Handle, p

LEMMA EventDelivers ==
  ASSUME IInv, NEW j \in Ids, SocketEvent(j), NEW k \in Ids, sock[k].backlog # <<>>,
         sock'[k].state = "freed"
  PROVE  Hung(k) \/ svc'[k].in = svc[k].in \o sock[k].backlog
<1> DEFINE ev == sock[j].pend
<1>1. /\ sock \in [Ids -> Socket] /\ sock[k].state # "freed" /\ sock[j] \in Socket
      /\ Consistent(sock[j]) /\ Len(svc[j].in) <= Room
  BY Given DEF IInv, TypeOK, SocketsInv
<1>2. \/ EventWriteFails(j, ev) \/ EventWritePart(j, ev) \/ EventWriteLast(j, ev)
      \/ EventRead(j, ev)
  BY DEF SocketEvent
<1> HIDE DEF ev
<1>3. j = k
  <2>1. \E u : sock' = [sock EXCEPT ![j] = u]
    BY <1>2 DEF EventWriteFails, EventWritePart, EventWriteLast, EventRead
  <2> QED
    BY <1>1, <2>1
<1>4. CASE EventWriteFails(j, ev)
  BY <1>3, <1>4 DEF EventWriteFails
<1>5. CASE EventWritePart(j, ev)
  <2>1. sock'[k] = [sock[k] EXCEPT !.pend = {}, !.backlog = Left(k, sock[k].backlog)]
    BY <1>1, <1>3, <1>5 DEF EventWritePart
  <2>2. sock'[k].state = sock[k].state
    BY <1>1, <1>3, <2>1 DEF Socket
  <2> QED
    BY <1>1, <2>2
<1>6. CASE EventWriteLast(j, ev)
  <2>1. svc' = Written(k, sock[k].backlog) /\ Left(k, sock[k].backlog) = <<>>
    BY <1>3, <1>6 DEF EventWriteLast
  <2>2. sock[k].backlog \in Seq(Units) /\ TypeOK /\ Len(svc[k].in) <= Room
    BY <1>1, <1>3, Fields DEF IInv
  <2> QED
    BY <2>1, <2>2, Writing
<1>7. CASE EventRead(j, ev)
  <2> SUFFICES ASSUME ~Hung(k) PROVE FALSE
    OBVIOUS
  <2> DEFINE s == AfterWrite(k, ev)
             off == FdeSet(s, s.want \ {"R"})
  <2>1. sock' = [sock EXCEPT ![k] = s] \/ sock' = [sock EXCEPT ![k] = off]
    BY <1>3, <1>7 DEF EventRead
  <2>2. s \in Socket /\ s.state = sock[k].state
    BY <1>1, <1>3, AfterWriteFields
  <2> HIDE DEF s
  <2>3. off.state = s.state
    <3>1. s.want \ {"R"} \in SUBSET {"R", "W"}
      BY <2>2, Fields
    <3> QED
      BY <2>2, <3>1, FdeSets
  <2> HIDE DEF off
  <2> QED
    BY <1>1, <2>1, <2>2, <2>3
<1> QED
  BY <1>2, <1>4, <1>5, <1>6, <1>7

LEMMA StepDelivers ==
  ASSUME IInv, Next, NEW k \in Ids, sock[k].backlog # <<>>, sock'[k].state = "freed"
  PROVE  Hung(k) \/ svc'[k].in = svc[k].in \o sock[k].backlog
<1>1. sock[k] \in Socket /\ sock[k].state # "freed"
  BY DEF IInv, TypeOK, SocketsInv
<1>2. CASE Poll
  <2>1. sock'[k] = [sock[k] EXCEPT !.pend = Readiness(k) \cap sock[k].want]
    BY <1>2 DEF Poll
  <2>2. sock'[k].state = sock[k].state
    BY <1>1, <2>1 DEF Socket
  <2> QED
    BY <1>1, <2>2
<1>3. CASE \E t \in Transports : Handle(t)
  BY <1>3, HandleSpares
<1>4. CASE \E j \in Ids : SocketEvent(j)
  BY <1>4, EventDelivers
<1>5. CASE \E j \in Ids : ServiceStep(j) \/ Exit(j)
  BY <1>1, <1>5 DEF ServiceStep, Exit
<1>6. CASE HostStep
  BY <1>1, <1>6 DEF HostStep, UnchangedDevice
<1> QED
  BY <1>2, <1>3, <1>4, <1>5, <1>6 DEF Next, MainStep

\* A local socket is freed with a backlog only if its service has hung up or
\* is given the backlog in that same step: neither a CLSE nor a lost connection
\* drops what has been taken from the host (sockets.c:199-254,
\* local_socket_close_locked and local_socket_event_func).
THEOREM AdbBacklogDelivered == Spec => BacklogDelivered
<1>1. IInv /\ [Next]_vars =>
        [\A k \in Ids : (sock[k].backlog # <<>> /\ sock'[k].state = "freed") =>
           (Hung(k) \/ svc'[k].in = svc[k].in \o sock[k].backlog)]_vars
  BY StepDelivers
<1> QED
  BY <1>1, AdbInductive, PTL DEF Spec, BacklogDelivered

-----------------------------------------------------------------------------
(* Flow control                                                            *)

\* The packets of one kind that are about one stream: none, at most one, one.
Is(p, c, n) == p.cmd = c /\ p.stream = n
None(s, c, n) == \A i \in 1..Len(s) : ~Is(s[i], c, n)
AtMostOne(s, c, n) == \A i, j \in 1..Len(s) : Is(s[i], c, n) /\ Is(s[j], c, n) => i = j
One(s, c, n) == AtMostOne(s, c, n) /\ \E i \in 1..Len(s) : Is(s[i], c, n)

\* A packet to the device other than an OPEN names the socket it is about and
\* goes through that socket's transport; an OKAY to the host names it too.
AddressInv ==
  /\ \A t \in Transports : \A i \in 1..Len(toDev[t]) :
       /\ toDev[t][i].stream <= host.opened
       /\ t # cable.t => toDev[t][i].stream <= Base
       /\ toDev[t][i].cmd \in {"OKAY", "CLSE", "WRTE"} =>
            /\ toDev[t][i].arg1 \in Ids /\ toDev[t][i].arg1 < nextId
            /\ sock[toDev[t][i].arg1].n = toDev[t][i].stream
            /\ sock[toDev[t][i].arg1].state = "open" => sock[toDev[t][i].arg1].t = t
  /\ \A k \in Ids : sock[k].state = "open" /\ sock[k].t # cable.t => sock[k].n <= Base
  /\ cable.in => \A i \in 1..Len(toHost[cable.t]) : toHost[cable.t][i].cmd = "OKAY" =>
       /\ toHost[cable.t][i].arg0 \in Ids /\ toHost[cable.t][i].arg0 < nextId
       /\ sock[toHost[cable.t][i].arg0].n = toHost[cable.t][i].stream

\* The host knows its stream's socket from the first OKAY, before any status.
KnownInv ==
  /\ ~host.up => host.lastId = 0
  /\ host.rid # 0 => host.rid < nextId /\ sock[host.rid].n = host.opened
  /\ host.rid = 0 => host.sent = 0 /\ ~host.credit
  /\ host.id # 0 /\ host.rid = 0 =>
       \A i \in 1..Len(toHost[cable.t]) : Is(toHost[cable.t][i], "WRTE", host.opened) =>
         \E j \in 1..(i - 1) : Is(toHost[cable.t][j], "OKAY", host.opened)

\* The places of the permission to send to the device, and to the host.
InPermit(k) ==
  \/ /\ host.credit /\ sock[k].backlog = <<>>
     /\ None(toDev[sock[k].t], "WRTE", sock[k].n) /\ None(toHost[sock[k].t], "OKAY", sock[k].n)
  \/ /\ ~host.credit /\ sock[k].backlog # <<>>
     /\ None(toDev[sock[k].t], "WRTE", sock[k].n) /\ None(toHost[sock[k].t], "OKAY", sock[k].n)
  \/ /\ ~host.credit /\ sock[k].backlog = <<>>
     /\ One(toDev[sock[k].t], "WRTE", sock[k].n) /\ None(toHost[sock[k].t], "OKAY", sock[k].n)
  \/ /\ ~host.credit /\ sock[k].backlog = <<>>
     /\ None(toDev[sock[k].t], "WRTE", sock[k].n) /\ One(toHost[sock[k].t], "OKAY", sock[k].n)

OutPermit(k) ==
  \/ /\ "R" \in sock[k].want
     /\ None(toHost[sock[k].t], "WRTE", sock[k].n) /\ None(toDev[sock[k].t], "OKAY", sock[k].n)
  \/ /\ "R" \notin sock[k].want
     /\ One(toHost[sock[k].t], "WRTE", sock[k].n) /\ None(toDev[sock[k].t], "OKAY", sock[k].n)
  \/ /\ "R" \notin sock[k].want
     /\ None(toHost[sock[k].t], "WRTE", sock[k].n) /\ One(toDev[sock[k].t], "OKAY", sock[k].n)

\* An open socket has at most one packet on its way or in its backlog, be its
\* stream the host's or not, and no event it does not want.
PermitFlow(k) ==
  /\ sock[k].state = "open" =>
       /\ sock[k].pend \subseteq sock[k].want
       /\ AtMostOne(toDev[sock[k].t], "WRTE", sock[k].n)
       /\ sock[k].backlog # <<>> => None(toDev[sock[k].t], "WRTE", sock[k].n)
  /\ Live(k) =>
       /\ host.rid = 0 => One(toHost[sock[k].t], "OKAY", sock[k].n)
       /\ InPermit(k) /\ OutPermit(k)

\* Units that follow the first m of the blob, and how much the device has.
Follows(d, m) == \A i \in 1..Len(d) : d[i] = m + i
Done(k) == svc[k].off + Len(svc[k].in) + Len(sock[k].backlog)

ContentFlow(k) ==
  ~Hung(k) =>
    /\ Follows(svc[k].in, svc[k].off)
    /\ Follows(sock[k].backlog, svc[k].off + Len(svc[k].in))
    /\ sock[k].state = "open" => \A i \in 1..Len(toDev[sock[k].t]) :
         Is(toDev[sock[k].t][i], "WRTE", sock[k].n) =>
           /\ Follows(toDev[sock[k].t][i].data, Done(k))
           /\ Live(k) => host.sent = Done(k) + Len(toDev[sock[k].t][i].data)
    /\ Live(k) /\ None(toDev[sock[k].t], "WRTE", sock[k].n) => host.sent = Done(k)

Flow(k) == PermitFlow(k) /\ ContentFlow(k)
FInv == IInv /\ AddressInv /\ KnownInv /\ \A k \in Ids : Flow(k)

-----------------------------------------------------------------------------
(* Packets of one kind                                                     *)

\* The first packet is gone, or none.
Drops(s, u, d) ==
  /\ Len(s) \in Nat /\ Len(u) = Len(s) - d
  /\ \A i \in 1..Len(u) : i + d \in 1..Len(s) /\ u[i] = s[i + d]
\* Packets have been added.
Grows(s, u) ==
  /\ Len(s) \in Nat /\ Len(u) \in Nat /\ Len(s) <= Len(u)
  /\ \A i \in 1..Len(s) : u[i] = s[i]

NoNew(s, u, c, n) == \A i \in 1..Len(u) : Is(u[i], c, n) => \E j \in 1..Len(s) : u[i] = s[j]

\* Of a stream there are the same OKAYs and the same data as before.
Quiet(s, u, n) ==
  \A c \in {"WRTE", "OKAY"} :
    /\ None(u, c, n) <=> None(s, c, n)
    /\ One(s, c, n) => One(u, c, n)
    /\ AtMostOne(s, c, n) => AtMostOne(u, c, n)
    /\ NoNew(s, u, c, n)

LEMMA DropKeeps ==
  ASSUME NEW s, NEW u, NEW d \in {0, 1}, Drops(s, u, d), NEW c, NEW n,
         d = 1 /\ Len(s) # 0 => ~Is(s[1], c, n), d = 1 => Len(s) # 0
  PROVE  /\ None(u, c, n) <=> None(s, c, n)
         /\ AtMostOne(s, c, n) => AtMostOne(u, c, n)
         /\ One(s, c, n) => One(u, c, n)
         /\ NoNew(s, u, c, n)
<1>1. /\ Len(s) \in Nat /\ Len(u) \in Nat /\ Len(u) = Len(s) - d
      /\ \A i \in 1..Len(u) : i + d \in 1..Len(s) /\ u[i] = s[i + d]
  BY DEF Drops
<1>2. ASSUME NEW j \in 1..Len(s), Is(s[j], c, n)
      PROVE  j - d \in 1..Len(u) /\ u[j - d] = s[j] /\ Is(u[j - d], c, n)
  <2>1. d = 1 => j # 1
    BY <1>1, <1>2
  <2>2. j - d \in 1..Len(u) /\ j - d + d = j
    BY <1>1, <2>1
  <2>3. u[j - d] = s[j - d + d]
    BY <1>1, <2>2
  <2> QED
    BY <1>2, <2>2, <2>3
<1>3. ASSUME NEW i \in 1..Len(u), Is(u[i], c, n)
      PROVE  i + d \in 1..Len(s) /\ u[i] = s[i + d] /\ Is(s[i + d], c, n)
  BY <1>1, <1>3
<1>4. None(u, c, n) <=> None(s, c, n)
  BY <1>2, <1>3 DEF None
<1>5. ASSUME AtMostOne(s, c, n) PROVE AtMostOne(u, c, n)
  <2> SUFFICES ASSUME NEW i \in 1..Len(u), NEW j \in 1..Len(u), Is(u[i], c, n), Is(u[j], c, n)
               PROVE  i = j
    BY DEF AtMostOne
  <2>1. i + d = j + d
    BY <1>3, <1>5 DEF AtMostOne
  <2> QED
    BY <1>1, <2>1
<1>6. ASSUME One(s, c, n) PROVE One(u, c, n)
  BY <1>2, <1>5, <1>6 DEF One
<1>7. NoNew(s, u, c, n)
  BY <1>3 DEF NoNew
<1> QED
  BY <1>4, <1>5, <1>6, <1>7

LEMMA DropTakes ==
  ASSUME NEW s, NEW u, Drops(s, u, 1), NEW c, NEW n, Len(s) # 0, Is(s[1], c, n),
         AtMostOne(s, c, n)
  PROVE  None(u, c, n)
<1> SUFFICES ASSUME NEW i \in 1..Len(u), Is(u[i], c, n)
             PROVE  FALSE
  BY DEF None
<1>1. Len(s) \in Nat /\ Len(u) = Len(s) - 1 /\ i + 1 \in 1..Len(s) /\ u[i] = s[i + 1]
  BY DEF Drops
<1>2. 1 \in 1..Len(s)
  BY <1>1
<1>3. i + 1 = 1
  BY <1>1, <1>2 DEF AtMostOne
<1> QED
  BY <1>1, <1>3

LEMMA GrowKeeps ==
  ASSUME NEW s, NEW u, Grows(s, u), NEW c, NEW n,
         \A i \in (Len(s) + 1)..Len(u) : ~Is(u[i], c, n)
  PROVE  /\ None(u, c, n) <=> None(s, c, n)
         /\ AtMostOne(s, c, n) => AtMostOne(u, c, n)
         /\ One(s, c, n) => One(u, c, n)
         /\ NoNew(s, u, c, n)
<1>1. /\ Len(s) \in Nat /\ Len(u) \in Nat /\ Len(s) <= Len(u)
      /\ \A i \in 1..Len(s) : u[i] = s[i]
  BY DEF Grows
<1>2. ASSUME NEW j \in 1..Len(s), Is(s[j], c, n)
      PROVE  j \in 1..Len(u) /\ Is(u[j], c, n)
  BY <1>1, <1>2
<1>3. ASSUME NEW i \in 1..Len(u), Is(u[i], c, n)
      PROVE  i \in 1..Len(s) /\ u[i] = s[i] /\ Is(s[i], c, n)
  <2>1. i \notin (Len(s) + 1)..Len(u)
    BY <1>3
  <2>2. i \in 1..Len(s)
    BY <1>1, <2>1
  <2> QED
    BY <1>1, <1>3, <2>2
<1>4. None(u, c, n) <=> None(s, c, n)
  BY <1>2, <1>3 DEF None
<1>5. AtMostOne(s, c, n) => AtMostOne(u, c, n)
  BY <1>3 DEF AtMostOne
<1>6. One(s, c, n) => One(u, c, n)
  BY <1>2, <1>5 DEF One
<1>7. NoNew(s, u, c, n)
  BY <1>3 DEF NoNew
<1> QED
  BY <1>4, <1>5, <1>6, <1>7

LEMMA GrowAdds ==
  ASSUME NEW s, NEW u, Grows(s, u), NEW c, NEW n, None(s, c, n),
         NEW m \in (Len(s) + 1)..Len(u), Is(u[m], c, n),
         \A i \in (Len(s) + 1)..Len(u) : i # m => ~Is(u[i], c, n)
  PROVE  One(u, c, n)
<1>1. /\ Len(s) \in Nat /\ Len(u) \in Nat /\ \A i \in 1..Len(s) : u[i] = s[i]
  BY DEF Grows
<1>2. m \in 1..Len(u)
  BY <1>1
<1>3. ASSUME NEW i \in 1..Len(u), Is(u[i], c, n) PROVE i = m
  <2>1. i \in 1..Len(s) => FALSE
    BY <1>1, <1>3 DEF None
  <2>2. i \in (Len(s) + 1)..Len(u)
    BY <1>1, <2>1
  <2> QED
    BY <1>3, <2>2
<1> QED
  BY <1>2, <1>3 DEF One, AtMostOne

LEMMA QuietDrop ==
  ASSUME NEW s, NEW u, NEW d \in {0, 1}, Drops(s, u, d), NEW n,
         d = 1 => Len(s) # 0 /\ (s[1].stream # n \/ s[1].cmd \notin {"WRTE", "OKAY"})
  PROVE  Quiet(s, u, n)
<1> SUFFICES ASSUME NEW c \in {"WRTE", "OKAY"}
             PROVE  /\ None(u, c, n) <=> None(s, c, n)
                    /\ One(s, c, n) => One(u, c, n)
                    /\ AtMostOne(s, c, n) => AtMostOne(u, c, n)
                    /\ NoNew(s, u, c, n)
  BY DEF Quiet
<1>1. d = 1 => Len(s) # 0 /\ ~Is(s[1], c, n)
  BY DEF Is
<1> QED
  BY <1>1, DropKeeps

LEMMA QuietGrow ==
  ASSUME NEW s, NEW u, Grows(s, u), NEW n,
         \A i \in (Len(s) + 1)..Len(u) : u[i].stream # n \/ u[i].cmd \notin {"WRTE", "OKAY"}
  PROVE  Quiet(s, u, n)
<1> SUFFICES ASSUME NEW c \in {"WRTE", "OKAY"}
             PROVE  /\ None(u, c, n) <=> None(s, c, n)
                    /\ One(s, c, n) => One(u, c, n)
                    /\ AtMostOne(s, c, n) => AtMostOne(u, c, n)
                    /\ NoNew(s, u, c, n)
  BY DEF Quiet
<1>1. \A i \in (Len(s) + 1)..Len(u) : ~Is(u[i], c, n)
  BY DEF Is
<1> QED
  BY <1>1, GrowKeeps

LEMMA QuietSame ==
  ASSUME NEW s, NEW n
  PROVE  Quiet(s, s, n)
BY DEF Quiet, NoNew

\* What is appended, and what is said in several packets.
LEMMA Growing ==
  ASSUME NEW S, NEW s \in Seq(S), NEW ps \in Seq(S)
  PROVE  /\ Grows(s, s \o ps) /\ Len(s \o ps) = Len(s) + Len(ps) /\ Len(s) \in Nat /\ Len(ps) \in Nat
         /\ \A i \in (Len(s) + 1)..Len(s \o ps) : i - Len(s) \in 1..Len(ps) /\ (s \o ps)[i] = ps[i - Len(s)]
         /\ \A i \in 1..Len(ps) : Len(s) + i \in (Len(s) + 1)..Len(s \o ps) /\ (s \o ps)[Len(s) + i] = ps[i]
<1>1. /\ Len(s) \in Nat /\ Len(ps) \in Nat /\ Len(s \o ps) = Len(s) + Len(ps)
      /\ \A i \in 1..Len(s \o ps) : (s \o ps)[i] = IF i <= Len(s) THEN s[i] ELSE ps[i - Len(s)]
  BY Joined
<1>2. Grows(s, s \o ps)
  BY <1>1 DEF Grows
<1>3. ASSUME NEW i \in (Len(s) + 1)..Len(s \o ps)
      PROVE  i - Len(s) \in 1..Len(ps) /\ (s \o ps)[i] = ps[i - Len(s)]
  <2>1. i \in 1..Len(s \o ps) /\ ~(i <= Len(s)) /\ i - Len(s) \in 1..Len(ps)
    BY <1>1
  <2> QED
    BY <1>1, <2>1
<1>4. ASSUME NEW i \in 1..Len(ps)
      PROVE  Len(s) + i \in (Len(s) + 1)..Len(s \o ps) /\ (s \o ps)[Len(s) + i] = ps[i]
  <2>1. /\ Len(s) + i \in 1..Len(s \o ps) /\ ~(Len(s) + i <= Len(s)) /\ Len(s) + i - Len(s) = i
        /\ Len(s) + i \in (Len(s) + 1)..Len(s \o ps)
    BY <1>1
  <2>2. (s \o ps)[Len(s) + i] = ps[Len(s) + i - Len(s)]
    BY <1>1, <2>1
  <2> QED
    BY <2>1, <2>2
<1> QED
  BY <1>1, <1>2, <1>3, <1>4

-----------------------------------------------------------------------------
(* A socket that a step is not about, and one that it closes               *)

LEMMA Aside ==
  ASSUME NEW k \in Ids, Flow(k),
         sock'[k].state = sock[k].state, sock'[k].t = sock[k].t, sock'[k].n = sock[k].n,
         sock'[k].backlog = sock[k].backlog, sock'[k].want = sock[k].want,
         sock'[k].pend = sock[k].pend \/ sock'[k].pend \subseteq sock'[k].want,
         Hung(k) => Hung(k)', svc'[k].off = svc[k].off, svc'[k].in = svc[k].in,
         sock[k].state = "open" => Quiet(toDev[sock[k].t], toDev'[sock[k].t], sock[k].n),
         Live(k)' => /\ Live(k) /\ host'.credit = host.credit /\ host'.sent = host.sent
                     /\ host'.rid = 0 => host.rid = 0
                     /\ Quiet(toHost[sock[k].t], toHost'[sock[k].t], sock[k].n)
  PROVE  Flow(k)'
<1> DEFINE s == toDev[sock[k].t]
           u == toDev'[sock[k].t]
           h == toHost[sock[k].t]
           g == toHost'[sock[k].t]
           n == sock[k].n
<1>1. Done(k)' = Done(k)
  BY DEF Done
<1>2. ASSUME sock[k].state = "open"
      PROVE  \A c \in {"WRTE", "OKAY"} :
               /\ None(u, c, n) <=> None(s, c, n)
               /\ One(s, c, n) => One(u, c, n)
               /\ AtMostOne(s, c, n) => AtMostOne(u, c, n)
               /\ NoNew(s, u, c, n)
  BY <1>2 DEF Quiet
<1>3. ASSUME Live(k)'
      PROVE  /\ sock[k].state = "open" /\ Live(k)
             /\ \A c \in {"WRTE", "OKAY"} : /\ None(g, c, n) <=> None(h, c, n)
                                            /\ One(h, c, n) => One(g, c, n)
  BY <1>3 DEF Quiet, Live
<1> HIDE DEF s, u, h, g
<1>4. PermitFlow(k)'
  <2>1. ASSUME sock'[k].state = "open"
        PROVE  /\ sock'[k].pend \subseteq sock'[k].want
               /\ AtMostOne(u, "WRTE", n)
               /\ sock'[k].backlog # <<>> => None(u, "WRTE", n)
    BY <1>2, <2>1 DEF Flow, PermitFlow, s
  <2>2. ASSUME Live(k)'
        PROVE  /\ host'.rid = 0 => One(g, "OKAY", n)
               /\ InPermit(k)' /\ OutPermit(k)'
    <3>1. /\ host.rid = 0 => One(h, "OKAY", n)
          /\ InPermit(k) /\ OutPermit(k)
      BY <1>3, <2>2 DEF Flow, PermitFlow, h
    <3>2. host'.rid = 0 => One(g, "OKAY", n)
      BY <1>3, <2>2, <3>1
    <3>3. InPermit(k)'
      <4>1. \/ /\ host.credit /\ sock[k].backlog = <<>>
               /\ None(s, "WRTE", n) /\ None(h, "OKAY", n)
            \/ /\ ~host.credit /\ sock[k].backlog # <<>>
               /\ None(s, "WRTE", n) /\ None(h, "OKAY", n)
            \/ /\ ~host.credit /\ sock[k].backlog = <<>>
               /\ One(s, "WRTE", n) /\ None(h, "OKAY", n)
            \/ /\ ~host.credit /\ sock[k].backlog = <<>>
               /\ None(s, "WRTE", n) /\ One(h, "OKAY", n)
        BY <3>1 DEF InPermit, s, h
      <4>2. \/ /\ host'.credit /\ sock'[k].backlog = <<>>
               /\ None(u, "WRTE", n) /\ None(g, "OKAY", n)
            \/ /\ ~host'.credit /\ sock'[k].backlog # <<>>
               /\ None(u, "WRTE", n) /\ None(g, "OKAY", n)
            \/ /\ ~host'.credit /\ sock'[k].backlog = <<>>
               /\ One(u, "WRTE", n) /\ None(g, "OKAY", n)
            \/ /\ ~host'.credit /\ sock'[k].backlog = <<>>
               /\ None(u, "WRTE", n) /\ One(g, "OKAY", n)
        BY <1>2, <1>3, <2>2, <4>1
      <4> QED
        BY <4>2 DEF InPermit, u, g
    <3>4. OutPermit(k)'
      <4>1. \/ /\ "R" \in sock[k].want
               /\ None(h, "WRTE", n) /\ None(s, "OKAY", n)
            \/ /\ "R" \notin sock[k].want
               /\ One(h, "WRTE", n) /\ None(s, "OKAY", n)
            \/ /\ "R" \notin sock[k].want
               /\ None(h, "WRTE", n) /\ One(s, "OKAY", n)
        BY <3>1 DEF OutPermit, s, h
      <4>2. \/ /\ "R" \in sock'[k].want
               /\ None(g, "WRTE", n) /\ None(u, "OKAY", n)
            \/ /\ "R" \notin sock'[k].want
               /\ One(g, "WRTE", n) /\ None(u, "OKAY", n)
            \/ /\ "R" \notin sock'[k].want
               /\ None(g, "WRTE", n) /\ One(u, "OKAY", n)
        BY <1>2, <1>3, <2>2, <4>1
      <4> QED
        BY <4>2 DEF OutPermit, u, g
    <3> QED
      BY <3>2, <3>3, <3>4
  <2> QED
    BY <2>1, <2>2 DEF PermitFlow, u, g
<1>5. ContentFlow(k)'
  <2> SUFFICES ASSUME ~Hung(k)'
               PROVE  /\ Follows(svc'[k].in, svc'[k].off)
                      /\ Follows(sock'[k].backlog, svc'[k].off + Len(svc'[k].in))
                      /\ sock'[k].state = "open" => \A i \in 1..Len(u) :
                           Is(u[i], "WRTE", n) =>
                             /\ Follows(u[i].data, Done(k)')
                             /\ Live(k)' => host'.sent = Done(k)' + Len(u[i].data)
                      /\ Live(k)' /\ None(u, "WRTE", n) => host'.sent = Done(k)'
    BY DEF ContentFlow, u
  <2>1. /\ Follows(svc[k].in, svc[k].off)
        /\ Follows(sock[k].backlog, svc[k].off + Len(svc[k].in))
        /\ sock[k].state = "open" => \A i \in 1..Len(s) :
             Is(s[i], "WRTE", n) =>
               /\ Follows(s[i].data, Done(k))
               /\ Live(k) => host.sent = Done(k) + Len(s[i].data)
        /\ Live(k) /\ None(s, "WRTE", n) => host.sent = Done(k)
    BY DEF Flow, ContentFlow, s
  <2>2. ASSUME sock'[k].state = "open", NEW i \in 1..Len(u), Is(u[i], "WRTE", n)
        PROVE  /\ Follows(u[i].data, Done(k)')
               /\ Live(k)' => host'.sent = Done(k)' + Len(u[i].data)
    <3>1. PICK j \in 1..Len(s) : u[i] = s[j]
      BY <1>2, <2>2 DEF NoNew
    <3> QED
      BY <1>1, <1>3, <2>1, <2>2, <3>1
  <2>3. Live(k)' /\ None(u, "WRTE", n) => host'.sent = Done(k)'
    BY <1>1, <1>2, <1>3, <2>1
  <2> QED
    BY <2>1, <2>2, <2>3
<1> QED
  BY <1>4, <1>5 DEF Flow

LEMMA Gone ==
  ASSUME NEW k \in Ids, Flow(k), sock'[k].state # "open", Hung(k) => Hung(k)',
         svc'[k].off = svc[k].off, svc'[k].in = svc[k].in,
         sock'[k].backlog \in {sock[k].backlog, <<>>}
  PROVE  Flow(k)'
<1>1. PermitFlow(k)'
  BY DEF PermitFlow, Live
<1>2. Follows(<<>>, svc'[k].off + Len(svc'[k].in))
  BY EmptySeq DEF Follows
<1>3. ContentFlow(k)'
  BY <1>2 DEF ContentFlow, Flow, Live
<1> QED
  BY <1>1, <1>3 DEF Flow

-----------------------------------------------------------------------------
(* Steps of the device                                                     *)

Unlived == \A k \in Ids : /\ sock'[k].n = sock[k].n
                          /\ sock'[k].state = "open" => sock[k].state = "open" /\ sock'[k].t = sock[k].t

\* What is new for the host names its socket, and a status is of an open one.
Adds(p) ==
  /\ p.cmd = "OKAY" => p.arg0 \in Ids /\ p.arg0 < nextId /\ sock[p.arg0].n = p.stream
  /\ p.cmd = "WRTE" => \E k \in Ids : Cabled(k) /\ sock[k].n = p.stream
HostTold ==
  cable.in => /\ Grows(toHost[cable.t], toHost'[cable.t])
              /\ \A i \in (Len(toHost[cable.t]) + 1)..Len(toHost'[cable.t]) : Adds(toHost'[cable.t][i])

LEMMA AddressesKeep ==
  ASSUME FInv, UNCHANGED <<cable, host, nextId>>, NEW d \in [Transports -> {0, 1}], Shifted(d),
         Unlived, HostTold
  PROVE  AddressInv' /\ KnownInv'
<1>1. /\ AddressInv /\ KnownInv /\ cable.t \in Transports /\ Base' = Base
      /\ host.opened \in Nat /\ nextId \in Nat
      /\ host.rid # 0 => host.rid \in Ids
  <2>1. host.rid \in 0..MaxStreams /\ host.opened \in Nat
    BY ServerFields, Constants DEF FInv
  <2>2. nextId \in Nat
    <3>1. TypeOK
      BY DEF FInv, IInv
    <3>2. nextId \in 1..(MaxStreams + 1)
      BY <3>1 DEF TypeOK
    <3> QED
      BY <3>2, Constants
  <2> QED
    BY <2>1, <2>2, ServerFields, Constants DEF FInv, Base, Ids
<1>2. /\ \A t \in Transports : \A i \in 1..Len(toDev'[t]) :
           \E j \in 1..Len(toDev[t]) : toDev'[t][i] = toDev[t][j]
  BY DEF Shifted
<1>3. \A t \in Transports : \A i \in 1..Len(toDev'[t]) :
       /\ toDev'[t][i].stream <= host.opened
       /\ t # cable.t => toDev'[t][i].stream <= Base
       /\ toDev'[t][i].cmd \in {"OKAY", "CLSE", "WRTE"} =>
            /\ toDev'[t][i].arg1 \in Ids /\ toDev'[t][i].arg1 < nextId
            /\ sock'[toDev'[t][i].arg1].n = toDev'[t][i].stream
            /\ sock'[toDev'[t][i].arg1].state = "open" => sock'[toDev'[t][i].arg1].t = t
  <2> SUFFICES ASSUME NEW t \in Transports, NEW i \in 1..Len(toDev'[t])
               PROVE  /\ toDev'[t][i].stream <= host.opened
                      /\ t # cable.t => toDev'[t][i].stream <= Base
                      /\ toDev'[t][i].cmd \in {"OKAY", "CLSE", "WRTE"} =>
                           /\ toDev'[t][i].arg1 \in Ids /\ toDev'[t][i].arg1 < nextId
                           /\ sock'[toDev'[t][i].arg1].n = toDev'[t][i].stream
                           /\ sock'[toDev'[t][i].arg1].state = "open" =>
                                sock'[toDev'[t][i].arg1].t = t
    OBVIOUS
  <2>1. PICK j \in 1..Len(toDev[t]) : toDev'[t][i] = toDev[t][j]
    BY <1>2
  <2> DEFINE p == toDev[t][j]
  <2>2. /\ p.stream <= host.opened
        /\ t # cable.t => p.stream <= Base
        /\ p.cmd \in {"OKAY", "CLSE", "WRTE"} =>
             /\ p.arg1 \in Ids /\ p.arg1 < nextId
             /\ sock[p.arg1].n = p.stream
             /\ sock[p.arg1].state = "open" => sock[p.arg1].t = t
    BY <1>1 DEF AddressInv
  <2> HIDE DEF p
  <2>3. p.cmd \in {"OKAY", "CLSE", "WRTE"} =>
             /\ sock'[p.arg1].n = p.stream
             /\ sock'[p.arg1].state = "open" => sock'[p.arg1].t = t
    BY <2>2 DEF Unlived
  <2> QED
    BY <2>1, <2>2, <2>3 DEF p
<1>4. \A k \in Ids : sock'[k].state = "open" /\ sock'[k].t # cable.t => sock'[k].n <= Base
  BY <1>1 DEF AddressInv, Unlived
<1>5. ASSUME cable.in, NEW i \in 1..Len(toHost'[cable.t])
      PROVE  \/ i \in 1..Len(toHost[cable.t]) /\ toHost'[cable.t][i] = toHost[cable.t][i]
             \/ /\ i > Len(toHost[cable.t]) /\ Adds(toHost'[cable.t][i])
                /\ 1..Len(toHost[cable.t]) \subseteq 1..(i - 1)
  <2>1. /\ Len(toHost[cable.t]) \in Nat /\ Len(toHost'[cable.t]) \in Nat
        /\ \A j \in 1..Len(toHost[cable.t]) : toHost'[cable.t][j] = toHost[cable.t][j]
        /\ \A j \in (Len(toHost[cable.t]) + 1)..Len(toHost'[cable.t]) : Adds(toHost'[cable.t][j])
    BY <1>5 DEF HostTold, Grows
  <2>2. CASE i <= Len(toHost[cable.t])
    <3>1. i \in 1..Len(toHost[cable.t])
      BY <2>1, <2>2
    <3> QED
      BY <2>1, <3>1
  <2>3. CASE ~(i <= Len(toHost[cable.t]))
    <3>1. i \in (Len(toHost[cable.t]) + 1)..Len(toHost'[cable.t]) /\ i > Len(toHost[cable.t])
          /\ 1..Len(toHost[cable.t]) \subseteq 1..(i - 1)
      BY <2>1, <2>3
    <3> QED
      BY <2>1, <3>1
  <2> QED
    BY <2>2, <2>3
<1>6. ASSUME cable.in, NEW i \in 1..Len(toHost'[cable.t]), toHost'[cable.t][i].cmd = "OKAY"
      PROVE  /\ toHost'[cable.t][i].arg0 \in Ids /\ toHost'[cable.t][i].arg0 < nextId
             /\ sock'[toHost'[cable.t][i].arg0].n = toHost'[cable.t][i].stream
  <2>1. /\ toHost'[cable.t][i].arg0 \in Ids /\ toHost'[cable.t][i].arg0 < nextId
        /\ sock[toHost'[cable.t][i].arg0].n = toHost'[cable.t][i].stream
    BY <1>1, <1>5, <1>6 DEF AddressInv, Adds
  <2> QED
    BY <2>1 DEF Unlived
<1>7. AddressInv'
  BY <1>1, <1>3, <1>4, <1>6 DEF AddressInv
<1>8. ASSUME host.id # 0, host.rid = 0, NEW i \in 1..Len(toHost'[cable.t]),
             Is(toHost'[cable.t][i], "WRTE", host.opened)
      PROVE  \E j \in 1..(i - 1) : Is(toHost'[cable.t][j], "OKAY", host.opened)
  <2>1. cable.in
    BY <1>8 DEF FInv, IInv, LinkInv
  <2>2. /\ Len(toHost[cable.t]) \in Nat
        /\ \A j \in 1..Len(toHost[cable.t]) : toHost'[cable.t][j] = toHost[cable.t][j]
    BY <2>1 DEF HostTold, Grows
  <2>3. CASE i \in 1..Len(toHost[cable.t]) /\ toHost'[cable.t][i] = toHost[cable.t][i]
    <3>1. PICK j \in 1..(i - 1) : Is(toHost[cable.t][j], "OKAY", host.opened)
      BY <1>1, <1>8, <2>3 DEF KnownInv
    <3>2. j \in 1..Len(toHost[cable.t])
      BY <2>2, <2>3
    <3>3. toHost'[cable.t][j] = toHost[cable.t][j]
      BY <2>2, <3>2
    <3> QED
      BY <3>1, <3>3
  <2>4. CASE Adds(toHost'[cable.t][i]) /\ 1..Len(toHost[cable.t]) \subseteq 1..(i - 1)
    <3>1. PICK k \in Ids : Cabled(k) /\ sock[k].n = host.opened
      BY <1>8, <2>4 DEF Adds, Is
    <3>2. Live(k)
      BY <1>8, <2>1, <3>1 DEF Live, Cabled
    <3>3. One(toHost[cable.t], "OKAY", host.opened)
      BY <1>8, <3>1, <3>2 DEF FInv, Flow, PermitFlow, Cabled
    <3>4. PICK j \in 1..Len(toHost[cable.t]) : Is(toHost[cable.t][j], "OKAY", host.opened)
      BY <3>3 DEF One
    <3> QED
      BY <2>2, <2>4, <3>4
  <2> QED
    BY <1>5, <1>8, <2>1, <2>3, <2>4
<1>9. KnownInv'
  <2>1. host.rid # 0 => sock'[host.rid].n = sock[host.rid].n
    BY <1>1 DEF Unlived
  <2> QED
    BY <1>1, <1>8, <2>1 DEF KnownInv
<1> QED
  BY <1>7, <1>9

\* What a packet to the host makes of what is on its way.
LEMMA Telling ==
  ASSUME FInv, NEW t, NEW ps \in Seq(ToHost), Send(t, ps)
  PROVE  /\ cable.t \in Transports /\ toHost[cable.t] \in Seq(ToHost)
         /\ cable.in /\ t = cable.t => toHost'[cable.t] = toHost[cable.t] \o ps
         /\ ~(cable.in /\ t = cable.t) => toHost' = toHost
         /\ Grows(toHost[cable.t], toHost'[cable.t])
         /\ \A i \in (Len(toHost[cable.t]) + 1)..Len(toHost'[cable.t]) :
              /\ cable.in /\ t = cable.t
              /\ \E j \in 1..Len(ps) : toHost'[cable.t][i] = ps[j]
<1>1. /\ cable.t \in Transports /\ toHost \in [Transports -> Seq(ToHost)]
      /\ toHost[cable.t] \in Seq(ToHost)
  BY ServerFields DEF FInv
<1>2. CASE cable.in /\ t = cable.t
  <2>1. toHost'[cable.t] = toHost[cable.t] \o ps
    BY <1>1, <1>2 DEF Send
  <2>2. /\ Grows(toHost[cable.t], toHost'[cable.t]) /\ Len(toHost[cable.t]) \in Nat
        /\ \A i \in (Len(toHost[cable.t]) + 1)..Len(toHost'[cable.t]) :
             i - Len(toHost[cable.t]) \in 1..Len(ps) /\ toHost'[cable.t][i] = ps[i - Len(toHost[cable.t])]
    BY <1>1, <2>1, Growing
  <2>3. \A i \in (Len(toHost[cable.t]) + 1)..Len(toHost'[cable.t]) :
          \E j \in 1..Len(ps) : toHost'[cable.t][i] = ps[j]
    BY <2>2
  <2> QED
    BY <1>1, <1>2, <2>1, <2>2, <2>3
<1>3. CASE ~(cable.in /\ t = cable.t)
  <2>1. toHost' = toHost /\ Len(toHost[cable.t]) \in Nat
    BY <1>1, <1>3, LenProperties DEF Send
  <2>2. (Len(toHost[cable.t]) + 1)..Len(toHost'[cable.t]) = {}
    BY <2>1
  <2> QED
    BY <1>1, <1>3, <2>1, <2>2 DEF Grows
<1> QED
  BY <1>2, <1>3

\* The first packet of a transport is about this socket's stream, or asks for
\* nothing that is counted.
About1(k, d) ==
  \A t \in Transports : d[t] = 1 =>
    /\ Len(toDev[t]) # 0
    /\ toDev[t][1].stream = sock[k].n \/ toDev[t][1].cmd \notin {"WRTE", "OKAY"}

\* What a socket says.
Voice(k, ps) ==
  /\ ps \in Seq(ToHost)
  /\ \A i \in 1..Len(ps) : ps[i].stream = sock[k].n /\ (ps[i].cmd = "OKAY" => ps[i].arg0 = k)

LEMMA Owners ==
  ASSUME FInv, NEW k \in Ids
  PROVE  /\ sock[k].state = "open" => k < nextId /\ sock[k].t \in Transports /\ online[sock[k].t]
         /\ \A j \in Ids : k < nextId /\ j < nextId /\ sock[j].n = sock[k].n => j = k
<1>1. sock[k].state = "open" => sock[k].t \in Transports /\ online[sock[k].t]
  BY DEF FInv, IInv, SocketsInv
<1>2. \A j \in Ids : k < nextId /\ j < nextId /\ sock[j].n = sock[k].n => j = k
  BY DEF FInv, IInv, SocketsInv
<1> QED
  BY <1>1, <1>2, Given DEF FInv

\* A step of one socket: what it consumes and says is of its own stream.
LEMMA OneSocket ==
  ASSUME FInv, UNCHANGED <<cable, host, nextId>>, NEW k \in Ids, k < nextId,
         NEW d \in [Transports -> {0, 1}], Shifted(d), About1(k, d),
         NEW u, sock' = [sock EXCEPT ![k] = u], u.n = sock[k].n,
         u.state = "open" => sock[k].state = "open" /\ u.t = sock[k].t,
         \A j \in Ids : j # k => svc'[j] = svc[j],
         NEW ps, Voice(k, ps), ps # <<>> => sock[k].state = "open",
         Send(sock[k].t, ps) \/ (ps = <<>> /\ UNCHANGED toHost),
         Flow(k)'
  PROVE  AddressInv' /\ KnownInv' /\ \A j \in Ids : Flow(j)'
<1>1. sock \in [Ids -> Socket] /\ sock'[k] = u /\ \A j \in Ids : j # k => sock'[j] = sock[j]
  BY DEF FInv, IInv, TypeOK
<1>2. Unlived
  BY <1>1 DEF Unlived
<1>3. /\ cable.t \in Transports
      /\ Grows(toHost[cable.t], toHost'[cable.t])
      /\ \A i \in (Len(toHost[cable.t]) + 1)..Len(toHost'[cable.t]) :
           /\ sock[k].t = cable.t /\ sock[k].state = "open"
           /\ toHost'[cable.t][i].stream = sock[k].n
           /\ toHost'[cable.t][i].cmd = "OKAY" => toHost'[cable.t][i].arg0 = k
  <2>1. CASE Send(sock[k].t, ps)
    <3>1. /\ cable.t \in Transports
          /\ Grows(toHost[cable.t], toHost'[cable.t])
          /\ \A i \in (Len(toHost[cable.t]) + 1)..Len(toHost'[cable.t]) :
               /\ sock[k].t = cable.t
               /\ \E j \in 1..Len(ps) : toHost'[cable.t][i] = ps[j]
      BY <2>1, Telling DEF Voice
    <3>2. (\E j \in 1..Len(ps) : TRUE) => ps # <<>>
      BY EmptySeq
    <3> QED
      BY <3>1, <3>2 DEF Voice
  <2>2. CASE UNCHANGED toHost
    <3>1. cable.t \in Transports /\ Len(toHost[cable.t]) \in Nat
      BY ServerFields, LenProperties DEF FInv
    <3>2. (Len(toHost[cable.t]) + 1)..Len(toHost'[cable.t]) = {}
      BY <2>2, <3>1
    <3> QED
      BY <2>2, <3>1, <3>2 DEF Grows
  <2> QED
    BY <2>1, <2>2
<1>4. HostTold
  BY <1>3 DEF HostTold, Adds, Cabled
<1>5. AddressInv' /\ KnownInv'
  BY <1>2, <1>4, AddressesKeep
<1>6. ASSUME NEW j \in Ids, j # k PROVE Flow(j)'
  <2>1. sock'[j] = sock[j] /\ svc'[j] = svc[j] /\ Flow(j)
    BY <1>1, <1>6 DEF FInv
  <2>2. ASSUME sock[j].state = "open"
        PROVE  /\ sock[j].n # sock[k].n /\ sock[j].t \in Transports
               /\ Quiet(toDev[sock[j].t], toDev'[sock[j].t], sock[j].n)
    <3>1. sock[j].n # sock[k].n /\ sock[j].t \in Transports
      BY <1>6, <2>2, Owners
    <3> DEFINE t == sock[j].t
    <3>2. d[t] \in {0, 1} /\ Drops(toDev[t], toDev'[t], d[t])
      <4>1. Len(toDev[t]) \in Nat
        BY <3>1, LenProperties DEF FInv, IInv, TypeOK
      <4> QED
        BY <3>1, <4>1 DEF Shifted, Drops
    <3>3. d[t] = 1 => Len(toDev[t]) # 0 /\ (toDev[t][1].stream # sock[j].n \/ toDev[t][1].cmd \notin {"WRTE", "OKAY"})
      BY <3>1 DEF About1
    <3>4. Quiet(toDev[t], toDev'[t], sock[j].n)
      BY <3>2, <3>3, QuietDrop
    <3> QED
      BY <3>1, <3>4
  <2>3. ASSUME Live(j)'
        PROVE  Live(j) /\ Quiet(toHost[sock[j].t], toHost'[sock[j].t], sock[j].n)
    <3>1. Live(j) /\ sock[j].state = "open" /\ sock[j].t = cable.t
      BY <2>1, <2>3 DEF Live
    <3>2. sock[j].n # sock[k].n
      BY <2>2, <3>1
    <3>3. Quiet(toHost[cable.t], toHost'[cable.t], sock[j].n)
      BY <1>3, <3>2, QuietGrow
    <3> QED
      BY <3>1, <3>3
  <2>4. Hung(j) => Hung(j)'
    BY <2>1 DEF Hung
  <2> QED
    BY <2>1, <2>2, <2>3, <2>4, Aside
<1> QED
  BY <1>5, <1>6

\* A step that only closes sockets, or says what is not counted.
LEMMA ManySockets ==
  ASSUME FInv, UNCHANGED <<cable, host, nextId, svc>>,
         NEW d \in [Transports -> {0, 1}], Shifted(d),
         \A t \in Transports : d[t] = 1 =>
           /\ Len(toDev[t]) # 0
           /\ \/ toDev[t][1].cmd \notin {"WRTE", "OKAY"}
              \/ \A k \in Ids : sock[k].state = "open" => toDev[t][1].stream # sock[k].n,
         \A k \in Ids :
           /\ sock'[k].n = sock[k].n
           /\ \/ sock'[k] = sock[k]
              \/ /\ sock'[k].state # "open" /\ sock'[k].backlog \in {sock[k].backlog, <<>>}
              \/ /\ sock'[k].state = sock[k].state /\ sock'[k].t = sock[k].t
                 /\ sock'[k].backlog = sock[k].backlog /\ sock'[k].want = sock[k].want
                 /\ sock'[k].pend \subseteq sock'[k].want,
         NEW ps \in Seq(ToHost), \A i \in 1..Len(ps) : ps[i].cmd \notin {"WRTE", "OKAY"},
         NEW t0, Send(t0, ps) \/ UNCHANGED toHost
  PROVE  AddressInv' /\ KnownInv' /\ \A j \in Ids : Flow(j)'
<1>1. Unlived
  BY DEF Unlived
<1>2. /\ cable.t \in Transports
      /\ Grows(toHost[cable.t], toHost'[cable.t])
      /\ \A i \in (Len(toHost[cable.t]) + 1)..Len(toHost'[cable.t]) :
           toHost'[cable.t][i].cmd \notin {"WRTE", "OKAY"}
  <2>1. CASE Send(t0, ps)
    <3>1. /\ cable.t \in Transports
          /\ Grows(toHost[cable.t], toHost'[cable.t])
          /\ \A i \in (Len(toHost[cable.t]) + 1)..Len(toHost'[cable.t]) :
               \E j \in 1..Len(ps) : toHost'[cable.t][i] = ps[j]
      BY <2>1, Telling
    <3> QED
      BY <3>1
  <2>2. CASE UNCHANGED toHost
    <3>1. cable.t \in Transports /\ Len(toHost[cable.t]) \in Nat
      BY ServerFields, LenProperties DEF FInv
    <3>2. (Len(toHost[cable.t]) + 1)..Len(toHost'[cable.t]) = {}
      BY <2>2, <3>1
    <3> QED
      BY <2>2, <3>1, <3>2 DEF Grows
  <2> QED
    BY <2>1, <2>2
<1>3. AddressInv' /\ KnownInv'
  BY <1>1, <1>2, AddressesKeep DEF HostTold, Adds
<1>4. ASSUME NEW j \in Ids PROVE Flow(j)'
  <2>1. Flow(j) /\ (Hung(j) => Hung(j)')
    BY DEF FInv, Hung
  <2>2. CASE sock'[j].state # "open" /\ sock'[j].backlog \in {sock[j].backlog, <<>>}
    BY <2>1, <2>2, Gone
  <2>3. CASE /\ sock'[j].state = sock[j].state /\ sock'[j].t = sock[j].t
             /\ sock'[j].backlog = sock[j].backlog /\ sock'[j].want = sock[j].want
             /\ sock'[j].pend = sock[j].pend \/ sock'[j].pend \subseteq sock'[j].want
    <3>1. ASSUME sock[j].state = "open"
          PROVE  Quiet(toDev[sock[j].t], toDev'[sock[j].t], sock[j].n)
      <4> DEFINE t == sock[j].t
      <4>1. t \in Transports
        BY <3>1, Owners
      <4>2. d[t] \in {0, 1} /\ Drops(toDev[t], toDev'[t], d[t])
        <5>1. Len(toDev[t]) \in Nat
          BY <4>1, LenProperties DEF FInv, IInv, TypeOK
        <5> QED
          BY <4>1, <5>1 DEF Shifted, Drops
      <4>3. d[t] = 1 => Len(toDev[t]) # 0 /\ (toDev[t][1].stream # sock[j].n \/ toDev[t][1].cmd \notin {"WRTE", "OKAY"})
        BY <3>1, <4>1
      <4> QED
        BY <4>2, <4>3, QuietDrop
    <3>2. ASSUME Live(j)'
          PROVE  Live(j) /\ Quiet(toHost[sock[j].t], toHost'[sock[j].t], sock[j].n)
      <4>1. Live(j) /\ sock[j].t = cable.t
        BY <2>3, <3>2 DEF Live
      <4> QED
        BY <1>2, <4>1, QuietGrow
    <3> QED
      BY <2>1, <2>3, <3>1, <3>2, Aside
  <2> QED
    BY <2>2, <2>3
<1> QED
  BY <1>3, <1>4

-----------------------------------------------------------------------------
(* What a socket holds of the blob                                         *)

\* Units move on towards the thread, and packets leave.
LEMMA ContentMoves ==
  ASSUME NEW k \in Ids, Flow(k), Hung(k) => Hung(k)',
         ~Hung(k) => /\ Follows(svc'[k].in, svc'[k].off)
                     /\ Follows(sock'[k].backlog, svc'[k].off + Len(svc'[k].in)),
         ~Hung(k) => Done(k)' = Done(k),
         sock'[k].state = "open" =>
           /\ sock[k].state = "open" /\ sock'[k].t = sock[k].t /\ sock'[k].n = sock[k].n
           /\ None(toDev'[sock[k].t], "WRTE", sock[k].n) <=> None(toDev[sock[k].t], "WRTE", sock[k].n)
           /\ NoNew(toDev[sock[k].t], toDev'[sock[k].t], "WRTE", sock[k].n),
         Live(k)' => Live(k) /\ host'.sent = host.sent
  PROVE  ContentFlow(k)'
<1> SUFFICES ASSUME ~Hung(k)' PROVE ContentFlow(k)'
  BY DEF ContentFlow
<1> DEFINE s == toDev[sock[k].t]
           u == toDev'[sock[k].t]
           n == sock[k].n
<1>1. /\ sock[k].state = "open" => \A i \in 1..Len(s) :
           Is(s[i], "WRTE", n) =>
             /\ Follows(s[i].data, Done(k))
             /\ Live(k) => host.sent = Done(k) + Len(s[i].data)
      /\ Live(k) /\ None(s, "WRTE", n) => host.sent = Done(k)
  BY DEF Flow, ContentFlow
<1>2. Live(k)' => sock'[k].state = "open"
  BY DEF Live
<1>3. sock'[k].state = "open" =>
        /\ sock[k].state = "open" /\ (None(u, "WRTE", n) <=> None(s, "WRTE", n))
        /\ sock'[k].t = sock[k].t /\ sock'[k].n = sock[k].n
        /\ NoNew(s, u, "WRTE", n)
  OBVIOUS
<1> HIDE DEF s, u
<1>4. ASSUME sock'[k].state = "open", NEW i \in 1..Len(u), Is(u[i], "WRTE", n)
      PROVE  /\ Follows(u[i].data, Done(k)')
             /\ Live(k)' => host'.sent = Done(k)' + Len(u[i].data)
  <2>1. PICK j \in 1..Len(s) : u[i] = s[j]
    BY <1>3, <1>4 DEF NoNew
  <2> QED
    BY <1>1, <1>3, <1>4, <2>1
<1>5. Live(k)' /\ None(u, "WRTE", n) => host'.sent = Done(k)'
  BY <1>1, <1>2, <1>3
<1>6. sock'[k].state = "open" => toDev'[sock'[k].t] = u
  BY <1>3 DEF u
<1> QED
  BY <1>2, <1>3, <1>4, <1>5, <1>6 DEF ContentFlow

LEMMA Suffix ==
  ASSUME NEW S, NEW s \in Seq(S), NEW n \in 0..Len(s)
  PROVE  /\ SubSeq(s, n + 1, Len(s)) \in Seq(S) /\ Len(SubSeq(s, n + 1, Len(s))) = Len(s) - n
         /\ \A i \in 1..(Len(s) - n) : SubSeq(s, n + 1, Len(s))[i] = s[n + i]
<1>1. Len(s) \in Nat /\ n \in Int /\ n + 1 \in Int /\ Len(s) \in Int
  BY LenProperties
<1>2. \A i \in (n + 1)..Len(s) : s[i] \in S
  BY <1>1, ElementOfSeq
<1>3. \A i \in 1..(Len(s) - (n + 1) + 1) : SubSeq(s, n + 1, Len(s))[i] = s[n + 1 + i - 1]
  BY <1>1, <1>2, SubSeqProperties
<1>4. ASSUME NEW i \in 1..(Len(s) - n) PROVE SubSeq(s, n + 1, Len(s))[i] = s[n + i]
  <2>1. i \in 1..(Len(s) - (n + 1) + 1) /\ n + 1 + i - 1 = n + i
    BY <1>1
  <2> QED
    BY <1>3, <2>1
<1> QED
  BY <1>4, Parts

LEMMA FollowOn ==
  ASSUME NEW a \in Seq(Units), NEW b \in Seq(Units), NEW m \in Nat,
         Follows(a, m), Follows(b, m + Len(a))
  PROVE  Follows(a \o b, m)
<1>1. /\ Len(a) \in Nat /\ Len(b) \in Nat /\ Len(a \o b) = Len(a) + Len(b)
      /\ \A i \in 1..Len(a \o b) : (a \o b)[i] = IF i <= Len(a) THEN a[i] ELSE b[i - Len(a)]
  BY Joined
<1> SUFFICES ASSUME NEW i \in 1..Len(a \o b)
             PROVE  (a \o b)[i] = m + i
  BY DEF Follows
<1>2. CASE i <= Len(a)
  <2>1. i \in 1..Len(a)
    BY <1>1, <1>2
  <2> QED
    BY <1>1, <1>2, <2>1 DEF Follows
<1>3. CASE ~(i <= Len(a))
  <2>1. i - Len(a) \in 1..Len(b) /\ m + Len(a) + (i - Len(a)) = m + i
    BY <1>1, <1>3
  <2>2. b[i - Len(a)] = m + Len(a) + (i - Len(a))
    BY <2>1 DEF Follows
  <2> QED
    BY <1>1, <1>3, <2>1, <2>2
<1> QED
  BY <1>2, <1>3

\* What is written follows what the thread has, and what is left follows that.
LEMMA Fills ==
  ASSUME TypeOK, NEW k \in Ids, Len(svc[k].in) <= Room, NEW units \in Seq(Units),
         Follows(svc[k].in, svc[k].off), Follows(units, svc[k].off + Len(svc[k].in))
  PROVE  /\ Follows(Written(k, units)[k].in, svc[k].off)
         /\ Follows(Left(k, units), svc[k].off + Len(Written(k, units)[k].in))
         /\ Len(Written(k, units)[k].in) \in Nat /\ Len(Left(k, units)) \in Nat
         /\ Len(Written(k, units)[k].in) + Len(Left(k, units)) = Len(svc[k].in) + Len(units)
<1> DEFINE n == Takes(k, units)
           first == SubSeq(units, 1, n)
           in == svc[k].in
           off == svc[k].off
<1>1. Len(units) \in Nat /\ Len(in) \in Nat /\ in \in Seq(Units) /\ off \in Nat /\ Room \in Nat
  BY LenProperties, ServiceFields, Constants
<1>2. n \in 0..Len(units)
  BY <1>1 DEF Takes
<1>3. Written(k, units)[k].in = in \o first
  <2>1. svc \in [Ids -> Service] /\ svc[k] \in Service
    BY DEF TypeOK
  <2>2. Written(k, units) = [svc EXCEPT ![k].in = in \o first]
    BY DEF Written
  <2>3. Written(k, units)[k] = [svc[k] EXCEPT !.in = in \o first]
    BY <2>1, <2>2
  <2> QED
    BY <2>1, <2>3 DEF Service
<1> HIDE DEF n
<1>4. first \in Seq(Units) /\ Len(first) = n /\ \A i \in 1..n : first[i] = units[i]
  BY <1>2, Parts
<1>5. /\ Left(k, units) = SubSeq(units, n + 1, Len(units))
      /\ Len(Left(k, units)) = Len(units) - n
      /\ \A i \in 1..(Len(units) - n) : Left(k, units)[i] = units[n + i]
  <2>1. Left(k, units) = SubSeq(units, n + 1, Len(units))
    BY DEF Left, n
  <2> QED
    BY <1>2, <2>1, Suffix
<1>6. \A i \in 1..Len(units) : units[i] = off + Len(in) + i
  BY DEF Follows
<1> HIDE DEF first, in, off
<1>7. Follows(first, off + Len(in))
  <2> SUFFICES ASSUME NEW i \in 1..Len(first) PROVE first[i] = off + Len(in) + i
    BY DEF Follows
  <2>1. i \in 1..n /\ i \in 1..Len(units)
    BY <1>1, <1>2, <1>4
  <2> QED
    BY <1>4, <1>6, <2>1
<1>8. Follows(in \o first, off)
  <2>1. Follows(in, off)
    BY DEF in, off
  <2> QED
    BY <1>1, <1>4, <1>7, <2>1, FollowOn
<1>9. Len(in \o first) = Len(in) + n
  BY <1>1, <1>4, Joined
<1>10. Follows(Left(k, units), off + Len(in \o first))
  <2> SUFFICES ASSUME NEW i \in 1..Len(Left(k, units))
               PROVE  Left(k, units)[i] = off + Len(in \o first) + i
    BY DEF Follows
  <2>1. i \in 1..(Len(units) - n) /\ n + i \in 1..Len(units)
    BY <1>1, <1>2, <1>5
  <2>2. Left(k, units)[i] = off + Len(in) + (n + i)
    BY <1>5, <1>6, <2>1
  <2> QED
    BY <1>1, <1>2, <1>9, <2>1, <2>2
<1>11. Len(in \o first) \in Nat /\ Len(Left(k, units)) \in Nat
       /\ Len(in \o first) + Len(Left(k, units)) = Len(in) + Len(units)
  <2>1. n \in Int /\ n >= 0 /\ n <= Len(units)
    BY <1>1, <1>2
  <2>2. Len(Left(k, units)) = Len(units) - n
    BY <1>5
  <2> QED
    BY <1>1, <1>9, <2>1, <2>2
<1> QED
  BY <1>3, <1>8, <1>10, <1>11 DEF in, off

-----------------------------------------------------------------------------
(* Flow control: the packets the device takes                              *)

LEMMA Popped ==
  ASSUME FInv, NEW t \in Transports, Handle(t)
  PROVE  /\ t \in ready /\ Len(toDev[t]) \in Nat /\ Len(toDev[t]) # 0 /\ 1 \in 1..Len(toDev[t])
         /\ Head(toDev[t]) = toDev[t][1] /\ toDev[t][1] \in FromHost
         /\ UNCHANGED <<cable, host>>
         /\ Drops(toDev[t], toDev'[t], 1)
         /\ \E d \in [Transports -> {0, 1}] :
              Shifted(d) /\ \A u \in Transports : d[u] = IF u = t THEN 1 ELSE 0
<1>1. /\ t \in ready /\ ready' = ready \ {t} /\ toDev' = [toDev EXCEPT ![t] = Tail(@)]
      /\ UNCHANGED <<cable, host>>
  BY DEF Handle
<1>2. PICK d \in [Transports -> {0, 1}] :
        Shifted(d) /\ \A u \in Transports : d[u] = IF u = t THEN 1 ELSE 0
  BY <1>1, Popping DEF FInv
<1>3. /\ Len(toDev[t]) \in Nat /\ 1 \in 1..Len(toDev[t])
      /\ Head(toDev[t]) = toDev[t][1] /\ toDev[t][1] \in FromHost
  BY <1>1, FirstPacket DEF FInv
<1>4. Len(toDev[t]) # 0
  BY <1>3
<1>5. Drops(toDev[t], toDev'[t], 1)
  BY <1>2, <1>3 DEF Shifted, Drops
<1> QED
  BY <1>1, <1>2, <1>3, <1>4, <1>5

LEMMA PacketFor ==
  ASSUME FInv, NEW t \in Transports, Handle(t), NEW p, p = Head(toDev[t]),
         p.cmd \in {"OKAY", "CLSE", "WRTE"}, Found(p)
  PROVE  /\ p.arg1 \in Ids /\ p.arg1 < nextId /\ sock[p.arg1].state = "open"
         /\ sock[p.arg1].n = p.stream /\ sock[p.arg1].t = t
         /\ p = toDev[t][1]
<1>1. p = toDev[t][1] /\ 1 \in 1..Len(toDev[t])
  BY Popped
<1>2. p.arg1 \in Ids /\ sock[p.arg1].state = "open"
  BY DEF Found
<1> QED
  BY <1>1, <1>2 DEF FInv, AddressInv

LEMMA HandleOne ==
  ASSUME FInv, NEW t \in Transports, Handle(t), NEW p, p = Head(toDev[t]),
         p.cmd \in {"OKAY", "CLSE", "WRTE"}, Found(p), UNCHANGED nextId,
         NEW k, k = p.arg1,
         NEW u, sock' = [sock EXCEPT ![k] = u], u.n = sock[k].n,
         u.state = "open" => u.t = sock[k].t,
         \A j \in Ids : j # k => svc'[j] = svc[j],
         NEW ps, Voice(k, ps), Send(t, ps) \/ (ps = <<>> /\ UNCHANGED toHost),
         Flow(k)'
  PROVE  AddressInv' /\ KnownInv' /\ \A j \in Ids : Flow(j)'
<1>1. /\ k \in Ids /\ k < nextId /\ sock[k].state = "open" /\ sock[k].n = p.stream
      /\ sock[k].t = t /\ p = toDev[t][1]
  BY PacketFor
<1>2. PICK d \in [Transports -> {0, 1}] :
        Shifted(d) /\ \A v \in Transports : d[v] = IF v = t THEN 1 ELSE 0
  BY Popped
<1>3. UNCHANGED <<cable, host>> /\ Len(toDev[t]) # 0
  BY Popped
<1>4. About1(k, d)
  BY <1>1, <1>2, <1>3 DEF About1
<1> QED
  BY <1>1, <1>2, <1>3, <1>4, OneSocket

\* A lasting kind of packet: it is not the one that is taken.
LEMMA Kept ==
  ASSUME FInv, NEW t \in Transports, Handle(t), NEW c, Head(toDev[t]).cmd # c, NEW n
  PROVE  /\ None(toDev'[t], c, n) <=> None(toDev[t], c, n)
         /\ AtMostOne(toDev[t], c, n) => AtMostOne(toDev'[t], c, n)
         /\ One(toDev[t], c, n) => One(toDev'[t], c, n)
         /\ NoNew(toDev[t], toDev'[t], c, n)
<1>1. /\ Drops(toDev[t], toDev'[t], 1) /\ Len(toDev[t]) # 0 /\ ~Is(toDev[t][1], c, n)
  BY Popped DEF Is
<1> QED
  BY <1>1, DropKeeps

LEMMA FdePend ==
  ASSUME NEW s \in Socket, NEW e \in SUBSET {"R", "W"}, s.pend \subseteq e
  PROVE  FdeSet(s, e).pend \subseteq FdeSet(s, e).want
<1>1. s.want = e => FdeSet(s, e) = s
  BY DEF FdeSet
<1>2. s.want # e => FdeSet(s, e).pend = s.pend \ e /\ FdeSet(s, e).want = e
  BY DEF FdeSet, Socket
<1> QED
  BY <1>1, <1>2

LEMMA FlowOkayStep ==
  ASSUME FInv, NEW t \in Transports, Handle(t), NEW p, p = Head(toDev[t]), p.cmd = "OKAY",
         HandleOkay(t, p)
  PROVE  AddressInv' /\ KnownInv' /\ \A j \in Ids : Flow(j)'
<1> DEFINE k == p.arg1
           u == FdeSet(sock[k], sock[k].want \cup {"R"})
           n == sock[k].n
<1>1. /\ Found(p) /\ sock' = [sock EXCEPT ![k] = u]
      /\ UNCHANGED <<online, toHost, nextId, svc>>
  BY DEF HandleOkay
<1>2. /\ k \in Ids /\ k < nextId /\ sock[k].state = "open" /\ n = p.stream
      /\ sock[k].t = t /\ p = toDev[t][1]
  BY <1>1, PacketFor
<1> HIDE DEF k
<1>3. sock[k] \in Socket /\ sock \in [Ids -> Socket] /\ Flow(k)
  BY <1>2 DEF FInv, IInv, TypeOK
<1>4. sock[k].want \cup {"R"} \in SUBSET {"R", "W"}
  BY <1>3, Fields
<1>5. /\ u \in Socket /\ u.state = sock[k].state /\ u.t = sock[k].t /\ u.rid = sock[k].rid
      /\ u.n = sock[k].n /\ u.backlog = sock[k].backlog /\ u.want = sock[k].want \cup {"R"}
  BY <1>3, <1>4, FdeSets
<1>6. u.pend \subseteq u.want
  <2>1. sock[k].pend \subseteq sock[k].want \cup {"R"}
    BY <1>2, <1>3 DEF Flow, PermitFlow
  <2> QED
    BY <1>3, <1>4, <2>1, FdePend
<1> HIDE DEF u
<1>7. sock'[k] = u /\ svc'[k] = svc[k] /\ UNCHANGED <<cable, host>>
  BY <1>1, <1>2, <1>3, Popped
<1>8. /\ None(toDev'[t], "WRTE", n) <=> None(toDev[t], "WRTE", n)
      /\ AtMostOne(toDev[t], "WRTE", n) => AtMostOne(toDev'[t], "WRTE", n)
      /\ One(toDev[t], "WRTE", n) => One(toDev'[t], "WRTE", n)
      /\ NoNew(toDev[t], toDev'[t], "WRTE", n)
  BY Kept
<1>9. ContentFlow(k)'
  <2>1. Done(k)' = Done(k) /\ (Hung(k) => Hung(k)')
    BY <1>5, <1>7 DEF Done, Hung
  <2>2. ~Hung(k) => /\ Follows(svc[k].in, svc[k].off)
                    /\ Follows(sock[k].backlog, svc[k].off + Len(svc[k].in))
    BY <1>3 DEF Flow, ContentFlow
  <2>3. Live(k)' => Live(k) /\ host'.sent = host.sent
    BY <1>5, <1>7 DEF Live
  <2> QED
    BY <1>2, <1>3, <1>5, <1>7, <1>8, <2>1, <2>2, <2>3, ContentMoves
<1>10. PermitFlow(k)'
  <2>1. /\ sock[k].pend \subseteq sock[k].want /\ AtMostOne(toDev[t], "WRTE", n)
        /\ sock[k].backlog # <<>> => None(toDev[t], "WRTE", n)
    BY <1>2, <1>3 DEF Flow, PermitFlow
  <2>2. ASSUME Live(k)'
        PROVE  (host'.rid = 0 => One(toHost'[t], "OKAY", n)) /\ InPermit(k)' /\ OutPermit(k)'
    <3>1. Live(k)
      BY <1>5, <1>7, <2>2 DEF Live
    <3>2. (host.rid = 0 => One(toHost[t], "OKAY", n)) /\ InPermit(k) /\ OutPermit(k)
      BY <1>2, <1>3, <3>1 DEF Flow, PermitFlow
    <3>3. InPermit(k)'
      <4>1. \/ /\ host.credit /\ sock[k].backlog = <<>>
               /\ None(toDev[t], "WRTE", n) /\ None(toHost[t], "OKAY", n)
            \/ /\ ~host.credit /\ sock[k].backlog # <<>>
               /\ None(toDev[t], "WRTE", n) /\ None(toHost[t], "OKAY", n)
            \/ /\ ~host.credit /\ sock[k].backlog = <<>>
               /\ One(toDev[t], "WRTE", n) /\ None(toHost[t], "OKAY", n)
            \/ /\ ~host.credit /\ sock[k].backlog = <<>>
               /\ None(toDev[t], "WRTE", n) /\ One(toHost[t], "OKAY", n)
        BY <1>2, <3>2 DEF InPermit
      <4> QED
        BY <1>1, <1>2, <1>5, <1>7, <1>8, <4>1 DEF InPermit
    <3>4. OutPermit(k)'
      <4>1. ~None(toDev[t], "OKAY", n)
        BY <1>2, Popped DEF None, Is
      <4>2. None(toHost[t], "WRTE", n) /\ One(toDev[t], "OKAY", n)
        BY <1>2, <3>2, <4>1 DEF OutPermit
      <4>3. None(toDev'[t], "OKAY", n)
        <5>1. Is(toDev[t][1], "OKAY", n)
          BY <1>2 DEF Is
        <5>2. Drops(toDev[t], toDev'[t], 1) /\ Len(toDev[t]) # 0
          BY Popped
        <5> QED
          BY <4>2, <5>1, <5>2, DropTakes DEF One
      <4> QED
        BY <1>1, <1>2, <1>5, <1>7, <4>2, <4>3 DEF OutPermit
    <3> QED
      BY <1>1, <1>7, <3>2, <3>3, <3>4
  <2> QED
    BY <1>2, <1>5, <1>6, <1>7, <1>8, <2>1, <2>2 DEF PermitFlow
<1>11. Flow(k)'
  BY <1>9, <1>10 DEF Flow
<1>12. Voice(k, <<>>)
  BY EmptySeq DEF Voice
<1> QED
  BY <1>1, <1>2, <1>5, <1>11, <1>12, HandleOne DEF k

LEMMA ClosedBacklog ==
  ASSUME NEW s \in Socket
  PROVE  Closed(s).backlog \in {s.backlog, <<>>}
<1>1. CASE s.state = "closing" \/ s.backlog = <<>>
  <2>1. Destroyed(s).backlog = <<>>
    BY NoSocketFields DEF Destroyed, Socket
  <2> QED
    BY <1>1, <2>1 DEF Closed
<1>2. CASE ~(s.state = "closing" \/ s.backlog = <<>>)
  <2> DEFINE u == FdeSet(s, s.want \ {"R"})
  <2>1. Closed(s) = [u EXCEPT !.state = "closing"]
    BY <1>2 DEF Closed
  <2>2. s.want \ {"R"} \in SUBSET {"R", "W"}
    BY Fields
  <2>3. u \in Socket /\ u.backlog = s.backlog
    BY <2>2, FdeSets
  <2> HIDE DEF u
  <2> QED
    BY <2>1, <2>3 DEF Socket
<1> QED
  BY <1>1, <1>2

\* What a socket says is of its stream.
LEMMA PeerVoice ==
  ASSUME FInv, NEW k \in Ids, NEW a \in 0..MaxStreams, NEW c \in {"OKAY", "CLSE", "WRTE"},
         NEW d \in Seq({"OKAY", "FAIL"}), c = "OKAY" => a = k
  PROVE  /\ Voice(k, ToPeer(k, c, a, d)) /\ Len(ToPeer(k, c, a, d)) = 1
         /\ ToPeer(k, c, a, d)[1].cmd = c /\ ToPeer(k, c, a, d)[1].stream = sock[k].n
<1> DEFINE q == Packet(c, a, sock[k].rid, sock[k].n, d)
<1>1. sock[k].rid \in 0..MaxStreams /\ sock[k].n \in 0..MaxStreams
  BY Given, Fields DEF FInv
<1>2. q \in ToHost /\ q.cmd = c /\ q.stream = sock[k].n /\ q.arg0 = a
  BY <1>1, Packets
<1>3. ToPeer(k, c, a, d) = <<q>>
  BY DEF ToPeer
<1> HIDE DEF q
<1>4. <<q>> \in Seq(ToHost) /\ Len(<<q>>) = 1 /\ <<q>>[1] = q
  BY <1>2
<1>5. \A i \in 1..1 : i = 1
  OBVIOUS
<1> QED
  BY <1>2, <1>3, <1>4, <1>5 DEF Voice

LEMMA FarewellVoice ==
  ASSUME FInv, NEW k \in Ids
  PROVE  Voice(k, Farewell(k)) /\ Len(Farewell(k)) = 1 /\ Farewell(k)[1].cmd = "CLSE"
<1>1. <<>> \in Seq({"OKAY", "FAIL"}) /\ 0 \in 0..MaxStreams
  BY Constants, EmptySeq
<1> QED
  BY <1>1, PeerVoice, ZenonT(30) DEF Farewell

LEMMA ClosesFlow ==
  ASSUME FInv, NEW k \in Ids, sock' = [sock EXCEPT ![k] = Closed(sock[k])], UNCHANGED svc
  PROVE  /\ Flow(k)' /\ Closed(sock[k]).state # "open" /\ Closed(sock[k]).n = sock[k].n
<1>1. sock[k] \in Socket /\ Consistent(sock[k]) /\ sock \in [Ids -> Socket]
  BY Given DEF FInv, IInv, TypeOK
<1>2. Closed(sock[k]).state # "open" /\ Closed(sock[k]).n = sock[k].n
  BY <1>1, ClosedFields DEF Wanes
<1>3. sock'[k] = Closed(sock[k]) /\ Closed(sock[k]).backlog \in {sock[k].backlog, <<>>}
  BY <1>1, ClosedBacklog
<1>4. Flow(k) /\ (Hung(k) => Hung(k)')
  BY DEF FInv, Hung
<1> QED
  BY <1>2, <1>3, <1>4, Gone

LEMMA FlowCloseStep ==
  ASSUME FInv, NEW t \in Transports, Handle(t), NEW p, p = Head(toDev[t]),
         p.cmd \in {"CLSE", "WRTE"}, Found(p), CloseSocket(p.arg1), UNCHANGED <<nextId, svc>>
  PROVE  AddressInv' /\ KnownInv' /\ \A j \in Ids : Flow(j)'
<1> DEFINE k == p.arg1
<1>1. /\ sock' = [sock EXCEPT ![k] = Closed(sock[k])] /\ Send(sock[k].t, Farewell(k))
  BY DEF CloseSocket
<1>2. k \in Ids /\ sock[k].t = t
  BY PacketFor
<1> HIDE DEF k
<1>3. /\ Flow(k)' /\ Closed(sock[k]).state # "open" /\ Closed(sock[k]).n = sock[k].n
  BY <1>1, <1>2, ClosesFlow
<1>4. Voice(k, Farewell(k))
  BY <1>2, FarewellVoice
<1> QED
  BY <1>1, <1>2, <1>3, <1>4, HandleOne DEF k

LEMMA GrowsByOne ==
  ASSUME NEW S, NEW s \in Seq(S), NEW ps \in Seq(S), Len(ps) = 1
  PROVE  /\ Grows(s, s \o ps)
         /\ \A i \in (Len(s) + 1)..Len(s \o ps) : i = Len(s) + 1 /\ (s \o ps)[i] = ps[1]
         /\ Len(s) + 1 \in (Len(s) + 1)..Len(s \o ps)
<1>1. /\ Grows(s, s \o ps) /\ Len(s \o ps) = Len(s) + Len(ps) /\ Len(s) \in Nat
      /\ \A i \in (Len(s) + 1)..Len(s \o ps) : i - Len(s) \in 1..Len(ps) /\ (s \o ps)[i] = ps[i - Len(s)]
  BY Growing, ZenonT(30)
<1>2. ASSUME NEW i \in (Len(s) + 1)..Len(s \o ps)
      PROVE  i = Len(s) + 1 /\ (s \o ps)[i] = ps[1]
  <2>1. i - Len(s) = 1 /\ i = Len(s) + 1
    BY <1>1
  <2>2. (s \o ps)[i] = ps[i - Len(s)]
    BY <1>1
  <2> QED
    BY <2>1, <2>2
<1>3. Len(s) + 1 \in (Len(s) + 1)..Len(s \o ps)
  BY <1>1
<1> QED
  BY <1>1, <1>2, <1>3

\* The OKAY for a packet of data.
LEMMA OkayVoice ==
  ASSUME FInv, NEW k \in Ids, NEW p \in FromHost, p.stream = sock[k].n
  PROVE  LET q == Packet("OKAY", k, p.arg0, p.stream, <<>>)
         IN  /\ q.cmd = "OKAY" /\ q.stream = sock[k].n /\ Voice(k, <<q>>)
             /\ Len(<<q>>) = 1 /\ <<q>>[1] = q
<1> DEFINE q == Packet("OKAY", k, p.arg0, p.stream, <<>>)
<1>1. k \in 0..MaxStreams /\ p.arg0 \in 0..MaxStreams /\ p.stream \in 0..MaxStreams
  BY PacketFields, Constants DEF Ids
<1>2. <<>> \in Seq({"OKAY", "FAIL"})
  BY EmptySeq
<1>3. q \in ToHost /\ q.cmd = "OKAY" /\ q.stream = sock[k].n /\ q.arg0 = k
  BY <1>1, <1>2 DEF Packet, ToHost
<1> HIDE DEF q
<1>4. <<q>> \in Seq(ToHost) /\ Len(<<q>>) = 1 /\ <<q>>[1] = q
  BY <1>3
<1>5. \A i \in 1..1 : i = 1
  OBVIOUS
<1>6. Voice(k, <<q>>)
  BY <1>3, <1>4, <1>5 DEF Voice
<1> QED
  BY <1>3, <1>4, <1>6 DEF q

\* A packet with data for an open socket: there is none other, and the socket
\* has no backlog.
LEMMA DataTaken ==
  ASSUME FInv, NEW t \in Transports, Handle(t), NEW p, p = Head(toDev[t]), p.cmd = "WRTE",
         Found(p), NEW k, k = p.arg1
  PROVE  /\ k \in Ids /\ k < nextId /\ sock[k].state = "open" /\ sock[k].n = p.stream /\ sock[k].t = t
         /\ sock[k].backlog = <<>> /\ None(toDev'[t], "WRTE", sock[k].n) /\ p.data \in Seq(Units)
         /\ sock[k].pend \subseteq sock[k].want
         /\ ~Hung(k) => /\ Follows(svc[k].in, svc[k].off)
                        /\ Follows(p.data, svc[k].off + Len(svc[k].in))
                        /\ Live(k) => host.sent = svc[k].off + Len(svc[k].in) + Len(p.data)
         /\ Live(k) => /\ ~host.credit /\ None(toHost[t], "OKAY", sock[k].n) /\ host.rid # 0
                       /\ OutPermit(k)
<1>1. /\ k \in Ids /\ k < nextId /\ sock[k].state = "open" /\ sock[k].n = p.stream
      /\ sock[k].t = t /\ p = toDev[t][1]
  BY PacketFor
<1>2. /\ 1 \in 1..Len(toDev[t]) /\ Len(toDev[t]) # 0 /\ Drops(toDev[t], toDev'[t], 1)
      /\ toDev[t][1] \in FromHost
  BY Popped
<1>3. Flow(k)
  BY <1>1 DEF FInv
<1> DEFINE n == sock[k].n
<1>4. Is(toDev[t][1], "WRTE", n)
  BY <1>1 DEF Is
<1>5. ~None(toDev[t], "WRTE", n)
  BY <1>2, <1>4 DEF None
<1>6. /\ sock[k].pend \subseteq sock[k].want /\ AtMostOne(toDev[t], "WRTE", n)
      /\ sock[k].backlog = <<>>
  BY <1>1, <1>3, <1>5 DEF Flow, PermitFlow
<1>7. None(toDev'[t], "WRTE", n)
  BY <1>2, <1>4, <1>6, DropTakes
<1>8. p.data \in Seq(Units)
  BY <1>1, <1>2, PacketFields
<1>9. ASSUME ~Hung(k)
      PROVE  /\ Follows(svc[k].in, svc[k].off)
             /\ Follows(p.data, svc[k].off + Len(svc[k].in))
             /\ Live(k) => host.sent = svc[k].off + Len(svc[k].in) + Len(p.data)
  <2>1. Done(k) = svc[k].off + Len(svc[k].in)
    <3>1. Len(svc[k].in) \in Nat /\ svc[k].off \in Nat /\ Len(sock[k].backlog) = 0
      BY <1>1, <1>6, EmptySeq, LenProperties, ServiceFields, Constants DEF FInv, IInv
    <3> QED
      BY <3>1 DEF Done
  <2>2. /\ Follows(svc[k].in, svc[k].off)
        /\ Follows(toDev[t][1].data, Done(k))
        /\ Live(k) => host.sent = Done(k) + Len(toDev[t][1].data)
    BY <1>1, <1>2, <1>3, <1>4, <1>9 DEF Flow, ContentFlow
  <2> QED
    BY <1>1, <2>1, <2>2
<1>10. ASSUME Live(k)
       PROVE  ~host.credit /\ None(toHost[t], "OKAY", n) /\ host.rid # 0 /\ OutPermit(k)
  <2>1. (host.rid = 0 => One(toHost[t], "OKAY", n)) /\ InPermit(k) /\ OutPermit(k)
    BY <1>1, <1>3, <1>10 DEF Flow, PermitFlow
  <2>2. ~host.credit /\ None(toHost[t], "OKAY", n)
    BY <1>1, <1>5, <2>1 DEF InPermit
  <2>3. ~One(toHost[t], "OKAY", n)
    BY <2>2 DEF One, None
  <2> QED
    BY <2>1, <2>2, <2>3
<1> QED
  BY <1>1, <1>6, <1>7, <1>8, <1>9, <1>10

\* What the thread cannot take yet holds the permission back.
LEMMA DataWritten ==
  ASSUME FInv, NEW t \in Transports, Handle(t), NEW p, p = Head(toDev[t]), p.cmd = "WRTE",
         Found(p), NEW k, k = p.arg1,
         svc' = Written(k, p.data),
         sock'[k].state = "open", sock'[k].t = sock[k].t, sock'[k].n = sock[k].n,
         "R" \in sock'[k].want <=> "R" \in sock[k].want, sock'[k].pend \subseteq sock'[k].want,
         sock'[k].backlog = Left(k, p.data),
         \/ Left(k, p.data) # <<>> /\ UNCHANGED toHost
         \/ Left(k, p.data) = <<>> /\ Send(t, <<Packet("OKAY", k, p.arg0, p.stream, <<>>)>>)
  PROVE  Flow(k)'
<1> DEFINE n == sock[k].n
           left == Left(k, p.data)
<1>1. /\ k \in Ids /\ k < nextId /\ sock[k].state = "open" /\ n = p.stream /\ sock[k].t = t
      /\ None(toDev'[t], "WRTE", n) /\ p.data \in Seq(Units)
      /\ ~Hung(k) => /\ Follows(svc[k].in, svc[k].off)
                     /\ Follows(p.data, svc[k].off + Len(svc[k].in))
                     /\ Live(k) => host.sent = svc[k].off + Len(svc[k].in) + Len(p.data)
      /\ Live(k) => /\ ~host.credit /\ None(toHost[t], "OKAY", n) /\ host.rid # 0
                    /\ OutPermit(k)
  BY ONLY FInv, t \in Transports, Handle(t), p = Head(toDev[t]), p.cmd = "WRTE", Found(p),
          k = p.arg1, DataTaken, SMTT(30)
<1>2. UNCHANGED <<cable, host>>
  BY Popped
<1>3. TypeOK /\ Len(svc[k].in) <= Room
  BY <1>1, Given DEF FInv, IInv
<1>4. svc'[k].state = svc[k].state /\ svc'[k].off = svc[k].off
  <2>1. k \in Ids /\ p.data \in Seq(Units)
    BY <1>1
  <2>2. /\ Written(k, p.data)[k].state = svc[k].state
        /\ Written(k, p.data)[k].off = svc[k].off
    BY <1>3, <2>1, Writing
  <2> QED
    BY <2>2
<1> HIDE DEF left
<1>5. ContentFlow(k)'
  <2> SUFFICES ASSUME ~Hung(k)' PROVE ContentFlow(k)'
    BY DEF ContentFlow
  <2>1. ~Hung(k)
    BY <1>4 DEF Hung
  <2>2. /\ Follows(Written(k, p.data)[k].in, svc[k].off)
        /\ Follows(left, svc[k].off + Len(Written(k, p.data)[k].in))
        /\ Len(Written(k, p.data)[k].in) \in Nat /\ Len(left) \in Nat
        /\ Len(Written(k, p.data)[k].in) + Len(left) = Len(svc[k].in) + Len(p.data)
    BY <1>1, <1>3, <2>1, Fills DEF left
  <2>3. /\ Follows(svc'[k].in, svc'[k].off)
        /\ Follows(sock'[k].backlog, svc'[k].off + Len(svc'[k].in))
    BY <1>4, <2>2 DEF left
  <2>4. Live(k)' => host'.sent = Done(k)'
    <3>1. Live(k)' => Live(k)
      BY <1>1, <1>2 DEF Live
    <3>2. Live(k) => host.sent = svc[k].off + Len(svc[k].in) + Len(p.data)
      BY <1>1, <2>1
    <3>3. Done(k)' = svc[k].off + Len(Written(k, p.data)[k].in) + Len(left)
      BY <1>4 DEF Done, left
    <3>4. /\ Len(svc[k].in) \in Nat /\ svc[k].off \in Nat /\ Len(p.data) \in Nat
      BY <1>1, <1>3, LenProperties, ServiceFields, Constants
    <3>5. /\ Len(Written(k, p.data)[k].in) \in Nat /\ Len(left) \in Nat
          /\ Len(Written(k, p.data)[k].in) + Len(left) = Len(svc[k].in) + Len(p.data)
      BY <2>2
    <3>6. svc[k].off + Len(Written(k, p.data)[k].in) + Len(left) = svc[k].off + Len(svc[k].in) + Len(p.data)
      <4> DEFINE a == svc[k].off
                 b == Len(Written(k, p.data)[k].in)
                 c == Len(left)
                 d == Len(svc[k].in)
                 e == Len(p.data)
      <4>1. a \in Nat /\ b \in Nat /\ c \in Nat /\ d \in Nat /\ e \in Nat /\ b + c = d + e
        BY <3>4, <3>5
      <4> HIDE DEF a, b, c, d, e
      <4>2. a + b + c = a + d + e
        BY <4>1
      <4> QED
        BY <4>2 DEF a, b, c, d, e
    <3> QED
      BY <1>2, <3>1, <3>2, <3>3, <3>6
  <2>5. \A i \in 1..Len(toDev'[t]) : ~Is(toDev'[t][i], "WRTE", n)
    BY <1>1 DEF None
  <2> QED
    BY <1>1, <2>3, <2>4, <2>5 DEF ContentFlow
<1>6. PermitFlow(k)'
  <2>1. AtMostOne(toDev'[t], "WRTE", n)
    BY <1>1 DEF None, AtMostOne
  <2>2. ASSUME Live(k)'
        PROVE  host'.rid # 0 /\ InPermit(k)' /\ OutPermit(k)'
    <3>1. Live(k)
      BY <1>1, <1>2, <2>2 DEF Live
    <3>2. cable.in /\ t = cable.t /\ cable.t \in Transports
      BY <1>1, <3>1 DEF Live
    <3>3. /\ None(toDev'[t], "OKAY", n) <=> None(toDev[t], "OKAY", n)
          /\ One(toDev[t], "OKAY", n) => One(toDev'[t], "OKAY", n)
      BY Kept
    <3>4. /\ None(toHost'[t], "WRTE", n) <=> None(toHost[t], "WRTE", n)
          /\ One(toHost[t], "WRTE", n) => One(toHost'[t], "WRTE", n)
          /\ IF left = <<>> THEN One(toHost'[t], "OKAY", n) ELSE None(toHost'[t], "OKAY", n)
      <4>1. CASE left # <<>> /\ UNCHANGED toHost
        BY <1>1, <3>1, <4>1
      <4>2. CASE left = <<>> /\ Send(t, <<Packet("OKAY", k, p.arg0, p.stream, <<>>)>>)
        <5> DEFINE q == Packet("OKAY", k, p.arg0, p.stream, <<>>)
        <5> DEFINE ps == <<q>>
        <5>1. q.cmd = "OKAY" /\ q.stream = n /\ Voice(k, ps) /\ Len(ps) = 1 /\ ps[1] = q
          <6>1. p \in FromHost
            BY Popped
          <6> QED
            BY <1>1, <6>1, OkayVoice
        <5>2. Send(t, ps)
          BY <4>2
        <5> HIDE DEF q, ps
        <5>3. ps \in Seq(ToHost)
          BY <5>1 DEF Voice
        <5>4. toHost[t] \in Seq(ToHost) /\ toHost'[t] = toHost[t] \o ps
          BY <3>2, <5>2, <5>3, Telling
        <5>5. /\ Grows(toHost[t], toHost'[t])
              /\ \A i \in (Len(toHost[t]) + 1)..Len(toHost'[t]) : i = Len(toHost[t]) + 1 /\ toHost'[t][i] = q
              /\ Len(toHost[t]) + 1 \in (Len(toHost[t]) + 1)..Len(toHost'[t])
          BY <5>1, <5>3, <5>4, GrowsByOne, SMTT(30)
        <5>7. /\ None(toHost'[t], "WRTE", n) <=> None(toHost[t], "WRTE", n)
              /\ One(toHost[t], "WRTE", n) => One(toHost'[t], "WRTE", n)
          <6>1. \A i \in (Len(toHost[t]) + 1)..Len(toHost'[t]) : ~Is(toHost'[t][i], "WRTE", n)
            BY <5>1, <5>5 DEF Is
          <6> QED
            BY <5>5, <6>1, GrowKeeps
        <5>8. One(toHost'[t], "OKAY", n)
          <6>1. None(toHost[t], "OKAY", n)
            BY <1>1, <3>1
          <6> DEFINE u == toHost[t]
                     v == toHost'[t]
                     m == Len(toHost[t]) + 1
                     z == sock[k].n
          <6>2. Is(v[m], "OKAY", z)
            BY <5>1, <5>5 DEF Is
          <6>3. Grows(u, v) /\ None(u, "OKAY", z) /\ m \in (Len(u) + 1)..Len(v)
            BY <5>5, <6>1
          <6>4. \A i \in (Len(u) + 1)..Len(v) : i # m => ~Is(v[i], "OKAY", z)
            BY <5>5
          <6> HIDE DEF u, v, m, z
          <6>5. One(v, "OKAY", z)
            BY <6>2, <6>3, <6>4, GrowAdds
          <6> QED
            BY <6>5 DEF v, z
        <5> QED
          BY <4>2, <5>7, <5>8
      <4> QED
        BY <4>1, <4>2 DEF left
    <3>5. InPermit(k)'
      BY <1>1, <1>2, <3>1, <3>4 DEF InPermit, left
    <3>6. OutPermit(k)'
      <4>1. OutPermit(k)
        BY <1>1, <3>1
      <4> QED
        BY <1>1, <3>3, <3>4, <4>1 DEF OutPermit
    <3> QED
      BY <1>1, <1>2, <3>1, <3>5, <3>6
  <2> QED
    BY <1>1, <2>1, <2>2 DEF PermitFlow
<1> QED
  BY <1>5, <1>6 DEF Flow

LEMMA FlowWriteStep ==
  ASSUME FInv, NEW t \in Transports, Handle(t), NEW p, p = Head(toDev[t]), p.cmd = "WRTE",
         HandleWrite(t, p)
  PROVE  AddressInv' /\ KnownInv' /\ \A j \in Ids : Flow(j)'
<1> DEFINE k == p.arg1
           waits == sock[k].backlog # <<>>
           left  == IF waits THEN p.data ELSE Left(k, p.data)
<1>1. Found(p) /\ UNCHANGED <<online, nextId>>
  BY DEF HandleWrite
<1>2. \/ /\ left # <<>> /\ UNCHANGED toHost
         /\ svc' = IF waits THEN svc ELSE Written(k, p.data)
         /\ sock' = [sock EXCEPT ![k] =
                       FdeSet([sock[k] EXCEPT !.backlog = sock[k].backlog \o left],
                              sock[k].want \cup {"W"})]
      \/ /\ left = <<>> /\ svc' = Written(k, p.data) /\ UNCHANGED sock
         /\ Send(t, <<Packet("OKAY", k, p.arg0, p.stream, <<>>)>>)
      \/ CloseSocket(k) /\ UNCHANGED svc
  BY DEF HandleWrite
<1>3. /\ k \in Ids /\ k < nextId /\ sock[k].state = "open" /\ sock[k].n = p.stream /\ sock[k].t = t
      /\ ~waits /\ p.data \in Seq(Units) /\ sock[k].pend \subseteq sock[k].want
  BY <1>1, DataTaken
<1>4. sock \in [Ids -> Socket] /\ sock[k] \in Socket /\ sock[k].want \in SUBSET {"R", "W"}
  BY <1>3, Fields DEF FInv, IInv, TypeOK
<1>5. Left(k, p.data) \in Seq(Units) /\ Left(k, p.data) = left /\ TypeOK
      /\ \A j \in Ids : j # k => Written(k, p.data)[j] = svc[j]
  <2>1. TypeOK /\ Len(svc[k].in) <= Room
    BY <1>3, Given DEF FInv, IInv
  <2> QED
    BY <1>3, <2>1, Writing
<1>a. k = p.arg1
  OBVIOUS
<1> HIDE DEF left, k, waits
<1>6. CASE /\ left # <<>> /\ UNCHANGED toHost /\ svc' = Written(k, p.data)
           /\ sock' = [sock EXCEPT ![k] =
                         FdeSet([sock[k] EXCEPT !.backlog = sock[k].backlog \o left],
                                sock[k].want \cup {"W"})]
  <2> DEFINE s == [sock[k] EXCEPT !.backlog = left]
             u == FdeSet(s, sock[k].want \cup {"W"})
  <2>1. sock[k].backlog \o left = left
    <3>1. sock[k].backlog = <<>>
      BY <1>3 DEF waits
    <3> QED
      BY <1>5, <3>1, ConcatEmptySeq
  <2>2. sock' = [sock EXCEPT ![k] = u]
    BY <1>6, <2>1
  <2>3. /\ s \in Socket /\ s.state = sock[k].state /\ s.t = sock[k].t /\ s.rid = sock[k].rid
        /\ s.n = sock[k].n /\ s.backlog = left /\ s.pend = sock[k].pend
    BY <1>4, <1>5 DEF Socket
  <2> HIDE DEF s
  <2>4. sock[k].want \cup {"W"} \in SUBSET {"R", "W"}
    BY <1>4
  <2>5. /\ u \in Socket /\ u.state = s.state /\ u.t = s.t /\ u.rid = s.rid /\ u.n = s.n
        /\ u.backlog = s.backlog /\ u.want = sock[k].want \cup {"W"}
    BY <2>3, <2>4, FdeSets
  <2>6. u.pend \subseteq u.want
    BY <1>3, <2>3, <2>4, FdePend
  <2> HIDE DEF u
  <2>7. sock'[k] = u
    BY <1>3, <1>4, <2>2
  <2>8. Flow(k)'
    <3>1. "R" \in u.want <=> "R" \in sock[k].want
      BY <2>5
    <3>2. Left(k, p.data) # <<>> /\ UNCHANGED toHost /\ svc' = Written(k, p.data)
      BY <1>5, <1>6
    <3>3. /\ sock'[k].state = "open" /\ sock'[k].t = sock[k].t /\ sock'[k].n = sock[k].n
          /\ "R" \in sock'[k].want <=> "R" \in sock[k].want
          /\ sock'[k].pend \subseteq sock'[k].want /\ sock'[k].backlog = Left(k, p.data)
      BY <1>3, <1>5, <2>3, <2>5, <2>6, <2>7, <3>1
    <3> QED
      BY <1>1, <1>a, <3>2, <3>3, DataWritten
  <2>9. Voice(k, <<>>)
    BY EmptySeq DEF Voice
  <2>10. UNCHANGED toHost /\ \A j \in Ids : j # k => svc'[j] = svc[j]
    BY <1>5, <1>6
  <2>11. Found(p) /\ UNCHANGED nextId /\ u.n = sock[k].n /\ u.t = sock[k].t
    BY <1>1, <2>3, <2>5
  <2> QED
    BY <1>a, <2>2, <2>8, <2>9, <2>10, <2>11, HandleOne
<1>7. CASE /\ left = <<>> /\ svc' = Written(k, p.data) /\ UNCHANGED sock
           /\ Send(t, <<Packet("OKAY", k, p.arg0, p.stream, <<>>)>>)
  <2> DEFINE q == Packet("OKAY", k, p.arg0, p.stream, <<>>)
  <2>1. sock' = [sock EXCEPT ![k] = sock[k]]
    BY <1>3, <1>4, <1>7
  <2>2. sock[k].backlog = Left(k, p.data)
    BY <1>3, <1>5, <1>7 DEF waits
  <2>3. Flow(k)'
    <3>1. /\ sock'[k].state = "open" /\ sock'[k].t = sock[k].t /\ sock'[k].n = sock[k].n
          /\ sock'[k].want = sock[k].want /\ sock'[k].pend \subseteq sock'[k].want
          /\ sock'[k].backlog = Left(k, p.data)
      BY <1>3, <1>7, <2>2
    <3>2. Left(k, p.data) = <<>> /\ svc' = Written(k, p.data)
      BY <1>5, <1>7
    <3>3. Send(t, <<Packet("OKAY", k, p.arg0, p.stream, <<>>)>>)
      BY <1>7
    <3> QED
      BY <1>1, <1>a, <3>1, <3>2, <3>3, DataWritten
  <2>4. Voice(k, <<q>>)
    <3>1. p \in FromHost
      BY Popped
    <3> QED
      BY <1>3, <3>1, OkayVoice
  <2>5. Send(t, <<q>>)
    BY <1>7
  <2>6. \A j \in Ids : j # k => svc'[j] = svc[j]
    BY <1>5, <1>7
  <2> DEFINE ps == <<q>>
  <2>7. Voice(k, ps) /\ Send(t, ps)
    BY <2>4, <2>5
  <2> HIDE DEF ps
  <2> QED
    <3>1. Found(p) /\ p.cmd \in {"OKAY", "CLSE", "WRTE"} /\ UNCHANGED nextId
      BY <1>1
    <3>2. sock[k].n = sock[k].n /\ (sock[k].state = "open" => sock[k].t = sock[k].t)
      OBVIOUS
    <3>3. Send(t, ps) \/ (ps = <<>> /\ UNCHANGED toHost)
      BY <2>7
    <3> QED
      BY <1>a, <2>1, <2>3, <2>6, <2>7, <3>1, <3>2, <3>3, HandleOne
<1>8. CASE CloseSocket(k) /\ UNCHANGED svc
  BY <1>1, <1>8, FlowCloseStep DEF k
<1> QED
  BY <1>2, <1>3, <1>6, <1>7, <1>8
\* The packet is gone, and it asked for nothing that is counted.
LEMMA PacketGone ==
  ASSUME FInv, NEW t \in Transports, Handle(t), UNCHANGED <<nextId, svc>>,
         \/ Head(toDev[t]).cmd \notin {"WRTE", "OKAY"}
         \/ \A k \in Ids : sock[k].state = "open" => Head(toDev[t]).stream # sock[k].n,
         sock' = Disconnected(t) \/ UNCHANGED sock,
         UNCHANGED toHost \/ \E q \in ToHost : q.cmd \in {"CNXN", "CLSE"} /\ Send(t, <<q>>)
  PROVE  AddressInv' /\ KnownInv' /\ \A j \in Ids : Flow(j)'
<1>1. PICK d \in [Transports -> {0, 1}] :
        Shifted(d) /\ \A v \in Transports : d[v] = IF v = t THEN 1 ELSE 0
  BY Popped
<1>2. UNCHANGED <<cable, host>> /\ Head(toDev[t]) = toDev[t][1] /\ Len(toDev[t]) # 0
  BY Popped
<1>3. ASSUME NEW k \in Ids
      PROVE  /\ sock'[k].n = sock[k].n
             /\ \/ sock'[k] = sock[k]
                \/ sock'[k].state # "open" /\ sock'[k].backlog \in {sock[k].backlog, <<>>}
  <2>1. sock[k] \in Socket /\ Consistent(sock[k])
    BY Given DEF FInv
  <2>2. sock'[k] \in {sock[k], Closed(sock[k])}
    BY DEF Disconnected
  <2>3. /\ Closed(sock[k]).n = sock[k].n /\ Closed(sock[k]).state # "open"
        /\ Closed(sock[k]).backlog \in {sock[k].backlog, <<>>}
    BY <2>1, ClosedFields, ClosedBacklog DEF Wanes
  <2> QED
    BY <2>2, <2>3
<1>4. \A v \in Transports : d[v] = 1 =>
           /\ Len(toDev[v]) # 0
           /\ \/ toDev[v][1].cmd \notin {"WRTE", "OKAY"}
              \/ \A k \in Ids : sock[k].state = "open" => toDev[v][1].stream # sock[k].n
  BY <1>1, <1>2
<1>5. \E ps \in Seq(ToHost) : /\ \A i \in 1..Len(ps) : ps[i].cmd \notin {"WRTE", "OKAY"}
                              /\ Send(t, ps) \/ UNCHANGED toHost
  <2>1. CASE UNCHANGED toHost
    <3>1. <<>> \in Seq(ToHost) /\ \A i \in 1..Len(<<>>) : FALSE
      BY EmptySeq
    <3> QED
      BY <2>1, <3>1
  <2>2. CASE \E q \in ToHost : q.cmd \in {"CNXN", "CLSE"} /\ Send(t, <<q>>)
    <3>1. PICK q \in ToHost : q.cmd \in {"CNXN", "CLSE"} /\ Send(t, <<q>>)
      BY <2>2
    <3> DEFINE ps == <<q>>
    <3>2. ps \in Seq(ToHost) /\ Len(ps) = 1 /\ ps[1] = q /\ \A i \in 1..1 : i = 1
      OBVIOUS
    <3>3. Send(t, ps)
      BY <3>1
    <3> HIDE DEF ps
    <3> QED
      BY <3>1, <3>2, <3>3
  <2> QED
    BY <2>1, <2>2
<1>6. PICK ps \in Seq(ToHost) : /\ \A i \in 1..Len(ps) : ps[i].cmd \notin {"WRTE", "OKAY"}
                                /\ Send(t, ps) \/ UNCHANGED toHost
  BY <1>5
<1>7. \A k \in Ids :
        /\ sock'[k].n = sock[k].n
        /\ \/ sock'[k] = sock[k]
           \/ /\ sock'[k].state # "open" /\ sock'[k].backlog \in {sock[k].backlog, <<>>}
           \/ /\ sock'[k].state = sock[k].state /\ sock'[k].t = sock[k].t
              /\ sock'[k].backlog = sock[k].backlog /\ sock'[k].want = sock[k].want
              /\ sock'[k].pend \subseteq sock'[k].want
  BY <1>3
<1> QED
  BY <1>1, <1>2, <1>4, <1>6, <1>7, ManySockets

LEMMA FlowSyncStep ==
  ASSUME FInv, NEW t \in Transports, Handle(t), Head(toDev[t]).cmd \in {"SYNC", "CNXN"},
         HandleSync(t) \/ HandleConnect(t)
  PROVE  AddressInv' /\ KnownInv' /\ \A j \in Ids : Flow(j)'
<1>1. CASE HandleSync(t)
  <2>1. sock' = Disconnected(t) /\ UNCHANGED <<toHost, nextId, svc>>
    BY <1>1 DEF HandleSync
  <2> QED
    BY <2>1, PacketGone
<1>2. CASE HandleConnect(t)
  <2>1. /\ sock' = Disconnected(t) \/ UNCHANGED sock
        /\ UNCHANGED <<nextId, svc>>
        /\ Send(t, <<Packet("CNXN", 0, 0, 0, <<>>)>>)
    BY <1>2 DEF HandleConnect
  <2> DEFINE q == Packet("CNXN", 0, 0, 0, <<>>)
  <2>2. q \in ToHost /\ q.cmd = "CNXN"
    <3>1. 0 \in 0..MaxStreams /\ <<>> \in Seq({"OKAY", "FAIL"})
      BY Constants, EmptySeq
    <3> QED
      BY <3>1 DEF Packet, ToHost
  <2>3. Send(t, <<q>>)
    BY <2>1
  <2> HIDE DEF q
  <2> QED
    BY <2>1, <2>2, <2>3, PacketGone
<1> QED
  BY <1>1, <1>2

\* What is ignored is of no open socket: of one, it would have been found.
LEMMA FlowIgnoreStep ==
  ASSUME FInv, NEW t \in Transports, Handle(t), NEW p, p = Head(toDev[t]), Ignore(t, p)
  PROVE  AddressInv' /\ KnownInv' /\ \A j \in Ids : Flow(j)'
<1>1. /\ ~online[t] \/ (p.cmd # "OPEN" /\ ~Found(p))
      /\ UNCHANGED <<online, toHost, nextId, sock, svc>>
  BY DEF Ignore
<1>2. ASSUME p.cmd \in {"WRTE", "OKAY"}, NEW k \in Ids, sock[k].state = "open", p.stream = sock[k].n
      PROVE  FALSE
  <2>1. p = toDev[t][1] /\ 1 \in 1..Len(toDev[t])
    BY Popped
  <2>2. /\ p.arg1 \in Ids /\ p.arg1 < nextId /\ sock[p.arg1].n = p.stream
        /\ sock[p.arg1].state = "open" => sock[p.arg1].t = t
    BY <1>2, <2>1 DEF FInv, AddressInv
  <2>3. p.arg1 = k
    BY <1>2, <2>2, Owners
  <2>4. online[t] /\ Found(p)
    BY <1>2, <2>2, <2>3, Owners DEF Found
  <2> QED
    BY <1>1, <2>4
<1>3. \/ p.cmd \notin {"WRTE", "OKAY"}
      \/ \A k \in Ids : sock[k].state = "open" => p.stream # sock[k].n
  BY <1>2
<1> QED
  BY <1>1, <1>3, PacketGone
\* A refused stream, and one that gets a socket.
LEMMA FlowRefuseStep ==
  ASSUME FInv, NEW t \in Transports, Handle(t), NEW p, p = Head(toDev[t]), p.cmd = "OPEN",
         Send(t, <<Packet("CLSE", 0, p.arg0, p.stream, <<>>)>>), UNCHANGED <<sock, svc, nextId>>
  PROVE  AddressInv' /\ KnownInv' /\ \A j \in Ids : Flow(j)'
<1> DEFINE q == Packet("CLSE", 0, p.arg0, p.stream, <<>>)
<1>1. q \in ToHost /\ q.cmd = "CLSE"
  <2>1. p \in FromHost
    BY Popped
  <2>2. p.arg0 \in 0..MaxStreams /\ p.stream \in 0..MaxStreams /\ 0 \in 0..MaxStreams
    BY <2>1, PacketFields, Constants
  <2>3. <<>> \in Seq({"OKAY", "FAIL"})
    BY EmptySeq
  <2> QED
    BY <2>2, <2>3 DEF Packet, ToHost
<1>2. Send(t, <<q>>)
  OBVIOUS
<1> HIDE DEF q
<1> QED
  BY <1>1, <1>2, PacketGone

LEMMA NewSocket ==
  ASSUME FInv, NEW t \in Transports, Handle(t), NEW p, p = Head(toDev[t]), p.cmd = "OPEN",
         sock' = [sock EXCEPT ![nextId] =
                    [NoSocket EXCEPT !.state = "open", !.t = t, !.rid = p.arg0,
                                     !.n = p.stream, !.want = {"R"}]],
         svc' = [svc EXCEPT ![nextId].state = "started"]
  PROVE  /\ nextId \in Ids /\ \A k \in Ids : k < nextId + 1 <=> k < nextId \/ k = nextId
         /\ \A k \in Ids : k < nextId => k # nextId
         /\ sock'[nextId].state = "open" /\ sock'[nextId].t = t /\ sock'[nextId].n = p.stream
         /\ sock'[nextId].backlog = <<>> /\ sock'[nextId].want = {"R"} /\ sock'[nextId].pend = {}
         /\ svc'[nextId].off = 0 /\ svc'[nextId].in = <<>>
         /\ \A k \in Ids : k # nextId => sock'[k] = sock[k] /\ svc'[k] = svc[k]
         /\ p.stream \in 1..host.opened /\ \A k \in Ids : k < nextId => sock[k].n # p.stream
         /\ p \in FromHost /\ p = toDev[t][1] /\ 1 \in 1..Len(toDev[t]) /\ t \in ready
<1>1. t \in ready
  BY DEF Handle
<1>2. p \in FromHost /\ p = toDev[t][1] /\ 1 \in 1..Len(toDev[t])
  BY <1>1, FirstPacket DEF FInv
<1>3. nextId \in Ids /\ nextId \in Nat
  BY <1>1, IdLeft, Constants DEF FInv
<1>4. p.stream \in 1..host.opened /\ \A k \in Ids : k < nextId => sock[k].n # p.stream
  BY <1>2 DEF FInv, IInv, OpensInv
<1>5. \A k \in Ids : (k < nextId + 1 <=> k < nextId \/ k = nextId) /\ (k < nextId => k # nextId)
  BY <1>3, Constants
<1>6. /\ sock \in [Ids -> Socket] /\ svc \in [Ids -> Service]
      /\ sock[nextId] = NoSocket /\ svc[nextId] = NoService
  BY <1>3 DEF FInv, IInv, TypeOK, SocketsInv
<1> DEFINE new == [NoSocket EXCEPT !.state = "open", !.t = t, !.rid = p.arg0,
                                   !.n = p.stream, !.want = {"R"}]
<1>7. /\ new.state = "open" /\ new.t = t /\ new.n = p.stream /\ new.backlog = <<>>
      /\ new.want = {"R"} /\ new.pend = {}
  BY DEF NoSocket
<1>8. sock' = [sock EXCEPT ![nextId] = new]
  OBVIOUS
<1> HIDE DEF new
<1>9. sock'[nextId] = new /\ \A k \in Ids : k # nextId => sock'[k] = sock[k]
  BY <1>3, <1>6, <1>8
<1>10. /\ svc'[nextId].off = 0 /\ svc'[nextId].in = <<>>
       /\ \A k \in Ids : k # nextId => svc'[k] = svc[k]
  <2>1. svc'[nextId] = [NoService EXCEPT !.state = "started"] /\ \A k \in Ids : k # nextId => svc'[k] = svc[k]
    BY <1>3, <1>6
  <2> QED
    BY <2>1 DEF NoService
<1> QED
  BY <1>1, <1>2, <1>3, <1>4, <1>5, <1>7, <1>9, <1>10

\* No packet is about a stream whose OPEN is taken just now.
LEMMA NothingYet ==
  ASSUME FInv, NEW n, \A k \in Ids : k < nextId => sock[k].n # n
  PROVE  /\ \A t \in Transports : None(toDev[t], "WRTE", n) /\ None(toDev[t], "OKAY", n)
         /\ cable.in => None(toHost[cable.t], "WRTE", n) /\ None(toHost[cable.t], "OKAY", n)
<1>1. ASSUME NEW t \in Transports, NEW i \in 1..Len(toDev[t]), toDev[t][i].cmd \in {"WRTE", "OKAY"}
      PROVE  toDev[t][i].stream # n
  BY <1>1 DEF FInv, AddressInv
<1>2. ASSUME cable.in, NEW i \in 1..Len(toHost[cable.t]), toHost[cable.t][i].cmd = "WRTE"
      PROVE  toHost[cable.t][i].stream # n
  BY <1>2 DEF FInv, IInv, HostInv, Truthful
<1>3. ASSUME cable.in, NEW i \in 1..Len(toHost[cable.t]), toHost[cable.t][i].cmd = "OKAY"
      PROVE  toHost[cable.t][i].stream # n
  BY <1>3 DEF FInv, AddressInv
<1> QED
  BY <1>1, <1>2, <1>3 DEF None, Is

LEMMA FlowOpenStep ==
  ASSUME FInv, NEW t \in Transports, Handle(t), NEW p, p = Head(toDev[t]), p.cmd = "OPEN",
         sock' = [sock EXCEPT ![nextId] =
                    [NoSocket EXCEPT !.state = "open", !.t = t, !.rid = p.arg0,
                                     !.n = p.stream, !.want = {"R"}]],
         svc' = [svc EXCEPT ![nextId].state = "started"],
         nextId' = nextId + 1,
         Send(t, <<Packet("OKAY", nextId, p.arg0, p.stream, <<>>)>>)
  PROVE  AddressInv' /\ KnownInv' /\ \A j \in Ids : Flow(j)'
<1> DEFINE n == p.stream
           q == Packet("OKAY", nextId, p.arg0, n, <<>>)
           ps == <<q>>
<1>1. /\ nextId \in Ids /\ \A k \in Ids : k < nextId + 1 <=> k < nextId \/ k = nextId
      /\ \A k \in Ids : k < nextId => k # nextId
      /\ sock'[nextId].state = "open" /\ sock'[nextId].t = t /\ sock'[nextId].n = n
      /\ sock'[nextId].backlog = <<>> /\ sock'[nextId].want = {"R"} /\ sock'[nextId].pend = {}
      /\ svc'[nextId].off = 0 /\ svc'[nextId].in = <<>>
      /\ \A k \in Ids : k # nextId => sock'[k] = sock[k] /\ svc'[k] = svc[k]
      /\ n \in 1..host.opened /\ \A k \in Ids : k < nextId => sock[k].n # n
      /\ p \in FromHost /\ p = toDev[t][1] /\ 1 \in 1..Len(toDev[t]) /\ t \in ready
  BY NewSocket, ZenonT(30)
<1>2. PICK d \in [Transports -> {0, 1}] :
        Shifted(d) /\ \A v \in Transports : d[v] = IF v = t THEN 1 ELSE 0
  BY Popped
<1>3. UNCHANGED <<cable, host>> /\ Len(toDev[t]) # 0 /\ cable.t \in Transports /\ Base' = Base
  BY Popped, ServerFields DEF FInv, Base
<1>4. q.cmd = "OKAY" /\ q.stream = n /\ q.arg0 = nextId /\ ps \in Seq(ToHost) /\ Len(ps) = 1 /\ ps[1] = q
  <2>1. nextId \in 0..MaxStreams /\ p.arg0 \in 0..MaxStreams /\ n \in 0..MaxStreams
    BY <1>1, PacketFields, Constants DEF Ids
  <2>2. <<>> \in Seq({"OKAY", "FAIL"})
    BY EmptySeq
  <2>3. q \in ToHost /\ q.cmd = "OKAY" /\ q.stream = n /\ q.arg0 = nextId
    BY <2>1, <2>2 DEF Packet, ToHost
  <2> HIDE DEF q
  <2> QED
    BY <2>3
<1>5. Send(t, ps)
  OBVIOUS
<1> HIDE DEF q, ps
<1>6. /\ \A u \in Transports : None(toDev[u], "WRTE", n) /\ None(toDev[u], "OKAY", n)
      /\ cable.in => None(toHost[cable.t], "WRTE", n) /\ None(toHost[cable.t], "OKAY", n)
  BY <1>1, NothingYet
<1>7. /\ Grows(toHost[cable.t], toHost'[cable.t]) /\ toHost[cable.t] \in Seq(ToHost)
      /\ \A i \in (Len(toHost[cable.t]) + 1)..Len(toHost'[cable.t]) : toHost'[cable.t][i] = q
  <2>1. /\ Grows(toHost[cable.t], toHost'[cable.t]) /\ toHost[cable.t] \in Seq(ToHost)
        /\ \A i \in (Len(toHost[cable.t]) + 1)..Len(toHost'[cable.t]) :
             \E j \in 1..Len(ps) : toHost'[cable.t][i] = ps[j]
    BY <1>4, <1>5, Telling
  <2>2. \A j \in 1..Len(ps) : ps[j] = q
    <3>1. \A j \in 1..1 : j = 1
      OBVIOUS
    <3> QED
      BY <1>4, <3>1
  <2> QED
    BY <2>1, <2>2
<1>8. cable.in /\ t = cable.t =>
        One(toHost'[t], "OKAY", n) /\ None(toHost'[t], "WRTE", n)
  <2> SUFFICES ASSUME cable.in, t = cable.t
               PROVE  One(toHost'[t], "OKAY", n) /\ None(toHost'[t], "WRTE", n)
    OBVIOUS
  <2>1. toHost[t] \in Seq(ToHost) /\ toHost'[t] = toHost[t] \o ps
    BY <1>4, <1>5, Telling
  <2>2. /\ Grows(toHost[t], toHost'[t])
        /\ \A i \in (Len(toHost[t]) + 1)..Len(toHost'[t]) : i = Len(toHost[t]) + 1 /\ toHost'[t][i] = q
        /\ Len(toHost[t]) + 1 \in (Len(toHost[t]) + 1)..Len(toHost'[t])
    BY <1>4, <2>1, GrowsByOne
  <2>3. Is(toHost'[t][Len(toHost[t]) + 1], "OKAY", n)
    BY <1>4, <2>2 DEF Is
  <2>4. One(toHost'[t], "OKAY", n)
    BY <1>6, <2>2, <2>3, GrowAdds
  <2>5. \A i \in (Len(toHost[t]) + 1)..Len(toHost'[t]) : ~Is(toHost'[t][i], "WRTE", n)
    BY <1>4, <2>2 DEF Is
  <2> QED
    BY <1>6, <2>2, <2>4, <2>5, GrowKeeps
<1>9. host.rid # 0 => host.rid \in Ids /\ host.rid < nextId /\ sock[host.rid].n = host.opened
  <2>1. host.rid \in 0..MaxStreams
    BY ServerFields DEF FInv
  <2> QED
    BY <2>1, Constants DEF FInv, KnownInv, Ids
<1>10. AddressInv'
  <2>1. ASSUME NEW u \in Transports, NEW i \in 1..Len(toDev'[u])
        PROVE  /\ toDev'[u][i].stream <= host.opened
               /\ u # cable.t => toDev'[u][i].stream <= Base
               /\ toDev'[u][i].cmd \in {"OKAY", "CLSE", "WRTE"} =>
                    /\ toDev'[u][i].arg1 \in Ids /\ toDev'[u][i].arg1 < nextId'
                    /\ sock'[toDev'[u][i].arg1].n = toDev'[u][i].stream
                    /\ sock'[toDev'[u][i].arg1].state = "open" => sock'[toDev'[u][i].arg1].t = u
    <3>1. PICK j \in 1..Len(toDev[u]) : toDev'[u][i] = toDev[u][j]
      BY <1>2 DEF Shifted
    <3> DEFINE o == toDev[u][j]
    <3>2. /\ o.stream <= host.opened
          /\ u # cable.t => o.stream <= Base
          /\ o.cmd \in {"OKAY", "CLSE", "WRTE"} =>
               /\ o.arg1 \in Ids /\ o.arg1 < nextId
               /\ sock[o.arg1].n = o.stream
               /\ sock[o.arg1].state = "open" => sock[o.arg1].t = u
      BY DEF FInv, AddressInv
    <3> HIDE DEF o
    <3>3. o.cmd \in {"OKAY", "CLSE", "WRTE"} =>
            sock'[o.arg1] = sock[o.arg1] /\ o.arg1 < nextId'
      BY <1>1, <3>2
    <3> QED
      BY <3>1, <3>2, <3>3 DEF o
  <2>2. ASSUME NEW k \in Ids, sock'[k].state = "open", sock'[k].t # cable.t
        PROVE  sock'[k].n <= Base
    <3>1. CASE k = nextId
      <4>1. t # cable.t => toDev[t][1].stream <= Base
        BY <1>1 DEF FInv, AddressInv
      <4> QED
        BY <1>1, <2>2, <3>1, <4>1
    <3>2. CASE k # nextId
      BY <1>1, <2>2, <3>2 DEF FInv, AddressInv
    <3> QED
      BY <3>1, <3>2
  <2>3. ASSUME cable.in, NEW i \in 1..Len(toHost'[cable.t]), toHost'[cable.t][i].cmd = "OKAY"
        PROVE  /\ toHost'[cable.t][i].arg0 \in Ids /\ toHost'[cable.t][i].arg0 < nextId'
               /\ sock'[toHost'[cable.t][i].arg0].n = toHost'[cable.t][i].stream
    <3> DEFINE o == toHost'[cable.t][i]
    <3>1. CASE i \in 1..Len(toHost[cable.t])
      <4>1. o = toHost[cable.t][i]
        BY <1>7, <3>1 DEF Grows
      <4>2. o.arg0 \in Ids /\ o.arg0 < nextId /\ sock[o.arg0].n = o.stream
        BY <2>3, <3>1, <4>1 DEF FInv, AddressInv
      <4> HIDE DEF o
      <4>3. sock'[o.arg0] = sock[o.arg0] /\ o.arg0 < nextId'
        BY <1>1, <4>2
      <4> QED
        BY <4>2, <4>3 DEF o
    <3>2. CASE i \notin 1..Len(toHost[cable.t])
      <4>1. i \in (Len(toHost[cable.t]) + 1)..Len(toHost'[cable.t])
        BY <1>7, <3>2 DEF Grows
      <4>2. o = q
        BY <1>7, <4>1
      <4> HIDE DEF o
      <4>3. o.arg0 = nextId /\ o.stream = n /\ nextId < nextId'
        BY <1>1, <1>4, <4>2
      <4> QED
        BY <1>1, <4>3 DEF o
    <3> QED
      BY <3>1, <3>2
  <2> QED
    BY <1>3, <2>1, <2>2, <2>3 DEF AddressInv
<1>11. KnownInv'
  <2>1. ASSUME host.id # 0, host.rid = 0, NEW i \in 1..Len(toHost'[cable.t]),
               Is(toHost'[cable.t][i], "WRTE", host.opened)
        PROVE  \E j \in 1..(i - 1) : Is(toHost'[cable.t][j], "OKAY", host.opened)
    <3>1. i \in 1..Len(toHost[cable.t])
      <4>1. ASSUME i \notin 1..Len(toHost[cable.t]) PROVE FALSE
        <5>1. i \in (Len(toHost[cable.t]) + 1)..Len(toHost'[cable.t])
          BY <1>7, <4>1 DEF Grows
        <5>2. toHost'[cable.t][i] = q
          BY <1>7, <5>1
        <5> QED
          BY <1>4, <2>1, <5>2 DEF Is
      <4> QED
        BY <4>1
    <3>2. toHost'[cable.t][i] = toHost[cable.t][i]
      BY <1>7, <3>1 DEF Grows
    <3>3. PICK j \in 1..(i - 1) : Is(toHost[cable.t][j], "OKAY", host.opened)
      BY <2>1, <3>1, <3>2 DEF FInv, KnownInv
    <3>4. j \in 1..Len(toHost[cable.t])
      BY <1>7, <3>1 DEF Grows
    <3>5. toHost'[cable.t][j] = toHost[cable.t][j]
      BY <1>7, <3>4 DEF Grows
    <3> QED
      BY <3>3, <3>5
  <2>2. host.rid # 0 => host.rid < nextId' /\ sock'[host.rid].n = host.opened
    BY <1>1, <1>9
  <2> QED
    BY <1>3, <2>1, <2>2 DEF FInv, KnownInv
<1>12. Drops(toDev[t], toDev'[t], 1)
  BY Popped
<1>13. ASSUME NEW k \in Ids, k = nextId PROVE Flow(k)'
  <2>1. None(toDev'[t], "WRTE", n) /\ None(toDev'[t], "OKAY", n)
    <3>1. ~Is(toDev[t][1], "WRTE", n) /\ ~Is(toDev[t][1], "OKAY", n)
      BY <1>1 DEF Is
    <3> QED
      BY <1>3, <1>6, <1>12, <3>1, DropKeeps
  <2>2. AtMostOne(toDev'[t], "WRTE", n)
    BY <2>1 DEF None, AtMostOne
  <2>3. ASSUME Live(k)'
        PROVE  /\ cable.in /\ t = cable.t /\ ~host.credit /\ host.sent = 0
    <3>1. cable.in /\ t = cable.t /\ host.opened = n
      <4>1. sock'[k].t = t /\ sock'[k].n = n
        BY <1>1, <1>13
      <4>2. cable'.in /\ sock'[k].t = cable'.t /\ host'.opened = sock'[k].n
        BY <2>3 DEF Live
      <4> QED
        BY <1>3, <4>1, <4>2
    <3>2. host.rid = 0
      BY <1>1, <1>9, <3>1
    <3> QED
      BY <3>1, <3>2 DEF FInv, KnownInv
  <2>4. PermitFlow(k)'
    <3>1. ASSUME Live(k)'
          PROVE  One(toHost'[t], "OKAY", n) /\ InPermit(k)' /\ OutPermit(k)'
      <4>1. One(toHost'[t], "OKAY", n) /\ None(toHost'[t], "WRTE", n)
        BY <1>8, <2>3, <3>1
      <4>2. InPermit(k)'
        BY <1>1, <1>3, <1>13, <2>1, <2>3, <3>1, <4>1 DEF InPermit
      <4>3. OutPermit(k)'
        BY <1>1, <1>13, <2>1, <4>1 DEF OutPermit
      <4> QED
        BY <4>1, <4>2, <4>3
    <3> QED
      BY <1>1, <1>13, <2>1, <2>2, <3>1 DEF PermitFlow
  <2>5. ContentFlow(k)'
    <3>1. Len(<<>>) = 0 /\ \A i \in 1..Len(<<>>) : FALSE
      BY EmptySeq
    <3>2. Follows(svc'[k].in, svc'[k].off) /\ Follows(sock'[k].backlog, svc'[k].off + Len(svc'[k].in))
      BY <1>1, <1>13, <3>1 DEF Follows
    <3>3. Done(k)' = 0
      BY <1>1, <1>13, <3>1 DEF Done
    <3>4. \A i \in 1..Len(toDev'[t]) : ~Is(toDev'[t][i], "WRTE", n)
      BY <2>1 DEF None
    <3>5. Live(k)' => host'.sent = Done(k)'
      BY <1>3, <2>3, <3>3
    <3> QED
      BY <1>1, <1>13, <3>2, <3>4, <3>5 DEF ContentFlow
  <2> QED
    BY <2>4, <2>5 DEF Flow
<1>14. ASSUME NEW k \in Ids, k # nextId PROVE Flow(k)'
  <2>1. sock'[k] = sock[k] /\ svc'[k] = svc[k] /\ Flow(k)
    BY <1>1, <1>14 DEF FInv
  <2>2. ASSUME sock[k].state = "open"
        PROVE  k < nextId /\ Quiet(toDev[sock[k].t], toDev'[sock[k].t], sock[k].n)
    <3>1. k < nextId /\ sock[k].t \in Transports
      BY <2>2, Owners
    <3> DEFINE u == sock[k].t
    <3>2. d[u] \in {0, 1} /\ Drops(toDev[u], toDev'[u], d[u])
      <4>1. Len(toDev[u]) \in Nat
        BY <3>1, LenProperties DEF FInv, IInv, TypeOK
      <4> QED
        BY <1>2, <3>1, <4>1 DEF Shifted, Drops
    <3>3. d[u] = 1 => Len(toDev[u]) # 0 /\ toDev[u][1].cmd \notin {"WRTE", "OKAY"}
      BY <1>1, <1>2, <1>3, <3>1
    <3> HIDE DEF u
    <3>4. Quiet(toDev[u], toDev'[u], sock[k].n)
      BY <3>2, <3>3, QuietDrop
    <3> QED
      BY <3>1, <3>4 DEF u
  <2>3. ASSUME Live(k)'
        PROVE  Live(k) /\ Quiet(toHost[sock[k].t], toHost'[sock[k].t], sock[k].n)
    <3>1. Live(k) /\ sock[k].t = cable.t /\ sock[k].state = "open"
      BY <1>3, <2>1, <2>3 DEF Live
    <3>2. sock[k].n # n
      BY <1>1, <2>2, <3>1
    <3>3. \A i \in (Len(toHost[cable.t]) + 1)..Len(toHost'[cable.t]) : toHost'[cable.t][i].stream # sock[k].n
      BY <1>4, <1>7, <3>2
    <3>4. Quiet(toHost[cable.t], toHost'[cable.t], sock[k].n)
      BY <1>7, <3>3, QuietGrow
    <3> QED
      BY <3>1, <3>4
  <2>4. Hung(k) => Hung(k)'
    BY <2>1 DEF Hung
  <2> QED
    BY <1>3, <2>1, <2>2, <2>3, <2>4, Aside
<1> QED
  BY <1>10, <1>11, <1>13, <1>14

LEMMA FlowHandle ==
  ASSUME FInv, NEW t \in Transports, Handle(t)
  PROVE  AddressInv' /\ KnownInv' /\ \A j \in Ids : Flow(j)'
<1> DEFINE p == Head(toDev[t])
<1>1. CASE p.cmd = "SYNC" /\ HandleSync(t)
  BY <1>1, FlowSyncStep
<1>2. CASE p.cmd = "CNXN" /\ HandleConnect(t)
  BY <1>2, FlowSyncStep
<1>3. CASE p.cmd = "OPEN" /\ HandleOpen(t, p)
  <2>1. \/ /\ sock' = [sock EXCEPT ![nextId] =
                         [NoSocket EXCEPT !.state = "open", !.t = t, !.rid = p.arg0,
                                          !.n = p.stream, !.want = {"R"}]]
           /\ svc' = [svc EXCEPT ![nextId].state = "started"]
           /\ nextId' = nextId + 1
           /\ Send(t, <<Packet("OKAY", nextId, p.arg0, p.stream, <<>>)>>)
        \/ /\ Send(t, <<Packet("CLSE", 0, p.arg0, p.stream, <<>>)>>)
           /\ UNCHANGED <<sock, svc, nextId>>
    BY <1>3 DEF HandleOpen
  <2> QED
    BY <1>3, <2>1, FlowOpenStep, FlowRefuseStep
<1>4. CASE p.cmd = "OKAY" /\ HandleOkay(t, p)
  BY <1>4, FlowOkayStep
<1>5. CASE p.cmd = "CLSE" /\ HandleClose(t, p)
  BY <1>5, FlowCloseStep DEF HandleClose
<1>6. CASE p.cmd = "WRTE" /\ HandleWrite(t, p)
  BY <1>6, FlowWriteStep
<1>7. CASE p.cmd \notin {"SYNC", "CNXN"} /\ Ignore(t, p)
  BY <1>7, FlowIgnoreStep
<1> QED
  BY <1>1, <1>2, <1>3, <1>4, <1>5, <1>6, <1>7 DEF Handle
-----------------------------------------------------------------------------
(* Flow control: the events of the sockets                                 *)

LEMMA EventOne ==
  ASSUME FInv, NEW k \in Ids, SocketEvent(k),
         NEW u, sock' = [sock EXCEPT ![k] = u], u.n = sock[k].n,
         u.state = "open" => sock[k].state = "open" /\ u.t = sock[k].t,
         \A j \in Ids : j # k => svc'[j] = svc[j],
         NEW ps, Voice(k, ps), ps # <<>> => sock[k].state = "open",
         Send(sock[k].t, ps) \/ (ps = <<>> /\ UNCHANGED toHost),
         Flow(k)'
  PROVE  AddressInv' /\ KnownInv' /\ \A j \in Ids : Flow(j)'
<1> DEFINE d == [t \in Transports |-> 0]
<1>1. UNCHANGED <<cable, toDev, ready, nextId, host>> /\ k < nextId
  BY Given DEF SocketEvent, FInv
<1>2. d \in [Transports -> {0, 1}] /\ Shifted(d)
  BY <1>1, Resting DEF FInv
<1>3. \A t \in Transports : d[t] = 0
  OBVIOUS
<1> HIDE DEF d
<1>4. About1(k, d)
  BY <1>3 DEF About1
<1> QED
  BY <1>1, <1>2, <1>4, OneSocket

LEMMA FlowWriteFails ==
  ASSUME FInv, NEW k \in Ids, SocketEvent(k), EventWriteFails(k, sock[k].pend)
  PROVE  AddressInv' /\ KnownInv' /\ \A j \in Ids : Flow(j)'
<1> DEFINE s == [sock[k] EXCEPT !.pend = {}]
<1>1. sock[k] \in Socket /\ Consistent(sock[k]) /\ sock \in [Ids -> Socket] /\ Flow(k)
  BY Given DEF FInv, IInv, TypeOK
<1>2. /\ s \in Socket /\ s.state = sock[k].state /\ s.t = sock[k].t /\ s.rid = sock[k].rid
      /\ s.n = sock[k].n /\ s.backlog = sock[k].backlog /\ s.want = sock[k].want
  BY <1>1, Unpended
<1>3. /\ sock' = [sock EXCEPT ![k] = Closed(s)] /\ UNCHANGED svc
      /\ IF sock[k].state = "open" THEN Send(sock[k].t, Farewell(k)) ELSE UNCHANGED toHost
  BY DEF EventWriteFails
<1> HIDE DEF s
<1>4. Consistent(s)
  BY <1>1, <1>2 DEF Consistent
<1>5. /\ Closed(s).n = sock[k].n /\ Closed(s).state # "open"
      /\ Closed(s).backlog \in {sock[k].backlog, <<>>}
  BY <1>2, <1>4, ClosedFields, ClosedBacklog DEF Wanes
<1>6. sock'[k] = Closed(s)
  BY <1>1, <1>3
<1>7. Flow(k)'
  <2>1. Hung(k) => Hung(k)'
    BY <1>3 DEF Hung
  <2> QED
    BY <1>1, <1>3, <1>5, <1>6, <2>1, Gone
<1>8. CASE sock[k].state = "open"
  <2>1. Voice(k, Farewell(k)) /\ Send(sock[k].t, Farewell(k))
    BY <1>3, <1>8, FarewellVoice
  <2> QED
    BY <1>3, <1>5, <1>7, <1>8, <2>1, EventOne
<1>9. CASE sock[k].state # "open"
  <2>1. Voice(k, <<>>) /\ UNCHANGED toHost
    BY <1>3, <1>9, EmptySeq DEF Voice
  <2> QED
    BY <1>3, <1>5, <1>7, <2>1, EventOne
<1> QED
  BY <1>8, <1>9

\* What the thread is given of the backlog is what comes next.
LEMMA BacklogWritten ==
  ASSUME FInv, NEW k \in Ids, ~Hung(k), NEW w, w = Written(k, sock[k].backlog)
  PROVE  /\ Follows(w[k].in, svc[k].off)
         /\ Follows(Left(k, sock[k].backlog), svc[k].off + Len(w[k].in))
         /\ svc[k].off + Len(w[k].in) + Len(Left(k, sock[k].backlog)) = Done(k)
         /\ w[k].state = svc[k].state /\ w[k].off = svc[k].off
         /\ \A j \in Ids : j # k => w[j] = svc[j]
         /\ Left(k, sock[k].backlog) \in Seq(Units)
         /\ Len(w[k].in) \in Nat /\ svc[k].off \in Nat
<1> DEFINE units == sock[k].backlog
           left == Left(k, units)
<1>1. TypeOK /\ Len(svc[k].in) <= Room /\ units \in Seq(Units) /\ Flow(k)
  BY Given, Fields DEF FInv, IInv
<1>2. Follows(svc[k].in, svc[k].off) /\ Follows(units, svc[k].off + Len(svc[k].in))
  BY <1>1 DEF Flow, ContentFlow
<1> HIDE DEF units
<1>3. w = Written(k, units) /\ Done(k) = svc[k].off + Len(svc[k].in) + Len(units)
  BY DEF units, Done
<1>4. /\ Follows(w[k].in, svc[k].off)
      /\ Follows(left, svc[k].off + Len(w[k].in))
      /\ Len(w[k].in) \in Nat /\ Len(left) \in Nat
      /\ Len(w[k].in) + Len(left) = Len(svc[k].in) + Len(units)
  BY <1>1, <1>2, <1>3, Fills
<1>5. /\ w[k].state = svc[k].state /\ w[k].off = svc[k].off
      /\ \A j \in Ids : j # k => w[j] = svc[j]
      /\ left \in Seq(Units)
  BY <1>1, <1>3, Writing
<1>6. svc[k].off \in Nat /\ Len(svc[k].in) \in Nat /\ Len(units) \in Nat
  BY <1>1, LenProperties, ServiceFields, Constants
<1>7. svc[k].off + Len(w[k].in) + Len(left) = Done(k)
  <2> DEFINE a == svc[k].off
             b == Len(w[k].in)
             c == Len(left)
             e == Len(svc[k].in)
             f == Len(units)
  <2>1. a \in Nat /\ b \in Nat /\ c \in Nat /\ e \in Nat /\ f \in Nat /\ b + c = e + f
    BY <1>4, <1>6
  <2> HIDE DEF a, b, c, e, f
  <2>2. a + b + c = a + e + f
    BY <2>1
  <2> QED
    BY <1>3, <2>2 DEF a, b, c, e, f
<1> QED
  BY <1>4, <1>5, <1>6, <1>7 DEF units

LEMMA FlowWriteLast ==
  ASSUME FInv, NEW k \in Ids, SocketEvent(k), EventWriteLast(k, sock[k].pend)
  PROVE  AddressInv' /\ KnownInv' /\ \A j \in Ids : Flow(j)'
<1> DEFINE u == Destroyed(sock[k])
<1>1. /\ sock' = [sock EXCEPT ![k] = u] /\ svc' = Written(k, sock[k].backlog)
      /\ UNCHANGED toHost /\ ~Hung(k)
  BY DEF EventWriteLast
<1>2. sock[k] \in Socket /\ sock \in [Ids -> Socket]
  BY Given DEF FInv, IInv, TypeOK
<1>3. u.state = "freed" /\ u.n = sock[k].n /\ u.backlog = <<>>
  BY <1>2, DestroyedFields, NoSocketFields DEF Destroyed, Wanes, Consistent
<1> HIDE DEF u
<1>4. sock'[k] = u
  BY <1>1, <1>2
<1>5. /\ Follows(svc'[k].in, svc[k].off) /\ svc'[k].off = svc[k].off
      /\ \A j \in Ids : j # k => svc'[j] = svc[j]
  BY <1>1, BacklogWritten
<1>6. Follows(<<>>, svc[k].off + Len(svc'[k].in))
  BY EmptySeq DEF Follows
<1>7. Flow(k)'
  BY <1>3, <1>4, <1>5, <1>6 DEF Flow, PermitFlow, ContentFlow, Live
<1>8. Voice(k, <<>>)
  BY EmptySeq DEF Voice
<1> QED
  BY <1>1, <1>3, <1>5, <1>7, <1>8, EventOne

LEMMA FlowWritePart ==
  ASSUME FInv, NEW k \in Ids, SocketEvent(k), EventWritePart(k, sock[k].pend)
  PROVE  AddressInv' /\ KnownInv' /\ \A j \in Ids : Flow(j)'
<1> DEFINE left == Left(k, sock[k].backlog)
           u == [sock[k] EXCEPT !.pend = {}, !.backlog = left]
           n == sock[k].n
<1>1. /\ sock' = [sock EXCEPT ![k] = u] /\ svc' = Written(k, sock[k].backlog)
      /\ UNCHANGED toHost /\ ~Hung(k) /\ left # <<>>
  BY DEF EventWritePart
<1>2. /\ sock[k] \in Socket /\ sock \in [Ids -> Socket] /\ Flow(k)
      /\ UNCHANGED <<cable, toDev, host>>
  BY Given DEF FInv, IInv, TypeOK, SocketEvent
<1>3. /\ Follows(svc'[k].in, svc[k].off)
      /\ Follows(left, svc[k].off + Len(svc'[k].in))
      /\ svc[k].off + Len(svc'[k].in) + Len(left) = Done(k)
      /\ svc'[k].state = svc[k].state /\ svc'[k].off = svc[k].off
      /\ \A j \in Ids : j # k => svc'[j] = svc[j]
      /\ left \in Seq(Units)
  BY <1>1, BacklogWritten
<1>4. sock[k].backlog # <<>>
  <2> SUFFICES ASSUME sock[k].backlog = <<>> PROVE FALSE
    OBVIOUS
  <2>1. Len(sock[k].backlog) = 0 /\ <<>> \in Seq(Units)
    BY EmptySeq
  <2>2. TypeOK /\ Len(svc[k].in) <= Room
    BY Given DEF FInv, IInv
  <2>3. Len(svc[k].in) \in Nat
    BY <2>2, ServiceFields, LenProperties
  <2>4. 0 <= Room - Len(svc[k].in)
    BY <2>2, <2>3, Constants
  <2>5. Takes(k, sock[k].backlog) = 0
    BY <2>1, <2>3, <2>4, Constants DEF Takes
  <2>6. left = SubSeq(sock[k].backlog, 1, 0)
    BY <2>1, <2>5 DEF Left
  <2> QED
    BY <1>1, <2>6, SubSeqEmpty
<1> HIDE DEF left
<1>5. /\ u.state = sock[k].state /\ u.t = sock[k].t /\ u.n = n /\ u.want = sock[k].want
      /\ u.backlog = left /\ u.pend = {}
  BY <1>2, <1>3 DEF Socket
<1> HIDE DEF u
<1>6. sock'[k] = u
  BY <1>1, <1>2
<1>7. Live(k)' => Live(k)
  BY <1>2, <1>5, <1>6 DEF Live
<1>8. ContentFlow(k)'
  <2>1. Done(k)' = Done(k) /\ Hung(k)' = Hung(k)
    BY <1>3, <1>5, <1>6 DEF Done, Hung
  <2>2. /\ Follows(svc'[k].in, svc'[k].off)
        /\ Follows(sock'[k].backlog, svc'[k].off + Len(svc'[k].in))
    BY <1>3, <1>5, <1>6
  <2>3. NoNew(toDev[sock[k].t], toDev'[sock[k].t], "WRTE", sock[k].n)
    BY <1>2 DEF NoNew
  <2>4. sock'[k].state = "open" =>
          /\ sock[k].state = "open" /\ sock'[k].t = sock[k].t /\ sock'[k].n = sock[k].n
          /\ None(toDev'[sock[k].t], "WRTE", sock[k].n) <=> None(toDev[sock[k].t], "WRTE", sock[k].n)
          /\ NoNew(toDev[sock[k].t], toDev'[sock[k].t], "WRTE", sock[k].n)
    BY <1>2, <1>5, <1>6, <2>3
  <2> QED
    BY <1>2, <1>7, <2>1, <2>2, <2>4, ContentMoves
<1>9. PermitFlow(k)'
  <2>1. sock[k].state = "open" =>
           AtMostOne(toDev[sock[k].t], "WRTE", n) /\ None(toDev[sock[k].t], "WRTE", n)
    BY <1>2, <1>4 DEF Flow, PermitFlow
  <2>2. ASSUME Live(k)
        PROVE  /\ host.rid = 0 => One(toHost[sock[k].t], "OKAY", n)
               /\ InPermit(k)' /\ OutPermit(k)'
    <3>1. (host.rid = 0 => One(toHost[sock[k].t], "OKAY", n)) /\ InPermit(k) /\ OutPermit(k)
      BY <1>2, <2>2 DEF Flow, PermitFlow
    <3>2. InPermit(k)'
      BY <1>1, <1>2, <1>4, <1>5, <1>6, <3>1 DEF InPermit
    <3>3. OutPermit(k)'
      BY <1>1, <1>2, <1>5, <1>6, <3>1 DEF OutPermit
    <3> QED
      BY <3>1, <3>2, <3>3
  <2> QED
    BY <1>1, <1>2, <1>5, <1>6, <1>7, <2>1, <2>2 DEF PermitFlow
<1>10. Flow(k)'
  BY <1>8, <1>9 DEF Flow
<1>11. Voice(k, <<>>)
  BY EmptySeq DEF Voice
<1> QED
  BY <1>1, <1>3, <1>5, <1>10, <1>11, EventOne
\* One packet more of a kind, or none.
OneMore(h, g, c, n, b) ==
  /\ ~b => (None(g, c, n) <=> None(h, c, n)) /\ (One(h, c, n) => One(g, c, n))
  /\ b /\ None(h, c, n) => One(g, c, n)

LEMMA Saying ==
  ASSUME NEW h \in Seq(ToHost), NEW ps \in Seq(ToHost), NEW c0, NEW n, NEW c,
         ps = <<>> \/ (Len(ps) = 1 /\ ps[1].cmd = c0 /\ ps[1].stream = n)
  PROVE  h \o ps \in Seq(ToHost) /\ OneMore(h, h \o ps, c, n, ps # <<>> /\ c = c0)
<1>1. h \o ps \in Seq(ToHost)
  BY Joined
<1>2. CASE ps = <<>>
  <2>1. h \o ps = h
    BY <1>2, ConcatEmptySeq
  <2> QED
    BY <1>1, <1>2, <2>1 DEF OneMore
<1>3. CASE Len(ps) = 1 /\ ps[1].cmd = c0 /\ ps[1].stream = n
  <2>1. /\ Grows(h, h \o ps)
        /\ \A i \in (Len(h) + 1)..Len(h \o ps) : i = Len(h) + 1 /\ (h \o ps)[i] = ps[1]
        /\ Len(h) + 1 \in (Len(h) + 1)..Len(h \o ps)
    BY <1>3, GrowsByOne
  <2>2. ps # <<>>
    BY <1>3, EmptySeq
  <2>3. CASE c = c0
    <3>1. Is((h \o ps)[Len(h) + 1], c, n)
      BY <1>3, <2>1, <2>3 DEF Is
    <3>2. None(h, c, n) => One(h \o ps, c, n)
      BY <2>1, <3>1, GrowAdds, ZenonT(30)
    <3> QED
      BY <1>1, <2>2, <2>3, <3>2 DEF OneMore
  <2>4. CASE c # c0
    <3>1. \A i \in (Len(h) + 1)..Len(h \o ps) : ~Is((h \o ps)[i], c, n)
      BY <1>3, <2>1, <2>4 DEF Is
    <3>2. (None(h \o ps, c, n) <=> None(h, c, n)) /\ (One(h, c, n) => One(h \o ps, c, n))
      BY <2>1, <3>1, GrowKeeps
    <3> QED
      BY <1>1, <2>4, <3>2 DEF OneMore
  <2> QED
    BY <2>3, <2>4
<1> QED
  BY <1>2, <1>3

LEMMA VoiceJoined ==
  ASSUME NEW k, NEW ps, NEW qs, Voice(k, ps), Voice(k, qs)
  PROVE  Voice(k, ps \o qs)
<1>1. ps \in Seq(ToHost) /\ qs \in Seq(ToHost)
  BY DEF Voice
<1>2. /\ ps \o qs \in Seq(ToHost) /\ Len(ps) \in Nat /\ Len(qs) \in Nat
      /\ Len(ps \o qs) = Len(ps) + Len(qs)
      /\ \A i \in 1..Len(ps \o qs) :
           (ps \o qs)[i] = IF i <= Len(ps) THEN ps[i] ELSE qs[i - Len(ps)]
  BY <1>1, Joined
<1>3. ASSUME NEW i \in 1..Len(ps \o qs)
      PROVE  /\ (ps \o qs)[i].stream = sock[k].n
             /\ (ps \o qs)[i].cmd = "OKAY" => (ps \o qs)[i].arg0 = k
  <2>1. CASE i <= Len(ps)
    <3>1. (ps \o qs)[i] = ps[i] /\ i \in 1..Len(ps)
      BY <1>2, <2>1
    <3> QED
      BY <3>1 DEF Voice
  <2>2. CASE ~(i <= Len(ps))
    <3>1. (ps \o qs)[i] = qs[i - Len(ps)] /\ i - Len(ps) \in 1..Len(qs)
      BY <1>2, <2>2
    <3> QED
      BY <3>1 DEF Voice
  <2> QED
    BY <2>1, <2>2
<1> QED
  BY <1>2, <1>3 DEF Voice

\* What the write half leaves of the socket.
LEMMA AfterWriteRest ==
  ASSUME NEW k, NEW ev, sock[k] \in Socket
  PROVE  /\ AfterWrite(k, ev).pend = {}
         /\ AfterWrite(k, ev).backlog = IF "W" \in ev THEN <<>> ELSE sock[k].backlog
         /\ "R" \in AfterWrite(k, ev).want <=> "R" \in sock[k].want
<1> DEFINE s == [sock[k] EXCEPT !.pend = {}]
           w == FdeSet(s, s.want \ {"W"})
           u == [w EXCEPT !.backlog = <<>>]
<1>1. s \in Socket /\ s.pend = {} /\ s.backlog = sock[k].backlog /\ s.want = sock[k].want
  BY DEF Socket
<1>2. AfterWrite(k, ev) = IF "W" \in ev THEN u ELSE s
  BY DEF AfterWrite
<1> HIDE DEF s
<1>3. s.want \ {"W"} \in SUBSET {"R", "W"}
  BY <1>1, Fields
<1>4. w \in Socket /\ w.want = s.want \ {"W"}
  BY <1>1, <1>3, FdeSets
<1>5. w.pend = {}
  BY <1>1 DEF FdeSet, Socket
<1> HIDE DEF w
<1>6. u.pend = {} /\ u.want = s.want \ {"W"} /\ u.backlog = <<>>
  BY <1>4, <1>5 DEF Socket
<1> HIDE DEF u
<1> QED
  BY <1>1, <1>2, <1>6

\* An event of an open socket that goes on: the OKAY that the backlog held back
\* is said, and what the thread has answered.
LEMMA ReadFlows ==
  ASSUME FInv, NEW k \in Ids, UNCHANGED <<cable, toDev, host>>, sock[k].state = "open",
         NEW resumed \in BOOLEAN, NEW told \in BOOLEAN,
         sock'[k].state = "open", sock'[k].t = sock[k].t, sock'[k].n = sock[k].n,
         sock'[k].pend = {},
         resumed => sock[k].backlog # <<>> /\ ~Hung(k) /\ Left(k, sock[k].backlog) = <<>>,
         sock'[k].backlog = IF resumed THEN <<>> ELSE sock[k].backlog,
         told => "R" \in sock[k].want,
         "R" \in sock'[k].want <=> "R" \in sock[k].want /\ ~told,
         svc'[k].state = svc[k].state, svc'[k].off = svc[k].off,
         svc'[k].in = IF resumed THEN Written(k, sock[k].backlog)[k].in ELSE svc[k].in,
         Live(k) => /\ OneMore(toHost[sock[k].t], toHost'[sock[k].t], "OKAY", sock[k].n, resumed)
                    /\ OneMore(toHost[sock[k].t], toHost'[sock[k].t], "WRTE", sock[k].n, told)
  PROVE  Flow(k)'
<1> DEFINE n == sock[k].n
           t == sock[k].t
<1>1. Flow(k) /\ Hung(k)' = Hung(k) /\ (Live(k)' => Live(k))
  BY DEF FInv, Hung, Live
<1>2. ASSUME ~Hung(k)
      PROVE  /\ Follows(svc'[k].in, svc'[k].off)
             /\ Follows(sock'[k].backlog, svc'[k].off + Len(svc'[k].in))
             /\ Done(k)' = Done(k)
  <2>1. CASE resumed
    <3>1. /\ Follows(svc'[k].in, svc[k].off)
          /\ svc[k].off + Len(svc'[k].in) + Len(Left(k, sock[k].backlog)) = Done(k)
      BY <1>2, <2>1, BacklogWritten
    <3>2. Follows(<<>>, svc[k].off + Len(svc'[k].in))
      BY EmptySeq DEF Follows
    <3> QED
      BY <2>1, <3>1, <3>2 DEF Done
  <2>2. CASE ~resumed
    BY <1>1, <1>2, <2>2 DEF Flow, ContentFlow, Done
  <2> QED
    BY <2>1, <2>2
<1>3. NoNew(toDev[sock[k].t], toDev'[sock[k].t], "WRTE", sock[k].n)
  BY DEF NoNew
<1>4. ContentFlow(k)'
  BY <1>1, <1>2, <1>3, ContentMoves
<1>5. /\ AtMostOne(toDev[t], "WRTE", n)
      /\ sock[k].backlog # <<>> => None(toDev[t], "WRTE", n)
  BY <1>1 DEF Flow, PermitFlow
<1>6. ASSUME Live(k)
      PROVE  (host.rid = 0 => One(toHost'[t], "OKAY", n)) /\ InPermit(k)' /\ OutPermit(k)'
  <2>1. (host.rid = 0 => One(toHost[t], "OKAY", n)) /\ InPermit(k) /\ OutPermit(k)
    BY <1>1, <1>6 DEF Flow, PermitFlow
  <2>2. /\ resumed => (None(toHost[t], "OKAY", n) => One(toHost'[t], "OKAY", n))
        /\ ~resumed => /\ None(toHost'[t], "OKAY", n) <=> None(toHost[t], "OKAY", n)
                       /\ One(toHost[t], "OKAY", n) => One(toHost'[t], "OKAY", n)
        /\ told => (None(toHost[t], "WRTE", n) => One(toHost'[t], "WRTE", n))
        /\ ~told => /\ None(toHost'[t], "WRTE", n) <=> None(toHost[t], "WRTE", n)
                    /\ One(toHost[t], "WRTE", n) => One(toHost'[t], "WRTE", n)
    BY <1>6 DEF OneMore
  <2>3. CASE resumed
    <3>1. /\ ~host.credit /\ None(toDev[t], "WRTE", n) /\ One(toHost'[t], "OKAY", n)
      BY <2>1, <2>2, <2>3 DEF InPermit
    <3> QED
      <4>1. InPermit(k)'
        BY <2>3, <3>1 DEF InPermit
      <4>2. OutPermit(k)'
        BY <2>1, <2>2 DEF OutPermit
      <4> QED
        BY <3>1, <4>1, <4>2
  <2>4. CASE ~resumed
    <3>1. InPermit(k)'
      BY <2>1, <2>2, <2>4 DEF InPermit
    <3>2. OutPermit(k)'
      BY <2>1, <2>2 DEF OutPermit
    <3> QED
      BY <2>1, <2>2, <2>4, <3>1, <3>2
  <2> QED
    BY <2>3, <2>4
<1>7. PermitFlow(k)'
  BY <1>1, <1>5, <1>6 DEF PermitFlow
<1> QED
  BY <1>4, <1>7 DEF Flow
LEMMA FlowRead ==
  ASSUME FInv, NEW k \in Ids, SocketEvent(k), EventRead(k, sock[k].pend)
  PROVE  AddressInv' /\ KnownInv' /\ \A j \in Ids : Flow(j)'
<1> DEFINE ev   == sock[k].pend
           s    == AfterWrite(k, ev)
           data == IF "R" \in ev THEN svc[k].out ELSE <<>>
           fed  == IF "W" \in ev THEN Written(k, sock[k].backlog) ELSE svc
           eof  == "R" \in ev /\ Hung(k)
           sent == IF data # <<>> /\ s.state = "open" THEN ToPeer(k, "WRTE", k, data) ELSE <<>>
           off  == IF sent # <<>> THEN FdeSet(s, s.want \ {"R"}) ELSE s
           bye  == IF eof /\ s.state = "open" THEN Farewell(k) ELSE <<>>
           ps   == Resumed(k, ev) \o sent \o bye
           u    == IF eof THEN Closed(off) ELSE off
<1>1. /\ Drained(k, ev)
      /\ svc' = [fed EXCEPT ![k].out = IF "R" \in ev THEN <<>> ELSE @]
      /\ sock' = [sock EXCEPT ![k] = u]
      /\ Send(s.t, ps)
  BY DEF EventRead
<1>2. /\ sock[k] \in Socket /\ Consistent(sock[k]) /\ sock \in [Ids -> Socket]
      /\ Flow(k) /\ UNCHANGED <<cable, toDev, host>> /\ TypeOK /\ k \in 0..MaxStreams
      /\ sock[k].backlog \in Seq(Units) /\ Len(svc[k].in) <= Room
  BY Given, Fields, Constants, SMTT(30) DEF FInv, IInv, TypeOK, SocketEvent, Ids
<1>3. /\ s \in Socket /\ Consistent(s) /\ s.state = sock[k].state /\ s.t = sock[k].t
      /\ s.rid = sock[k].rid /\ s.n = sock[k].n
      /\ s.pend = {} /\ s.backlog = IF "W" \in ev THEN <<>> ELSE sock[k].backlog
      /\ "R" \in s.want <=> "R" \in sock[k].want
  BY <1>2, AfterWriteFields, AfterWriteRest
<1>4. "W" \in ev => /\ sock[k].state = "open"
                    /\ sock[k].backlog = <<>> \/ (~Hung(k) /\ Left(k, sock[k].backlog) = <<>>)
  BY <1>1 DEF Drained
<1>5. /\ svc'[k].state = svc[k].state /\ svc'[k].off = svc[k].off
      /\ svc'[k].in = IF "W" \in ev THEN Written(k, sock[k].backlog)[k].in ELSE svc[k].in
      /\ \A j \in Ids : j # k => svc'[j] = svc[j]
  <2>1. /\ fed \in [Ids -> Service]
        /\ fed[k].state = svc[k].state /\ fed[k].off = svc[k].off
        /\ fed[k].in = IF "W" \in ev THEN Written(k, sock[k].backlog)[k].in ELSE svc[k].in
        /\ \A j \in Ids : j # k => fed[j] = svc[j]
    <3>1. svc \in [Ids -> Service]
      BY <1>2 DEF TypeOK
    <3>2. /\ Written(k, sock[k].backlog) \in [Ids -> Service]
          /\ \A j \in Ids : /\ Written(k, sock[k].backlog)[j].state = svc[j].state
                            /\ Written(k, sock[k].backlog)[j].off = svc[j].off
                            /\ j # k => Written(k, sock[k].backlog)[j] = svc[j]
      BY <1>2, Writing
    <3> QED
      BY <3>1, <3>2
  <2> HIDE DEF fed
  <2> DEFINE out == IF "R" \in ev THEN <<>> ELSE fed[k].out
  <2>2. svc' = [fed EXCEPT ![k].out = out]
    BY <1>1
  <2> HIDE DEF out
  <2>3. svc'[k] = [fed[k] EXCEPT !.out = out] /\ \A j \in Ids : j # k => svc'[j] = fed[j]
    BY <2>1, <2>2
  <2>4. svc'[k].state = fed[k].state /\ svc'[k].off = fed[k].off /\ svc'[k].in = fed[k].in
    BY <2>1, <2>3 DEF Service
  <2> QED
    BY <2>1, <2>3, <2>4
<1>6. /\ Voice(k, Resumed(k, ev)) /\ Voice(k, sent) /\ Voice(k, bye) /\ Voice(k, ps)
      /\ "W" \in ev => Len(Resumed(k, ev)) = 1 /\ Resumed(k, ev)[1].cmd = "OKAY"
                       /\ Resumed(k, ev)[1].stream = sock[k].n
      /\ "W" \notin ev => Resumed(k, ev) = <<>>
      /\ sent # <<>> => Len(sent) = 1 /\ sent[1].cmd = "WRTE" /\ sent[1].stream = sock[k].n
  <2>1. Voice(k, <<>>) /\ <<>> \in Seq({"OKAY", "FAIL"})
    BY EmptySeq DEF Voice
  <2>2. data \in Seq({"OKAY", "FAIL"})
    BY <1>2, <2>1, ServiceFields
  <2> HIDE DEF data
  <2>3. /\ Voice(k, ToPeer(k, "OKAY", k, <<>>)) /\ Len(ToPeer(k, "OKAY", k, <<>>)) = 1
        /\ ToPeer(k, "OKAY", k, <<>>)[1].cmd = "OKAY"
        /\ ToPeer(k, "OKAY", k, <<>>)[1].stream = sock[k].n
    BY <1>2, <2>1, PeerVoice, ZenonT(30)
  <2>4. /\ Voice(k, ToPeer(k, "WRTE", k, data)) /\ Len(ToPeer(k, "WRTE", k, data)) = 1
        /\ ToPeer(k, "WRTE", k, data)[1].cmd = "WRTE"
        /\ ToPeer(k, "WRTE", k, data)[1].stream = sock[k].n
    BY <1>2, <2>2, PeerVoice
  <2>5. /\ Voice(k, Resumed(k, ev))
        /\ "W" \in ev => Len(Resumed(k, ev)) = 1 /\ Resumed(k, ev)[1].cmd = "OKAY"
                         /\ Resumed(k, ev)[1].stream = sock[k].n
        /\ "W" \notin ev => Resumed(k, ev) = <<>>
    BY <2>1, <2>3 DEF Resumed
  <2>6. /\ Voice(k, sent)
        /\ sent # <<>> => Len(sent) = 1 /\ sent[1].cmd = "WRTE" /\ sent[1].stream = sock[k].n
    BY <2>1, <2>4
  <2>7. Voice(k, bye)
    BY <2>1, FarewellVoice
  <2> HIDE DEF sent, bye
  <2>8. Voice(k, ps)
    BY <2>5, <2>6, <2>7, VoiceJoined
  <2> QED
    BY <2>5, <2>6, <2>7, <2>8
<1>7. s.state # "open" => ps = <<>> /\ sent = <<>> /\ bye = <<>>
  <2>1. <<>> \o <<>> \o <<>> = <<>>
    BY EmptySeq, ConcatEmptySeq
  <2> QED
    BY <1>3, <1>4, <1>6, <2>1
<1>8. /\ off \in Socket /\ Consistent(off) /\ off.state = sock[k].state /\ off.t = sock[k].t
      /\ off.n = sock[k].n /\ off.backlog = s.backlog /\ off.pend = {}
      /\ "R" \in off.want <=> "R" \in sock[k].want /\ sent = <<>>
  <2> HIDE DEF s, sent
  <2>1. s.want \ {"R"} \in SUBSET {"R", "W"}
    BY <1>3, Fields
  <2> DEFINE w == FdeSet(s, s.want \ {"R"})
  <2>2. /\ w \in Socket /\ w.state = s.state /\ w.t = s.t /\ w.rid = s.rid
        /\ w.n = s.n /\ w.backlog = s.backlog /\ w.want = s.want \ {"R"}
    BY <1>3, <2>1, FdeSets
  <2>3. w.pend = {}
    BY <1>3 DEF FdeSet, Socket
  <2> HIDE DEF w
  <2>4. off = IF sent # <<>> THEN w ELSE s
    BY DEF w
  <2>5. Consistent(w)
    BY <1>3, <2>2 DEF Consistent
  <2> QED
    BY <1>3, <2>2, <2>3, <2>4, <2>5
<1> HIDE DEF s, sent, bye, off, data, fed
<1>9. /\ Closed(off).state # "open" /\ Closed(off).n = sock[k].n
  BY <1>8, ClosedFields DEF Wanes
<1>10. u.n = sock[k].n /\ (u.state = "open" => sock[k].state = "open" /\ u.t = sock[k].t)
  BY <1>8, <1>9
<1>11. sock'[k] = u
  BY <1>1, <1>2
<1>12. Hung(k)' = Hung(k)
  BY <1>5 DEF Hung
<1>13. Flow(k)'
  <2>1. CASE eof
    <3>1. sock'[k].state # "open" /\ Hung(k)'
      BY <1>9, <1>11, <1>12, <2>1
    <3> QED
      BY <3>1 DEF Flow, PermitFlow, ContentFlow, Live
  <2>2. CASE ~eof /\ sock[k].state # "open"
    <3>1. "W" \notin ev
      BY <1>4, <2>2
    <3>2. sock'[k].state # "open" /\ sock'[k].backlog = sock[k].backlog /\ svc'[k].in = svc[k].in
      BY <1>3, <1>5, <1>8, <1>11, <2>2, <3>1
    <3> QED
      BY <1>2, <1>5, <1>12, <3>2, Gone
  <2>3. CASE ~eof /\ sock[k].state = "open"
    <3> DEFINE resumed == "W" \in ev
               told == sent # <<>>
    <3>1. ev \subseteq sock[k].want
      BY <1>2, <2>3 DEF Flow, PermitFlow
    <3>2. told => "R" \in sock[k].want
      BY <3>1 DEF sent, data
    <3>3. resumed => sock[k].backlog # <<>> /\ ~Hung(k) /\ Left(k, sock[k].backlog) = <<>>
      BY <1>2, <1>4, <3>1 DEF Consistent
    <3>4. /\ sock'[k].state = "open" /\ sock'[k].t = sock[k].t /\ sock'[k].n = sock[k].n
          /\ sock'[k].pend = {}
          /\ sock'[k].backlog = IF resumed THEN <<>> ELSE sock[k].backlog
          /\ "R" \in sock'[k].want <=> "R" \in sock[k].want /\ ~told
      BY <1>3, <1>8, <1>11, <2>3
    <3>5. ASSUME Live(k)
          PROVE  /\ OneMore(toHost[sock[k].t], toHost'[sock[k].t], "OKAY", sock[k].n, resumed)
                 /\ OneMore(toHost[sock[k].t], toHost'[sock[k].t], "WRTE", sock[k].n, told)
      <4> DEFINE h == toHost[sock[k].t]
                 a == Resumed(k, ev)
                 n == sock[k].n
      <4>1. /\ h \in Seq(ToHost) /\ toHost'[sock[k].t] = h \o ps
            /\ a \in Seq(ToHost) /\ sent \in Seq(ToHost) /\ bye = <<>>
        <5>1. ps \in Seq(ToHost) /\ a \in Seq(ToHost) /\ sent \in Seq(ToHost)
          BY <1>6 DEF Voice
        <5>2. cable.in /\ s.t = cable.t /\ sock[k].t = cable.t
          BY <1>3, <3>5 DEF Live
        <5>3. toHost[cable.t] \in Seq(ToHost) /\ toHost'[cable.t] = toHost[cable.t] \o ps
          BY <1>1, <5>1, <5>2, Telling
        <5>4. bye = <<>>
          BY <2>3 DEF bye
        <5> QED
          BY <5>1, <5>2, <5>3, <5>4
      <4>2. a = <<>> \/ (Len(a) = 1 /\ a[1].cmd = "OKAY" /\ a[1].stream = n)
        BY <1>6
      <4>3. sent = <<>> \/ (Len(sent) = 1 /\ sent[1].cmd = "WRTE" /\ sent[1].stream = n)
        BY <1>6
      <4>4. a # <<>> <=> resumed
        BY <1>6, EmptySeq
      <4> HIDE DEF h, a
      <4>5. toHost'[sock[k].t] = (h \o a) \o sent
        <5>1. ps = a \o sent
          <6>1. a \o sent \in Seq(ToHost)
            BY <4>1, Joined
          <6> QED
            BY <4>1, <6>1, ConcatEmptySeq DEF a
        <5>2. h \o (a \o sent) = (h \o a) \o sent
          BY <4>1, ConcatAssociative
        <5> QED
          BY <4>1, <5>1, <5>2
      <4>6. h \o a \in Seq(ToHost) /\ \A c : OneMore(h, h \o a, c, n, a # <<>> /\ c = "OKAY")
        BY <4>1, <4>2, Saying
      <4>7. \A c : OneMore(h \o a, (h \o a) \o sent, c, n, sent # <<>> /\ c = "WRTE")
        <5> DEFINE m == h \o a
        <5>1. m \in Seq(ToHost) /\ sent \in Seq(ToHost)
          BY <4>1, <4>6
        <5> HIDE DEF m
        <5>2. \A c : OneMore(m, m \o sent, c, n, sent # <<>> /\ c = "WRTE")
          BY <4>3, <5>1, Saying
        <5> QED
          BY <5>2 DEF m
      <4>8. OneMore(h, toHost'[sock[k].t], "OKAY", n, resumed)
        <5>1. OneMore(h, h \o a, "OKAY", n, resumed)
          <6>1. OneMore(h, h \o a, "OKAY", n, a # <<>> /\ "OKAY" = "OKAY")
            BY <4>6
          <6> QED
            BY <4>4, <6>1 DEF OneMore
        <5>2. OneMore(h \o a, toHost'[sock[k].t], "OKAY", n, FALSE)
          <6>1. OneMore(h \o a, (h \o a) \o sent, "OKAY", n, sent # <<>> /\ "OKAY" = "WRTE")
            BY <4>7
          <6> QED
            BY <4>5, <6>1 DEF OneMore
        <5> QED
          BY <5>1, <5>2 DEF OneMore
      <4>9. OneMore(h, toHost'[sock[k].t], "WRTE", n, told)
        <5>1. OneMore(h, h \o a, "WRTE", n, FALSE)
          <6>1. OneMore(h, h \o a, "WRTE", n, a # <<>> /\ "WRTE" = "OKAY")
            BY <4>6
          <6> QED
            BY <6>1 DEF OneMore
        <5>2. OneMore(h \o a, toHost'[sock[k].t], "WRTE", n, told)
          <6>1. OneMore(h \o a, (h \o a) \o sent, "WRTE", n, sent # <<>> /\ "WRTE" = "WRTE")
            BY <4>7
          <6> QED
            BY <4>5, <6>1 DEF OneMore
        <5> QED
          BY <5>1, <5>2 DEF OneMore
      <4> QED
        BY <4>8, <4>9 DEF h
    <3>6. resumed \in BOOLEAN /\ told \in BOOLEAN
      OBVIOUS
    <3>7. svc'[k].in = IF resumed THEN Written(k, sock[k].backlog)[k].in ELSE svc[k].in
      BY <1>5
    <3> HIDE DEF resumed, told, ev
    <3> QED
      BY <1>2, <1>5, <2>3, <3>2, <3>3, <3>4, <3>5, <3>6, <3>7, ReadFlows
  <2> QED
    BY <2>1, <2>2, <2>3
<1>14. Voice(k, ps) /\ (ps # <<>> => sock[k].state = "open") /\ Send(sock[k].t, ps)
  BY <1>1, <1>3, <1>6, <1>7
<1> HIDE DEF u, ps
<1> QED
  BY <1>1, <1>5, <1>10, <1>13, <1>14, EventOne

LEMMA FlowEvent ==
  ASSUME FInv, NEW k \in Ids, SocketEvent(k)
  PROVE  AddressInv' /\ KnownInv' /\ \A j \in Ids : Flow(j)'
BY FlowWriteFails, FlowWritePart, FlowWriteLast, FlowRead DEF SocketEvent

LEMMA FlowPoll ==
  ASSUME FInv, Poll
  PROVE  AddressInv' /\ KnownInv' /\ \A j \in Ids : Flow(j)'
<1> DEFINE d == [t \in Transports |-> 0]
<1>1. /\ ready' = {t \in Transports : toDev[t] # <<>>}
      /\ sock' = [k \in Ids |-> [sock[k] EXCEPT !.pend = Readiness(k) \cap sock[k].want]]
      /\ UNCHANGED <<cable, online, toDev, toHost, nextId, svc, file, owner, fouled, alive, host>>
  BY DEF Poll
<1>2. toDev \in [Transports -> Seq(FromHost)]
  BY DEF FInv, IInv, TypeOK
<1>3. \A t \in Transports : Len(toDev[t]) \in Nat
  BY <1>2, LenProperties
<1>4. d \in [Transports -> {0, 1}] /\ \A t \in Transports : d[t] = 0
  OBVIOUS
<1> HIDE DEF d
<1>5. Shifted(d)
  BY <1>1, <1>2, <1>3, <1>4 DEF Shifted
<1>6. ASSUME NEW k \in Ids
      PROVE  /\ sock'[k].n = sock[k].n /\ sock'[k].state = sock[k].state /\ sock'[k].t = sock[k].t
             /\ sock'[k].backlog = sock[k].backlog /\ sock'[k].want = sock[k].want
             /\ sock'[k].pend \subseteq sock'[k].want
  <2>1. sock[k] \in Socket /\ sock'[k] = [sock[k] EXCEPT !.pend = Readiness(k) \cap sock[k].want]
    BY <1>1, Given DEF FInv
  <2> DEFINE e == Readiness(k) \cap sock[k].want
  <2>2. e \subseteq sock[k].want
    OBVIOUS
  <2> HIDE DEF e
  <2>3. sock'[k] = [sock[k] EXCEPT !.pend = e]
    BY <2>1 DEF e
  <2> QED
    BY <2>1, <2>2, <2>3 DEF Socket
<1>7. \A k \in Ids :
        /\ sock'[k].n = sock[k].n
        /\ \/ sock'[k] = sock[k]
           \/ /\ sock'[k].state # "open" /\ sock'[k].backlog \in {sock[k].backlog, <<>>}
           \/ /\ sock'[k].state = sock[k].state /\ sock'[k].t = sock[k].t
              /\ sock'[k].backlog = sock[k].backlog /\ sock'[k].want = sock[k].want
              /\ sock'[k].pend \subseteq sock'[k].want
  BY <1>6
<1>8. <<>> \in Seq(ToHost) /\ \A i \in 1..Len(<<>>) : FALSE
  BY EmptySeq
<1>9. \A t \in Transports : d[t] = 1 =>
        /\ Len(toDev[t]) # 0
        /\ \/ toDev[t][1].cmd \notin {"WRTE", "OKAY"}
           \/ \A k \in Ids : sock[k].state = "open" => toDev[t][1].stream # sock[k].n
  BY <1>4
<1>10. \E ps \in Seq(ToHost) : \A i \in 1..Len(ps) : ps[i].cmd \notin {"WRTE", "OKAY"}
  BY <1>8
<1>11. PICK ps \in Seq(ToHost) : \A i \in 1..Len(ps) : ps[i].cmd \notin {"WRTE", "OKAY"}
  BY <1>10
<1> HIDE DEF Live
<1>12. \E t0 : Send(t0, ps) \/ UNCHANGED toHost
  BY <1>1
<1> QED
  BY <1>1, <1>4, <1>5, <1>7, <1>9, <1>11, <1>12, ManySockets
-----------------------------------------------------------------------------
(* Service threads                                                         *)

\* A thread takes from what it has, or hangs up.
LEMMA ThreadFlow ==
  ASSUME FInv, UNCHANGED <<cable, toDev, toHost, nextId, sock, host>>, NEW k \in Ids,
         \A j \in Ids : j # k => svc'[j] = svc[j],
         Hung(k) => Hung(k)',
         ~Hung(k)' => /\ svc'[k].off + Len(svc'[k].in) = svc[k].off + Len(svc[k].in)
                      /\ Follows(svc'[k].in, svc'[k].off)
  PROVE  AddressInv' /\ KnownInv' /\ \A j \in Ids : Flow(j)'
<1>1. AddressInv' /\ KnownInv'
  BY DEF FInv, AddressInv, KnownInv, Base
<1>2. ASSUME NEW j \in Ids PROVE PermitFlow(j)'
  <2>1. PermitFlow(j)
    BY DEF FInv, Flow
  <2> QED
    BY <2>1 DEF PermitFlow, Live, InPermit, OutPermit
<1>3. ASSUME NEW j \in Ids, j # k PROVE ContentFlow(j)'
  <2>1. ContentFlow(j) /\ svc'[j] = svc[j]
    BY <1>3 DEF FInv, Flow
  <2> QED
    BY <2>1 DEF ContentFlow, Hung, Live, Done
<1>4. CASE Hung(k)'
  BY <1>1, <1>2, <1>3, <1>4 DEF ContentFlow, Flow
<1>5. CASE ~Hung(k)'
  <2>1. Flow(k) /\ ~Hung(k)
    BY <1>5 DEF FInv
  <2>2. Follows(sock'[k].backlog, svc'[k].off + Len(svc'[k].in))
    BY <1>5, <2>1 DEF Flow, ContentFlow
  <2>3. Done(k)' = Done(k)
    BY <1>5 DEF Done
  <2>4. Live(k)' => Live(k) /\ host'.sent = host.sent
    BY DEF Live
  <2>5. NoNew(toDev[sock[k].t], toDev'[sock[k].t], "WRTE", sock[k].n)
    BY DEF NoNew
  <2>6. ContentFlow(k)'
    BY <1>5, <2>1, <2>2, <2>3, <2>4, <2>5, ContentMoves
  <2> QED
    BY <1>1, <1>2, <1>3, <2>6 DEF Flow
<1> QED
  BY <1>4, <1>5

LEMMA FlowThread ==
  ASSUME FInv, NEW k \in Ids, ServiceStep(k) \/ Exit(k)
  PROVE  AddressInv' /\ KnownInv' /\ \A j \in Ids : Flow(j)'
<1>1. UNCHANGED <<cable, toDev, toHost, nextId, sock, host>> /\ IInv
  BY DEF ServiceStep, Exit, FInv
<1>2. /\ svc \in [Ids -> Service] /\ svc[k] \in Service
      /\ svc[k].in \in Seq(Units) /\ Len(svc[k].in) \in Nat /\ svc[k].off \in 0..Size
      /\ ~Hung(k) => Follows(svc[k].in, svc[k].off)
  <2>1. svc \in [Ids -> Service] /\ svc[k] \in Service
    BY <1>1 DEF IInv, TypeOK
  <2>2. svc[k].in \in Seq(Units) /\ svc[k].off \in 0..Size
    BY <1>1, ServiceFields DEF IInv
  <2>3. ~Hung(k) => Follows(svc[k].in, svc[k].off)
    BY DEF FInv, Flow, ContentFlow
  <2> QED
    BY <2>1, <2>2, <2>3, LenProperties
<1>3. ASSUME NEW r, svc' = [svc EXCEPT ![k] = r], Hung(k) => r.state \in {"exiting", "ended"},
             \/ r.state \in {"exiting", "ended"}
             \/ /\ r.off + Len(r.in) = svc[k].off + Len(svc[k].in) /\ Follows(r.in, r.off)
      PROVE  AddressInv' /\ KnownInv' /\ \A j \in Ids : Flow(j)'
  <2>1. svc'[k] = r /\ \A j \in Ids : j # k => svc'[j] = svc[j]
    BY <1>2, <1>3
  <2>2. Hung(k)' <=> r.state \in {"exiting", "ended"}
    BY <2>1 DEF Hung
  <2>3. /\ Hung(k) => Hung(k)'
        /\ ~Hung(k)' => /\ svc'[k].off + Len(svc'[k].in) = svc[k].off + Len(svc[k].in)
                        /\ Follows(svc'[k].in, svc'[k].off)
    BY <1>3, <2>1, <2>2
  <2> QED
    BY <1>1, <2>1, <2>3, ThreadFlow
<1>4. CASE Create(k)
  <2>1. svc[k].state = "started" /\ ~Hung(k)
    BY <1>4 DEF Create, Hung
  <2>2. \/ svc' = [svc EXCEPT ![k] = [svc[k] EXCEPT !.state = "reading"]]
        \/ svc' = [svc EXCEPT ![k] = [svc[k] EXCEPT !.state = "ended", !.in = <<>>]]
    BY <1>2, <1>4 DEF Create
  <2>3. CASE svc' = [svc EXCEPT ![k] = [svc[k] EXCEPT !.state = "reading"]]
    <3> DEFINE r == [svc[k] EXCEPT !.state = "reading"]
    <3>1. r.state = "reading" /\ r.off = svc[k].off /\ r.in = svc[k].in
      BY <1>2 DEF Service
    <3>2. svc' = [svc EXCEPT ![k] = r]
      BY <2>3
    <3> HIDE DEF r
    <3> QED
      BY <1>2, <1>3, <2>1, <3>1, <3>2
  <2>4. CASE svc' = [svc EXCEPT ![k] = [svc[k] EXCEPT !.state = "ended", !.in = <<>>]]
    <3> DEFINE r == [svc[k] EXCEPT !.state = "ended", !.in = <<>>]
    <3>1. r.state = "ended"
      BY <1>2 DEF Service
    <3>2. svc' = [svc EXCEPT ![k] = r]
      BY <2>4
    <3> HIDE DEF r
    <3> QED
      BY <1>3, <3>1, <3>2
  <2> QED
    BY <2>2, <2>3, <2>4
<1>5. CASE Receive(k)
  <2>1. /\ svc[k].state = "reading" /\ svc[k].in # <<>>
        /\ svc' = [svc EXCEPT ![k].off = svc[k].off + 1, ![k].in = Tail(svc[k].in)]
    BY <1>5 DEF Receive
  <2> DEFINE r == [svc[k] EXCEPT !.off = svc[k].off + 1, !.in = Tail(svc[k].in)]
  <2>2. svc' = [svc EXCEPT ![k] = r] /\ r.off = svc[k].off + 1 /\ r.in = Tail(svc[k].in)
    BY <1>2, <2>1 DEF Service
  <2> HIDE DEF r
  <2> DEFINE q == svc[k].in
             off == svc[k].off
  <2>3. q \in Seq(Units) /\ q # <<>> /\ off \in Nat /\ Follows(q, off)
    BY <1>2, <2>1, Constants DEF Hung
  <2>4. ~Hung(k)
    BY <2>1 DEF Hung
  <2> HIDE DEF q, off
  <2>5. /\ Len(q) \in Nat \ {0} /\ Len(Tail(q)) = Len(q) - 1
        /\ \A i \in 1..Len(Tail(q)) : i + 1 \in 1..Len(q) /\ Tail(q)[i] = q[i + 1]
    BY <2>3, Taken
  <2>6. Follows(Tail(q), off + 1)
    <3> SUFFICES ASSUME NEW i \in 1..Len(Tail(q)) PROVE Tail(q)[i] = off + 1 + i
      BY DEF Follows
    <3>1. i + 1 \in 1..Len(q) /\ Tail(q)[i] = q[i + 1]
      BY <2>5
    <3>2. q[i + 1] = off + (i + 1)
      BY <2>3, <3>1 DEF Follows
    <3>3. i \in Int
      BY <2>5
    <3> QED
      BY <2>3, <3>1, <3>2, <3>3
  <2>7. off + 1 + Len(Tail(q)) = off + Len(q)
    BY <2>3, <2>5
  <2>8. r.off = off + 1 /\ r.in = Tail(q) /\ svc[k].off = off /\ svc[k].in = q
    BY <2>2 DEF q, off
  <2>9. r.off + Len(r.in) = svc[k].off + Len(svc[k].in) /\ Follows(r.in, r.off)
    BY <2>6, <2>7, <2>8
  <2> QED
    BY <1>3, <2>2, <2>4, <2>9
<1>6. CASE GiveUp(k) \/ Succeed(k)
  <2>1. svc[k].state = "reading" /\ \E status \in {"OKAY", "FAIL"} : Answer(k, status)
    BY <1>6 DEF GiveUp, Succeed
  <2>2. PICK out : svc' = [svc EXCEPT ![k].state = "told", ![k].out = out]
    BY <2>1 DEF Answer
  <2> DEFINE r == [svc[k] EXCEPT !.state = "told", !.out = out]
  <2>3. svc' = [svc EXCEPT ![k] = r] /\ r.off = svc[k].off /\ r.in = svc[k].in
    BY <1>2, <2>2 DEF Service
  <2> HIDE DEF r
  <2>4. ~Hung(k)
    BY <2>1 DEF Hung
  <2> QED
    BY <1>2, <1>3, <2>3, <2>4
<1>7. CASE HangUp(k)
  <2> DEFINE state == IF svc[k].off = Size THEN "exiting" ELSE "ended"
  <2>1. svc' = [svc EXCEPT ![k].state = state, ![k].in = <<>>]
    BY <1>7 DEF HangUp
  <2>2. state \in {"exiting", "ended"}
    OBVIOUS
  <2> HIDE DEF state
  <2> DEFINE r == [svc[k] EXCEPT !.state = state, !.in = <<>>]
  <2>3. svc' = [svc EXCEPT ![k] = r] /\ r.state = state
    BY <1>2, <2>1 DEF Service
  <2> HIDE DEF r
  <2> QED
    BY <1>3, <2>2, <2>3
<1>8. CASE Exit(k)
  <2>1. UNCHANGED svc
    BY <1>8 DEF Exit
  <2> QED
    BY <1>1, <1>2, <2>1, ThreadFlow DEF Hung
<1> QED
  BY <1>4, <1>5, <1>6, <1>7, <1>8 DEF ServiceStep
-----------------------------------------------------------------------------
(* The host and the cable                                                  *)

\* Of the data of a stream there is nothing new.
Spared(s, u, n) ==
  /\ AtMostOne(s, "WRTE", n) => AtMostOne(u, "WRTE", n)
  /\ None(s, "WRTE", n) => None(u, "WRTE", n)
  /\ NoNew(s, u, "WRTE", n)

\* A socket that the host has no open stream with after this.
LEMMA HostAside ==
  ASSUME FInv, UnchangedDevice, NEW k \in Ids, ~Live(k)',
         sock[k].state = "open" => Spared(toDev[sock[k].t], toDev'[sock[k].t], sock[k].n)
  PROVE  Flow(k)'
<1> DEFINE s == toDev[sock[k].t]
           u == toDev'[sock[k].t]
           n == sock[k].n
<1>1. UNCHANGED <<sock, svc>> /\ Flow(k)
  BY DEF UnchangedDevice, FInv
<1>2. Hung(k)' = Hung(k) /\ Done(k)' = Done(k)
  BY <1>1 DEF Hung, Done
<1>3. PermitFlow(k)'
  BY <1>1 DEF PermitFlow, Flow, Spared
<1>4. ASSUME ~Hung(k), sock[k].state = "open", NEW i \in 1..Len(u), Is(u[i], "WRTE", n)
      PROVE  Follows(u[i].data, Done(k))
  <2>1. PICK j \in 1..Len(s) : u[i] = s[j]
    BY <1>4 DEF Spared, NoNew
  <2> QED
    BY <1>1, <1>4, <2>1 DEF Flow, ContentFlow
<1>5. ContentFlow(k)'
  BY <1>1, <1>2, <1>4 DEF ContentFlow, Flow
<1> QED
  BY <1>3, <1>5 DEF Flow

\* A packet that goes to a socket of its stream, on this transport.
Addressed(t, p) ==
  /\ p.stream <= host'.opened
  /\ p.cmd \in {"OKAY", "CLSE", "WRTE"} =>
       /\ p.arg1 \in Ids /\ p.arg1 < nextId /\ sock[p.arg1].n = p.stream
       /\ sock[p.arg1].state = "open" => sock[p.arg1].t = t

LEMMA HostAddresses ==
  ASSUME FInv, UnchangedDevice, host' \in Server, host.opened <= host'.opened,
         host'.lastId <= host'.opened,
         (Base' = Base /\ cable'.t = cable.t) \/ Base' = host'.opened,
         \A t \in Transports : \A i \in 1..Len(toDev'[t]) :
           \/ \E j \in 1..Len(toDev[t]) : toDev'[t][i] = toDev[t][j]
           \/ t = cable'.t /\ Addressed(t, toDev'[t][i]),
         cable'.in => \A i \in 1..Len(toHost'[cable'.t]) :
           cable.in /\ \E j \in 1..Len(toHost[cable.t]) : toHost'[cable'.t][i] = toHost[cable.t][j]
  PROVE  AddressInv'
<1>1. /\ AddressInv /\ UNCHANGED <<nextId, sock>>
      /\ host.opened \in Int /\ host'.opened \in Int /\ Base \in Int
  BY ServerFields DEF FInv, UnchangedDevice, Server
<1>2. ASSUME NEW t \in Transports, NEW i \in 1..Len(toDev'[t])
      PROVE  /\ toDev'[t][i].stream <= host'.opened
             /\ t # cable'.t => toDev'[t][i].stream <= Base'
             /\ toDev'[t][i].cmd \in {"OKAY", "CLSE", "WRTE"} =>
                  /\ toDev'[t][i].arg1 \in Ids /\ toDev'[t][i].arg1 < nextId
                  /\ sock[toDev'[t][i].arg1].n = toDev'[t][i].stream
                  /\ sock[toDev'[t][i].arg1].state = "open" => sock[toDev'[t][i].arg1].t = t
  <2>1. CASE \E j \in 1..Len(toDev[t]) : toDev'[t][i] = toDev[t][j]
    <3>1. PICK j \in 1..Len(toDev[t]) : toDev'[t][i] = toDev[t][j]
      BY <2>1
    <3> DEFINE p == toDev[t][j]
    <3>2. p.stream \in Int
      <4>1. toDev[t] \in Seq(FromHost)
        BY ServerFields DEF FInv
      <4>2. p \in FromHost
        BY <4>1, ElementOfSeq
      <4>3. p.stream \in 0..MaxStreams
        BY <4>2 DEF FromHost
      <4> QED
        BY <4>3, Constants
    <3>3. /\ p.stream <= host.opened
          /\ t # cable.t => p.stream <= Base
          /\ p.cmd \in {"OKAY", "CLSE", "WRTE"} =>
               /\ p.arg1 \in Ids /\ p.arg1 < nextId
               /\ sock[p.arg1].n = p.stream
               /\ sock[p.arg1].state = "open" => sock[p.arg1].t = t
      BY <1>1 DEF AddressInv
    <3> HIDE DEF p
    <3>4. p.stream <= host'.opened
      BY <1>1, <3>2, <3>3
    <3>5. t # cable'.t => p.stream <= Base'
      BY <3>3, <3>4
    <3> QED
      BY <3>1, <3>3, <3>4, <3>5 DEF p
  <2>2. CASE t = cable'.t /\ Addressed(t, toDev'[t][i])
    BY <2>2 DEF Addressed
  <2> QED
    BY <2>1, <2>2
<1>3. ASSUME NEW k \in Ids, sock[k].state = "open", sock[k].t # cable'.t
      PROVE  sock[k].n <= Base'
  <2>1. sock[k].n \in 1..host.opened
    <3>1. k < nextId
      BY <1>3, Owners
    <3> QED
      BY <3>1 DEF FInv, IInv, SocketsInv
  <2>2. CASE Base' = Base /\ cable'.t = cable.t
    BY <1>1, <1>3, <2>2 DEF AddressInv
  <2>3. CASE Base' = host'.opened
    <3> DEFINE n == sock[k].n
    <3>1. n \in 1..host.opened
      BY <2>1
    <3> HIDE DEF n
    <3>2. n <= host'.opened
      BY <1>1, <3>1
    <3> QED
      BY <2>3, <3>2 DEF n
  <2> QED
    BY <2>2, <2>3
<1>4. ASSUME cable'.in, NEW i \in 1..Len(toHost'[cable'.t]), toHost'[cable'.t][i].cmd = "OKAY"
      PROVE  /\ toHost'[cable'.t][i].arg0 \in Ids /\ toHost'[cable'.t][i].arg0 < nextId
             /\ sock[toHost'[cable'.t][i].arg0].n = toHost'[cable'.t][i].stream
  <2>1. cable.in /\ \E j \in 1..Len(toHost[cable.t]) : toHost'[cable'.t][i] = toHost[cable.t][j]
    BY <1>4
  <2> QED
    BY <1>1, <1>4, <2>1 DEF AddressInv
<1> QED
  BY <1>1, <1>2, <1>3, <1>4 DEF AddressInv

\* The host has no stream after this.
LEMMA HostIdle ==
  ASSUME FInv, UnchangedDevice, host'.id = 0, host'.rid = 0, host'.sent = 0, ~host'.credit,
         ~host'.up => host'.lastId = 0, AddressInv',
         \A k \in Ids : sock[k].state = "open" =>
           Spared(toDev[sock[k].t], toDev'[sock[k].t], sock[k].n)
  PROVE  AddressInv' /\ KnownInv' /\ \A j \in Ids : Flow(j)'
<1>1. KnownInv'
  BY DEF KnownInv
<1>2. \A j \in Ids : ~Live(j)'
  BY DEF Live
<1> QED
  BY <1>1, <1>2, HostAside

\* Nothing has been said, or one thing that is no data of this stream.
LEMMA SparedSame ==
  ASSUME NEW s, NEW n
  PROVE  Spared(s, s, n)
BY DEF Spared, NoNew

LEMMA SparedQuiet ==
  ASSUME NEW s, NEW u, NEW n, Quiet(s, u, n)
  PROVE  Spared(s, u, n)
BY DEF Spared, Quiet

\* What the host says, packet by packet.
LEMMA HostSays ==
  ASSUME FInv, cable.in, NEW p \in FromHost, HostSends(p)
  PROVE  /\ cable.t \in Transports /\ Grows(toDev[cable.t], toDev'[cable.t])
         /\ Len(toDev[cable.t]) \in Nat /\ Len(toDev'[cable.t]) = Len(toDev[cable.t]) + 1
         /\ toDev'[cable.t][Len(toDev[cable.t]) + 1] = p
         /\ (Len(toDev[cable.t]) + 1)..Len(toDev'[cable.t]) = {Len(toDev[cable.t]) + 1}
         /\ \A t \in Transports : t # cable.t => toDev'[t] = toDev[t]
         /\ \A t \in Transports : \A i \in 1..Len(toDev'[t]) :
              \/ \E j \in 1..Len(toDev[t]) : toDev'[t][i] = toDev[t][j]
              \/ t = cable.t /\ toDev'[t][i] = p
         /\ \A t \in Transports : \A n :
              t # cable.t \/ p.stream # n \/ p.cmd \notin {"WRTE", "OKAY"} =>
                Quiet(toDev[t], toDev'[t], n)
<1>1. /\ cable.t \in Transports
      /\ \A t \in Transports : t # cable.t => toDev'[t] = toDev[t]
      /\ Len(toDev[cable.t]) \in Nat /\ Len(toDev'[cable.t]) = Len(toDev[cable.t]) + 1
      /\ \A i \in 1..Len(toDev'[cable.t]) :
           toDev'[cable.t][i] = IF i <= Len(toDev[cable.t]) THEN toDev[cable.t][i] ELSE p
  BY Utterance, ServerFields DEF FInv
<1> DEFINE s == toDev[cable.t]
           u == toDev'[cable.t]
           m == Len(s)
<1>2. /\ m \in Nat /\ Len(u) = m + 1
      /\ \A i \in 1..Len(u) : u[i] = IF i <= m THEN s[i] ELSE p
  BY <1>1
<1>3. Grows(s, u)
  <2>1. Len(s) = m
    OBVIOUS
  <2> HIDE DEF s, u, m
  <2>2. \A i \in 1..m : u[i] = s[i]
    BY <1>2
  <2> QED
    BY <1>2, <2>1, <2>2 DEF Grows
<1>4. u[m + 1] = p /\ (m + 1)..Len(u) = {m + 1}
  <2> HIDE DEF s, u, m
  <2>1. m + 1 \in 1..Len(u) /\ ~(m + 1 <= m)
    BY <1>2
  <2>2. u[m + 1] = p
    BY <1>2, <2>1
  <2>3. (m + 1)..Len(u) = {m + 1}
    BY <1>2
  <2> QED
    BY <2>2, <2>3
<1>5. ASSUME NEW i \in 1..Len(u)
      PROVE  (\E j \in 1..m : u[i] = s[j]) \/ u[i] = p
  <2> HIDE DEF s, u, m
  <2> QED
    BY <1>2
<1>6. ASSUME NEW t \in Transports, NEW i \in 1..Len(toDev'[t])
      PROVE  \/ \E j \in 1..Len(toDev[t]) : toDev'[t][i] = toDev[t][j]
             \/ t = cable.t /\ toDev'[t][i] = p
  <2>1. CASE t = cable.t
    BY <1>5, <2>1
  <2>2. CASE t # cable.t
    BY <1>1, <2>2
  <2> QED
    BY <2>1, <2>2
<1>7. ASSUME NEW t \in Transports, NEW n,
             t # cable.t \/ p.stream # n \/ p.cmd \notin {"WRTE", "OKAY"}
      PROVE  Quiet(toDev[t], toDev'[t], n)
  <2>1. CASE t # cable.t
    BY <1>1, <2>1, QuietSame
  <2>2. CASE t = cable.t
    <3>1. \A i \in (Len(s) + 1)..Len(u) : u[i].stream # n \/ u[i].cmd \notin {"WRTE", "OKAY"}
      BY <1>4, <1>7, <2>2
    <3>2. Quiet(s, u, n)
      <4> HIDE DEF s, u
      <4> QED
        BY <1>3, <3>1, QuietGrow
    <3> QED
      BY <2>2, <3>2
  <2> QED
    BY <2>1, <2>2
<1> QED
  BY <1>1, <1>3, <1>4, <1>6, <1>7
\* What the host knows when it has no stream.
LEMMA NoStream ==
  ASSUME FInv, host.id = 0
  PROVE  host.rid = 0 /\ host.sent = 0 /\ ~host.credit
BY DEF FInv, IInv, LinkInv, KnownInv

LEMMA SentNothing ==
  ASSUME IInv
  PROVE  Streamless(host).sent = 0 /\ Restarted(host).sent = 0
<1>1. host \in Server /\ 0 \in 0..MaxStreams /\ 0 \in 0..Size
  BY ServerFields, Constants
<1> QED
  BY <1>1, StreamlessFields DEF Streamless, Restarted, Server

LEMMA FlowConnect ==
  ASSUME FInv, UnchangedDevice, HostConnect
  PROVE  AddressInv' /\ KnownInv' /\ \A j \in Ids : Flow(j)'
<1> DEFINE p == Packet("CNXN", 0, 0, 0, <<>>)
<1>1. /\ cable.in /\ ~host.asked /\ host' = [host EXCEPT !.asked = TRUE] /\ HostSends(p)
      /\ UNCHANGED <<cable, toHost>>
  BY DEF HostConnect
<1>2. /\ host \in Server /\ host.opened \in Int /\ host.opened \in 0..MaxStreams
      /\ host.lastId <= host.opened /\ IInv
  BY ServerFields DEF FInv, IInv, LinkInv
<1>3. p \in FromHost /\ p.cmd = "CNXN" /\ p.stream = 0
  <2>1. <<>> \in Seq(Units) /\ 0 \in 0..MaxStreams
    BY EmptySeq, Constants
  <2>2. "CNXN" \in {"SYNC", "CNXN", "OPEN", "OKAY", "CLSE", "WRTE"}
    OBVIOUS
  <2>3. p \in FromHost
    BY <2>1, <2>2, Packets
  <2>4. p.cmd = "CNXN" /\ p.stream = 0
    BY Packets
  <2> QED
    BY <2>3, <2>4
<1> HIDE DEF p
<1>4. ~host.up /\ host.id = 0 /\ host.lastId = 0
  BY <1>1 DEF FInv, IInv, LinkInv, KnownInv
<1>5. /\ host' \in Server /\ host'.opened = host.opened /\ host'.lastId = 0 /\ host'.id = 0
      /\ host'.rid = 0 /\ host'.sent = 0 /\ ~host'.credit
  BY <1>1, <1>2, <1>4, NoStream DEF Server
<1>6. /\ \A t \in Transports : \A i \in 1..Len(toDev'[t]) :
           \/ \E j \in 1..Len(toDev[t]) : toDev'[t][i] = toDev[t][j]
           \/ t = cable.t /\ toDev'[t][i] = p
      /\ \A t \in Transports : \A n : Quiet(toDev[t], toDev'[t], n)
  BY <1>1, <1>3, HostSays
<1>7. Addressed(cable.t, p)
  BY <1>2, <1>3, <1>5 DEF Addressed
<1>8. Base' = Base /\ host.opened <= host'.opened /\ host'.lastId <= host'.opened
  BY <1>2, <1>4, <1>5 DEF Base
<1>9. \A t \in Transports : \A i \in 1..Len(toDev'[t]) :
        \/ \E j \in 1..Len(toDev[t]) : toDev'[t][i] = toDev[t][j]
        \/ t = cable'.t /\ Addressed(t, toDev'[t][i])
  BY <1>1, <1>6, <1>7
<1>10. AddressInv'
  <2>1. cable'.in => \A i \in 1..Len(toHost'[cable'.t]) :
          cable.in /\ \E j \in 1..Len(toHost[cable.t]) : toHost'[cable'.t][i] = toHost[cable.t][j]
    BY <1>1
  <2> QED
    BY <1>1, <1>5, <1>8, <1>9, <2>1, HostAddresses
<1>11. \A k \in Ids : sock[k].state = "open" =>
         Spared(toDev[sock[k].t], toDev'[sock[k].t], sock[k].n)
  BY <1>6, Owners, SparedQuiet
<1> QED
  BY <1>5, <1>10, <1>11, HostIdle

LEMMA FlowRestart ==
  ASSUME FInv, UnchangedDevice, HostRestart
  PROVE  AddressInv' /\ KnownInv' /\ \A j \in Ids : Flow(j)'
<1>1. /\ host' = [Restarted(host) EXCEPT !.restarts = Restarted(host).restarts + 1]
      /\ UNCHANGED <<cable, toDev, toHost>> /\ host.up /\ Sessions < MaxSessions /\ IInv
  BY DEF HostRestart, FInv
<1>2. host.restarts + 1 \in 0..MaxSessions
  <2>1. /\ host.restarts \in 0..MaxSessions /\ cable.t \in 1..(MaxSessions + 1)
        /\ MaxSessions \in Nat
    BY <1>1, ServerFields, Constants DEF Transports
  <2> QED
    BY <1>1, <2>1 DEF Sessions
<1>3. /\ host' \in Server /\ host'.opened = host.opened /\ host'.lastId = 0 /\ host'.id = 0
      /\ host'.rid = 0 /\ host'.sent = 0 /\ ~host'.credit
  <2> DEFINE h == Restarted(host)
  <2>1. /\ h \in Server /\ h.restarts = host.restarts /\ h.opened = host.opened
        /\ h.lastId = 0 /\ h.id = 0 /\ h.rid = 0 /\ h.credit = FALSE /\ h.sent = 0
    BY <1>1, RestartedFields, SentNothing
  <2>2. host' = [h EXCEPT !.restarts = host.restarts + 1]
    BY <1>1, <2>1
  <2> HIDE DEF h
  <2> QED
    BY <1>2, <2>1, <2>2 DEF Server
<1>4. /\ host.opened \in Int /\ host.opened >= 0
  BY <1>1, ServerFields, Constants
<1>5. Base' = host'.opened /\ host.opened <= host'.opened /\ host'.lastId <= host'.opened
  BY <1>3, <1>4 DEF Base
<1>6. AddressInv'
  <2>1. \A t \in Transports : \A i \in 1..Len(toDev'[t]) :
          \E j \in 1..Len(toDev[t]) : toDev'[t][i] = toDev[t][j]
    BY <1>1
  <2>2. cable'.in => \A i \in 1..Len(toHost'[cable'.t]) :
          cable.in /\ \E j \in 1..Len(toHost[cable.t]) : toHost'[cable'.t][i] = toHost[cable.t][j]
    BY <1>1
  <2> QED
    BY <1>3, <1>5, <2>1, <2>2, HostAddresses
<1>7. \A k \in Ids : sock[k].state = "open" =>
        Spared(toDev[sock[k].t], toDev'[sock[k].t], sock[k].n)
  BY <1>1, SparedSame
<1> QED
  BY <1>3, <1>6, <1>7, HostIdle

\* The stream that the host opens has no socket and no packets yet.
LEMMA FlowHostOpens ==
  ASSUME FInv, UnchangedDevice, HostOpen
  PROVE  AddressInv' /\ KnownInv' /\ \A j \in Ids : Flow(j)'
<1> DEFINE p == Packet("OPEN", host.lastId + 1, 0, host.opened + 1, <<>>)
<1>1. /\ cable.in /\ host.up /\ host.id = 0 /\ host.opened < MaxStreams
      /\ host' = [host EXCEPT !.opened = host.opened + 1, !.lastId = host.lastId + 1,
                              !.id = host.lastId + 1, !.status = "none"]
      /\ HostSends(p)
      /\ UNCHANGED <<cable, toHost>> /\ UNCHANGED <<nextId, sock>> /\ IInv
  BY DEF HostOpen, FInv, UnchangedDevice
<1>2. /\ host \in Server /\ host.opened \in 0..MaxStreams /\ host.lastId \in 0..MaxStreams
      /\ Base \in Int /\ host.lastId <= host.opened /\ MaxStreams \in Nat
  BY <1>1, ServerFields, Constants DEF IInv, LinkInv
<1>3. host.opened + 1 \in 0..MaxStreams /\ host.lastId + 1 \in 0..MaxStreams
  BY <1>1, <1>2
<1>4. p \in FromHost
  <2>1. <<>> \in Seq(Units) /\ 0 \in 0..MaxStreams
    BY <1>2, EmptySeq
  <2> QED
    BY <1>3, <2>1, Packets
<1>5. p.cmd = "OPEN" /\ p.stream = host.opened + 1
  BY Packets
<1> HIDE DEF p
<1>6. /\ host' \in Server /\ host'.opened = host.opened + 1 /\ host'.lastId = host.lastId + 1
      /\ host'.id = host.lastId + 1 /\ host'.up
      /\ host'.rid = 0 /\ host'.sent = 0 /\ ~host'.credit
  BY <1>1, <1>2, <1>3, NoStream DEF Server
<1>7. /\ Base' = Base /\ host.opened <= host'.opened /\ host'.lastId <= host'.opened
      /\ p.stream <= host'.opened
  BY <1>2, <1>5, <1>6 DEF Base
<1>8. /\ \A t \in Transports : \A i \in 1..Len(toDev'[t]) :
           \/ \E j \in 1..Len(toDev[t]) : toDev'[t][i] = toDev[t][j]
           \/ t = cable.t /\ toDev'[t][i] = p
      /\ \A t \in Transports : \A n : Quiet(toDev[t], toDev'[t], n)
  BY <1>1, <1>4, <1>5, HostSays
<1>9. AddressInv'
  <2>1. Addressed(cable.t, p)
    BY <1>5, <1>7 DEF Addressed
  <2>2. \A t \in Transports : \A i \in 1..Len(toDev'[t]) :
          \/ \E j \in 1..Len(toDev[t]) : toDev'[t][i] = toDev[t][j]
          \/ t = cable'.t /\ Addressed(t, toDev'[t][i])
    BY <1>1, <1>8, <2>1
  <2>3. cable'.in => \A i \in 1..Len(toHost'[cable'.t]) :
          cable.in /\ \E j \in 1..Len(toHost[cable.t]) : toHost'[cable'.t][i] = toHost[cable.t][j]
    BY <1>1
  <2> QED
    BY <1>1, <1>6, <1>7, <2>2, <2>3, HostAddresses
<1>10. \A k \in Ids : k < nextId => sock[k].n # host'.opened
  <2>1. \A k \in Ids : k < nextId => sock[k].n \in 1..host.opened
    BY <1>1 DEF IInv, SocketsInv
  <2>2. \A n \in 1..host.opened : n # host.opened + 1
    BY <1>2
  <2> QED
    BY <1>6, <2>1, <2>2
<1>11. KnownInv'
  <2>1. ASSUME NEW i \in 1..Len(toHost[cable.t]), Is(toHost[cable.t][i], "WRTE", host'.opened)
        PROVE  FALSE
    <3>1. Truthful(toHost[cable.t][i])
      BY <1>1, <2>1 DEF IInv, HostInv, Is
    <3> QED
      BY <1>10, <2>1, <3>1 DEF Truthful, Is
  <2> QED
    BY <1>1, <1>6, <2>1 DEF KnownInv
<1>12. ASSUME NEW k \in Ids PROVE Flow(k)'
  <2>1. ~Live(k)'
    <3>1. sock[k].state = "open" => sock[k].n # host'.opened
      BY <1>10, Owners
    <3> QED
      BY <1>1, <3>1 DEF Live
  <2>2. sock[k].state = "open" => Spared(toDev[sock[k].t], toDev'[sock[k].t], sock[k].n)
    BY <1>8, Owners, SparedQuiet
  <2> QED
    BY <2>1, <2>2, HostAside
<1> QED
  BY <1>9, <1>11, <1>12

LEMMA FlowUnplug ==
  ASSUME FInv, UnchangedDevice, Unplug
  PROVE  AddressInv' /\ KnownInv' /\ \A j \in Ids : Flow(j)'
<1> DEFINE p == Packet("SYNC", 0, 0, 0, <<>>)
<1>1. PICK m \in 0..Len(toDev[cable.t]) :
        toDev' = [toDev EXCEPT ![cable.t] = Append(SubSeq(toDev[cable.t], 1, m), p)]
  BY DEF Unplug
<1>2. /\ cable' = [cable EXCEPT !.in = FALSE] /\ host' = Restarted(host) /\ IInv
  BY DEF Unplug, FInv
<1>3. /\ cable \in [t : Transports, in : BOOLEAN] /\ cable.t \in Transports
      /\ toDev \in [Transports -> Seq(FromHost)] /\ host.opened \in Int /\ host.opened >= 0
  <2>1. /\ cable.t \in Transports /\ cable.in \in BOOLEAN
        /\ cable = [t |-> cable.t, in |-> cable.in]
        /\ toDev \in [Transports -> Seq(FromHost)] /\ host.opened \in 0..MaxStreams
    BY <1>2, ServerFields
  <2>2. cable \in [t : Transports, in : BOOLEAN]
    BY <2>1
  <2>3. host.opened \in Int /\ host.opened >= 0
    BY <2>1, Constants
  <2> QED
    BY <2>1, <2>2, <2>3
<1>4. /\ host' \in Server /\ host'.opened = host.opened /\ host'.lastId = 0 /\ host'.id = 0
      /\ host'.rid = 0 /\ host'.sent = 0 /\ ~host'.credit
  BY <1>2, RestartedFields, SentNothing
<1>5. Base' = host'.opened /\ host.opened <= host'.opened /\ host'.lastId <= host'.opened
  BY <1>3, <1>4 DEF Base
<1>6. cable'.t = cable.t /\ ~cable'.in
  BY <1>2, <1>3
<1>7. p \in FromHost /\ p.cmd = "SYNC" /\ p.stream = 0
  <2>1. <<>> \in Seq(Units) /\ 0 \in 0..MaxStreams
    BY EmptySeq, Constants
  <2>2. "SYNC" \in {"SYNC", "CNXN", "OPEN", "OKAY", "CLSE", "WRTE"}
    OBVIOUS
  <2>3. p \in FromHost
    BY <2>1, <2>2, Packets
  <2>4. p.cmd = "SYNC" /\ p.stream = 0
    BY Packets
  <2> QED
    BY <2>3, <2>4
<1> HIDE DEF p
<1> DEFINE old == toDev[cable.t]
           kept == SubSeq(old, 1, m)
           new == Append(kept, p)
<1>8. old \in Seq(FromHost) /\ Len(old) \in Nat /\ m \in 0..Len(old)
  BY <1>3, LenProperties
<1>9. kept \in Seq(FromHost) /\ Len(kept) = m /\ \A i \in 1..m : kept[i] = old[i]
  BY <1>8, Parts
<1>10. toDev'[cable.t] = new /\ \A t \in Transports : t # cable.t => toDev'[t] = toDev[t]
  BY <1>1, <1>3
<1> HIDE DEF kept
<1>11. /\ Len(new) = m + 1
       /\ \A i \in 1..Len(new) : new[i] = IF i <= m THEN kept[i] ELSE p
  BY <1>7, <1>9, Added
<1> HIDE DEF new, old
<1>12. ASSUME NEW i \in 1..Len(new)
       PROVE  (i \in 1..Len(old) /\ new[i] = old[i]) \/ new[i] = p
  <2>1. CASE i <= m
    <3>1. i \in 1..m /\ i \in 1..Len(old)
      BY <1>8, <1>11, <2>1
    <3> QED
      BY <1>9, <1>11, <2>1, <3>1
  <2>2. CASE ~(i <= m)
    BY <1>11, <2>2
  <2> QED
    BY <2>1, <2>2
<1>13. AddressInv'
  <2>1. Addressed(cable.t, p)
    BY <1>3, <1>4, <1>7 DEF Addressed
  <2>2. ASSUME NEW t \in Transports, NEW i \in 1..Len(toDev'[t])
        PROVE  \/ \E j \in 1..Len(toDev[t]) : toDev'[t][i] = toDev[t][j]
               \/ t = cable'.t /\ Addressed(t, toDev'[t][i])
    <3>1. CASE t = cable.t
      BY <1>6, <1>10, <1>12, <2>1, <3>1 DEF old
    <3>2. CASE t # cable.t
      BY <1>10, <3>2
    <3> QED
      BY <3>1, <3>2
  <2> QED
    BY <1>4, <1>5, <1>6, <2>2, HostAddresses
<1>14. ASSUME NEW n PROVE Spared(old, new, n)
  <2>1. ASSUME NEW i \in 1..Len(new), Is(new[i], "WRTE", n)
        PROVE  i \in 1..Len(old) /\ new[i] = old[i]
    BY <1>7, <1>12, <2>1 DEF Is
  <2>2. AtMostOne(old, "WRTE", n) => AtMostOne(new, "WRTE", n)
    BY <2>1 DEF AtMostOne
  <2>3. None(old, "WRTE", n) => None(new, "WRTE", n)
    BY <2>1 DEF None
  <2>4. NoNew(old, new, "WRTE", n)
    BY <2>1 DEF NoNew
  <2> QED
    BY <2>2, <2>3, <2>4 DEF Spared
<1>15. \A k \in Ids : sock[k].state = "open" =>
         Spared(toDev[sock[k].t], toDev'[sock[k].t], sock[k].n)
  BY <1>10, <1>14, Owners, SparedSame DEF old
<1> QED
  BY <1>4, <1>13, <1>15, HostIdle

LEMMA FlowPlug ==
  ASSUME FInv, UnchangedDevice, Plug
  PROVE  AddressInv' /\ KnownInv' /\ \A j \in Ids : Flow(j)'
<1>1. /\ ~cable.in /\ Sessions < MaxSessions /\ cable' = [t |-> cable.t + 1, in |-> TRUE]
      /\ UNCHANGED <<toDev, toHost, host>> /\ IInv
  BY DEF Plug, FInv
<1>2. /\ cable'.t = cable.t + 1 /\ cable.t + 1 \in Transports /\ cable.t + 1 > cable.t
  <2>1. /\ host.restarts \in 0..MaxSessions /\ cable.t \in 1..(MaxSessions + 1)
        /\ MaxSessions \in Nat
    BY <1>1, ServerFields, Constants DEF Transports
  <2> QED
    BY <1>1, <2>1 DEF Sessions, Transports
<1>3. ~host.up /\ host.id = 0 /\ host.lastId = 0
  BY <1>1 DEF FInv, IInv, LinkInv, KnownInv
<1>4. /\ host \in Server /\ host.opened \in Int /\ host.lastId <= host.opened
      /\ host.opened <= host.opened
  BY <1>1, ServerFields DEF IInv, LinkInv
<1>5. Base' = host'.opened
  BY <1>1, <1>3, <1>4 DEF Base
<1>6. \A i \in 1..Len(toHost'[cable'.t]) : FALSE
  <2>1. toHost[cable'.t] = <<>>
    BY <1>1, <1>2 DEF IInv, LinkInv
  <2>2. \A i \in 1..Len(<<>>) : FALSE
    BY EmptySeq
  <2> QED
    BY <1>1, <2>1, <2>2
<1>7. AddressInv'
  <2>1. \A t \in Transports : \A i \in 1..Len(toDev'[t]) :
          \E j \in 1..Len(toDev[t]) : toDev'[t][i] = toDev[t][j]
    BY <1>1
  <2>2. host' \in Server /\ host.opened <= host'.opened /\ host'.lastId <= host'.opened
    BY <1>1, <1>4
  <2> QED
    BY <1>5, <1>6, <2>1, <2>2, HostAddresses
<1>8. \A k \in Ids : sock[k].state = "open" =>
        Spared(toDev[sock[k].t], toDev'[sock[k].t], sock[k].n)
  BY <1>1, SparedSame
<1>9. host'.id = 0 /\ host'.rid = 0 /\ host'.sent = 0 /\ ~host'.credit /\ host'.lastId = 0
  BY <1>1, <1>3, NoStream
<1> QED
  BY <1>7, <1>8, <1>9, HostIdle
\* What the host says on its stream goes to the socket that it knows.
LEMMA ToItsSocket ==
  ASSUME FInv, cable.in, host.id # 0, host.rid # 0, host'.opened = host.opened,
         NEW c \in {"OKAY", "CLSE", "WRTE"}, NEW d \in Seq(Units)
  PROVE  /\ Packet(c, host.id, host.rid, host.opened, d) \in FromHost
         /\ Packet(c, host.id, host.rid, host.opened, d).cmd = c
         /\ Packet(c, host.id, host.rid, host.opened, d).stream = host.opened
         /\ Packet(c, host.id, host.rid, host.opened, d).data = d
         /\ Addressed(cable.t, Packet(c, host.id, host.rid, host.opened, d))
<1> DEFINE p == Packet(c, host.id, host.rid, host.opened, d)
<1>1. /\ p \in FromHost /\ p.cmd = c /\ p.stream = host.opened /\ p.data = d /\ p.arg1 = host.rid
  BY OwnPackets, Packets DEF FInv
<1>2. /\ host.opened \in Int /\ host.lastId \in 0..MaxStreams /\ host.rid \in 0..MaxStreams
      /\ host.id = host.lastId
  BY ServerFields DEF FInv, IInv, LinkInv
<1>3. host.rid \in Ids /\ host.rid < nextId /\ sock[host.rid].n = host.opened
  BY <1>2, Constants DEF FInv, KnownInv, Ids
<1>4. ~(host.opened <= Base)
  BY <1>2, Constants DEF Base
<1>5. sock[host.rid].state = "open" => sock[host.rid].t = cable.t
  BY <1>3, <1>4 DEF FInv, AddressInv
<1>6. host.opened <= host'.opened
  BY <1>2
<1> HIDE DEF p
<1>7. Addressed(cable.t, p)
  BY <1>1, <1>3, <1>5, <1>6 DEF Addressed
<1> QED
  BY <1>1, <1>7 DEF p

LEMMA FlowHostCloses ==
  ASSUME FInv, UnchangedDevice, HostClose
  PROVE  AddressInv' /\ KnownInv' /\ \A j \in Ids : Flow(j)'
<1> DEFINE p == Packet("CLSE", host.id, host.rid, host.opened, <<>>)
<1>1. /\ cable.in /\ host.rid # 0 /\ host' = Streamless(host) /\ HostSends(p)
      /\ UNCHANGED <<cable, toHost>> /\ IInv
  BY DEF HostClose, FInv
<1>2. /\ host' \in Server /\ host'.up = host.up /\ host'.opened = host.opened
      /\ host'.lastId = host.lastId /\ host'.id = 0
      /\ host'.rid = 0 /\ host'.sent = 0 /\ ~host'.credit
  BY <1>1, StreamlessFields, SentNothing
<1>3. host.id # 0 /\ host.up /\ host.opened \in Int /\ host.lastId <= host.opened
  BY <1>1, ServerFields DEF IInv, LinkInv
<1>4. <<>> \in Seq(Units) /\ "CLSE" \in {"OKAY", "CLSE", "WRTE"}
  BY EmptySeq
<1>5. p \in FromHost /\ p.cmd = "CLSE" /\ Addressed(cable.t, p)
  BY <1>1, <1>2, <1>3, <1>4, ToItsSocket
<1> HIDE DEF p
<1>6. /\ \A t \in Transports : \A i \in 1..Len(toDev'[t]) :
           \/ \E j \in 1..Len(toDev[t]) : toDev'[t][i] = toDev[t][j]
           \/ t = cable.t /\ toDev'[t][i] = p
      /\ \A t \in Transports : \A n : Quiet(toDev[t], toDev'[t], n)
  BY <1>1, <1>5, HostSays
<1>7. AddressInv'
  <2>1. \A t \in Transports : \A i \in 1..Len(toDev'[t]) :
          \/ \E j \in 1..Len(toDev[t]) : toDev'[t][i] = toDev[t][j]
          \/ t = cable'.t /\ Addressed(t, toDev'[t][i])
    BY <1>1, <1>5, <1>6
  <2>2. cable'.in => \A i \in 1..Len(toHost'[cable'.t]) :
          cable.in /\ \E j \in 1..Len(toHost[cable.t]) : toHost'[cable'.t][i] = toHost[cable.t][j]
    BY <1>1
  <2>3. Base' = Base /\ host.opened <= host'.opened /\ host'.lastId <= host'.opened
    BY <1>2, <1>3 DEF Base
  <2> QED
    BY <1>1, <1>2, <2>1, <2>2, <2>3, HostAddresses
<1>8. \A k \in Ids : sock[k].state = "open" =>
        Spared(toDev[sock[k].t], toDev'[sock[k].t], sock[k].n)
  BY <1>6, Owners, SparedQuiet
<1> QED
  BY <1>2, <1>3, <1>7, <1>8, HostIdle

\* A socket that the host has no stream with has another's, if it is of this
\* transport.
LEMMA NotLive ==
  ASSUME FInv, cable.in, host.id # 0, NEW k \in Ids, ~Live(k), sock[k].state = "open"
  PROVE  sock[k].t # cable.t \/ sock[k].n # host.opened
BY DEF Live

LEMMA FlowHostSends ==
  ASSUME FInv, UnchangedDevice, HostSend
  PROVE  AddressInv' /\ KnownInv' /\ \A j \in Ids : Flow(j)'
<1> DEFINE upto == IF host.sent + Payload <= Size THEN host.sent + Payload ELSE Size
           data == [i \in 1..(upto - host.sent) |-> host.sent + i]
           p == Packet("WRTE", host.id, host.rid, host.opened, data)
<1>1. /\ cable.in /\ host.credit /\ host.sent < Size
      /\ host' = [host EXCEPT !.sent = upto, !.credit = FALSE] /\ HostSends(p)
      /\ UNCHANGED <<cable, toHost>> /\ UNCHANGED <<nextId, sock, svc>> /\ IInv
  BY DEF HostSend, FInv, UnchangedDevice
<1>2. /\ host \in Server /\ host.sent \in 0..Size /\ Size \in Nat /\ Payload \in Nat /\ Payload > 0
      /\ host.opened \in Int /\ host.lastId <= host.opened
  BY <1>1, ServerFields, Constants DEF IInv, LinkInv
<1>3. upto \in 0..Size /\ upto > host.sent
  BY <1>1, <1>2
<1> HIDE DEF upto
<1>4. data \in Seq(Units) /\ Len(data) = upto - host.sent /\ Follows(data, host.sent)
  <2>1. upto - host.sent \in Nat
    BY <1>2, <1>3
  <2>2. \A i \in 1..(upto - host.sent) : host.sent + i \in Units
    BY <1>2, <1>3 DEF Units
  <2>3. data \in [1..(upto - host.sent) -> Units] /\ \A i \in 1..(upto - host.sent) : data[i] = host.sent + i
    BY <2>2
  <2> HIDE DEF data
  <2>4. data \in Seq(Units) /\ Len(data) = upto - host.sent
    BY <2>1, <2>3, SeqDef, LenProperties
  <2> QED
    BY <2>3, <2>4 DEF Follows
<1>5. /\ host' \in Server /\ host'.up = host.up /\ host'.asked = host.asked
      /\ host'.opened = host.opened /\ host'.lastId = host.lastId /\ host'.rid = host.rid
      /\ host'.id = host.id /\ host'.sent = upto /\ ~host'.credit
  BY <1>1, <1>2, <1>3 DEF Server
<1>6. host.id # 0 /\ host.rid # 0 /\ host.up
  BY <1>1 DEF IInv, LinkInv, FInv, KnownInv
<1> HIDE DEF data
<1>7. /\ p \in FromHost /\ p.cmd = "WRTE" /\ p.stream = host.opened /\ p.data = data
      /\ Addressed(cable.t, p)
  <2>1. "WRTE" \in {"OKAY", "CLSE", "WRTE"}
    OBVIOUS
  <2> QED
    BY <1>1, <1>4, <1>5, <1>6, <2>1, ToItsSocket
<1> HIDE DEF p
<1> DEFINE s == toDev[cable.t]
           u == toDev'[cable.t]
<1>8. /\ cable.t \in Transports /\ Grows(s, u) /\ Len(s) \in Nat /\ Len(u) = Len(s) + 1
      /\ u[Len(s) + 1] = p /\ (Len(s) + 1)..Len(u) = {Len(s) + 1}
      /\ \A t \in Transports : \A i \in 1..Len(toDev'[t]) :
           \/ \E j \in 1..Len(toDev[t]) : toDev'[t][i] = toDev[t][j]
           \/ t = cable.t /\ toDev'[t][i] = p
      /\ \A t \in Transports : \A n :
           t # cable.t \/ p.stream # n \/ p.cmd \notin {"WRTE", "OKAY"} =>
             Quiet(toDev[t], toDev'[t], n)
  BY <1>1, <1>7, HostSays
<1>9. AddressInv'
  <2>1. \A t \in Transports : \A i \in 1..Len(toDev'[t]) :
          \/ \E j \in 1..Len(toDev[t]) : toDev'[t][i] = toDev[t][j]
          \/ t = cable'.t /\ Addressed(t, toDev'[t][i])
    BY <1>1, <1>7, <1>8
  <2>2. cable'.in => \A i \in 1..Len(toHost'[cable'.t]) :
          cable.in /\ \E j \in 1..Len(toHost[cable.t]) : toHost'[cable'.t][i] = toHost[cable.t][j]
    BY <1>1
  <2>3. Base' = Base /\ host.opened <= host'.opened /\ host'.lastId <= host'.opened
    BY <1>2, <1>5 DEF Base
  <2> QED
    BY <1>1, <1>5, <2>1, <2>2, <2>3, HostAddresses
<1>10. KnownInv'
  BY <1>1, <1>5, <1>6 DEF KnownInv, FInv
<1>11. ASSUME NEW k \in Ids, ~Live(k) PROVE Flow(k)'
  <2>1. ~Live(k)'
    BY <1>1, <1>5, <1>11 DEF Live
  <2>2. ASSUME sock[k].state = "open"
        PROVE  Spared(toDev[sock[k].t], toDev'[sock[k].t], sock[k].n)
    <3>1. sock[k].t \in Transports /\ (sock[k].t # cable.t \/ p.stream # sock[k].n)
      BY <1>1, <1>6, <1>7, <1>11, <2>2, Owners, NotLive
    <3>2. Quiet(toDev[sock[k].t], toDev'[sock[k].t], sock[k].n)
      BY <1>8, <3>1
    <3> QED
      BY <3>2, SparedQuiet
  <2> QED
    BY <2>1, <2>2, HostAside
<1>12. ASSUME NEW k \in Ids, Live(k) PROVE Flow(k)'
  <2> DEFINE n == sock[k].n
  <2>1. sock[k].state = "open" /\ sock[k].t = cable.t /\ n = host.opened /\ Flow(k)
    BY <1>12 DEF Live, FInv
  <2>2. /\ sock[k].backlog = <<>> /\ None(s, "WRTE", n) /\ None(toHost[cable.t], "OKAY", n)
        /\ sock[k].pend \subseteq sock[k].want /\ OutPermit(k)
    BY <1>1, <1>12, <2>1 DEF Flow, PermitFlow, InPermit
  <2> HIDE DEF s, u, n
  <2>3. One(u, "WRTE", n)
    <3>1. Len(s) + 1 \in (Len(s) + 1)..Len(u) /\ Is(u[Len(s) + 1], "WRTE", n)
      BY <1>7, <1>8, <2>1 DEF Is
    <3>2. \A i \in (Len(s) + 1)..Len(u) : i # Len(s) + 1 => ~Is(u[i], "WRTE", n)
      BY <1>8
    <3> QED
      BY <1>8, <2>2, <3>1, <3>2, GrowAdds
  <2>4. (None(u, "OKAY", n) <=> None(s, "OKAY", n)) /\ (One(s, "OKAY", n) => One(u, "OKAY", n))
    <3>1. \A i \in (Len(s) + 1)..Len(u) : ~Is(u[i], "OKAY", n)
      BY <1>7, <1>8 DEF Is
    <3> QED
      BY <1>8, <3>1, GrowKeeps
  <2>5. ASSUME NEW i \in 1..Len(u), Is(u[i], "WRTE", n) PROVE u[i] = p
    <3>1. i \in 1..Len(s) => u[i] = s[i]
      BY <1>8 DEF Grows
    <3>2. i \notin 1..Len(s)
      BY <2>2, <2>5, <3>1 DEF None
    <3>3. i = Len(s) + 1
      BY <1>8, <3>2
    <3> QED
      BY <1>8, <3>3
  <2>6. ~None(u, "WRTE", n)
    BY <2>3 DEF One, None
  <2>7. InPermit(k)'
    BY <1>1, <1>5, <2>1, <2>2, <2>3 DEF InPermit, u, n
  <2>8. OutPermit(k)'
    BY <1>1, <2>1, <2>2, <2>4 DEF OutPermit, s, u, n
  <2>9. PermitFlow(k)'
    <3>1. AtMostOne(u, "WRTE", n)
      BY <2>3 DEF One
    <3> QED
      BY <1>1, <1>5, <1>6, <2>1, <2>2, <2>7, <2>8, <3>1 DEF PermitFlow, u, n
  <2>10. ContentFlow(k)'
    <3> SUFFICES ASSUME ~Hung(k) PROVE ContentFlow(k)'
      BY <1>1 DEF ContentFlow, Hung
    <3>1. /\ Follows(svc[k].in, svc[k].off)
          /\ Follows(sock[k].backlog, svc[k].off + Len(svc[k].in))
          /\ host.sent = Done(k)
      BY <1>12, <2>1, <2>2 DEF Flow, ContentFlow, s, n
    <3>2. Done(k)' = Done(k)
      BY <1>1 DEF Done
    <3>3. host'.sent = Done(k) + Len(data)
      <4>1. host.sent \in Int /\ upto \in Int
        BY <1>2, <1>3
      <4>2. host'.sent = host.sent + Len(data)
        BY <1>4, <1>5, <4>1
      <4> QED
        BY <3>1, <4>2
    <3>4. ASSUME NEW i \in 1..Len(u), Is(u[i], "WRTE", n)
          PROVE  Follows(u[i].data, Done(k)') /\ host'.sent = Done(k)' + Len(u[i].data)
      BY <1>4, <1>7, <2>5, <3>1, <3>2, <3>3, <3>4
    <3> QED
      BY <1>1, <2>1, <2>6, <3>1, <3>4 DEF ContentFlow, u, n
  <2> QED
    BY <2>9, <2>10 DEF Flow
<1> QED
  BY <1>9, <1>10, <1>11, <1>12
\* A packet that the host has read is no longer on its way.
LEMMA Reads ==
  ASSUME FInv, toHost[cable.t] # <<>>, toHost' = [toHost EXCEPT ![cable.t] = Tail(@)]
  PROVE  /\ cable.t \in Transports /\ Drops(toHost[cable.t], toHost'[cable.t], 1)
         /\ Head(toHost[cable.t]) = toHost[cable.t][1] /\ 1 \in 1..Len(toHost[cable.t])
         /\ Len(toHost[cable.t]) # 0 /\ Len(toHost[cable.t]) \in Nat
         /\ \A i \in 1..Len(toHost'[cable.t]) :
              \E j \in 1..Len(toHost[cable.t]) : toHost'[cable.t][i] = toHost[cable.t][j]
<1>1. /\ Hears(1) /\ Head(toHost[cable.t]) = toHost[cable.t][1] /\ 1 \in 1..Len(toHost[cable.t])
      /\ cable.t \in Transports
  BY OneHeard, ServerFields DEF FInv
<1> DEFINE s == toHost[cable.t]
           u == toHost'[cable.t]
<1>2. /\ Len(u) = Len(s) - 1 /\ Len(s) \in Nat
      /\ \A i \in 1..Len(u) : i + 1 \in 1..Len(s) /\ u[i] = s[i + 1]
  BY <1>1 DEF Hears
<1>3. Drops(s, u, 1)
  BY <1>2 DEF Drops
<1>4. \A i \in 1..Len(u) : \E j \in 1..Len(s) : u[i] = s[j]
  BY <1>2
<1>5. Len(s) # 0
  <2> HIDE DEF s
  <2> QED
    BY <1>1, <1>2 DEF s
<1> QED
  BY <1>1, <1>2, <1>3, <1>4, <1>5

\* The host and the device have said nothing new, and the host has not moved.
LEMMA HostHears ==
  ASSUME FInv, UnchangedDevice, UNCHANGED cable, host' \in Server, host'.opened = host.opened,
         host'.lastId = host.lastId,
         \A t \in Transports : \A i \in 1..Len(toDev'[t]) :
           \/ \E j \in 1..Len(toDev[t]) : toDev'[t][i] = toDev[t][j]
           \/ t = cable.t /\ Addressed(t, toDev'[t][i]),
         \A i \in 1..Len(toHost'[cable.t]) :
           \E j \in 1..Len(toHost[cable.t]) : toHost'[cable.t][i] = toHost[cable.t][j]
  PROVE  AddressInv'
<1>1. host.opened \in Int /\ host.lastId <= host.opened
  BY ServerFields DEF FInv, IInv, LinkInv
<1>2. Base' = Base /\ host.opened <= host'.opened /\ host'.lastId <= host'.opened
  BY <1>1 DEF Base
<1>3. \A t \in Transports : \A i \in 1..Len(toDev'[t]) :
        \/ \E j \in 1..Len(toDev[t]) : toDev'[t][i] = toDev[t][j]
        \/ t = cable'.t /\ Addressed(t, toDev'[t][i])
  OBVIOUS
<1>4. cable'.in => \A i \in 1..Len(toHost'[cable'.t]) :
        cable.in /\ \E j \in 1..Len(toHost[cable.t]) : toHost'[cable'.t][i] = toHost[cable.t][j]
  OBVIOUS
<1> QED
  BY <1>2, <1>3, <1>4, HostAddresses

\* The CNXN of the device, or a CLSE: there is no stream.
LEMMA FlowHostGreeted ==
  ASSUME FInv, UnchangedDevice, UNCHANGED <<cable, toDev>>, cable.in, toHost[cable.t] # <<>>,
         toHost' = [toHost EXCEPT ![cable.t] = Tail(@)],
         \/ Head(toHost[cable.t]).cmd = "CNXN" /\ host' = [host EXCEPT !.up = host.asked]
         \/ host.up /\ host' = Streamless(host)
  PROVE  AddressInv' /\ KnownInv' /\ \A j \in Ids : Flow(j)'
<1>1. /\ Head(toHost[cable.t]) = toHost[cable.t][1] /\ 1 \in 1..Len(toHost[cable.t])
      /\ \A i \in 1..Len(toHost'[cable.t]) :
           \E j \in 1..Len(toHost[cable.t]) : toHost'[cable.t][i] = toHost[cable.t][j]
  BY Reads
<1>2. host \in Server /\ IInv
  BY ServerFields DEF FInv
<1>3. /\ host' \in Server /\ host'.opened = host.opened /\ host'.lastId = host.lastId
      /\ host'.id = 0 /\ host'.rid = 0 /\ host'.sent = 0 /\ ~host'.credit
      /\ ~host'.up => host'.lastId = 0
  <2>1. CASE Head(toHost[cable.t]).cmd = "CNXN" /\ host' = [host EXCEPT !.up = host.asked]
    <3>1. host.asked /\ ~host.up
      BY <1>1, <1>2, <2>1 DEF IInv, HostInv
    <3>2. host.id = 0
      BY <1>2, <3>1 DEF IInv, LinkInv
    <3>3. host.lastId = 0
      BY <3>1 DEF FInv, KnownInv
    <3> QED
      BY <1>2, <2>1, <3>1, <3>2, <3>3, NoStream DEF Server
  <2>2. CASE host.up /\ host' = Streamless(host)
    BY <1>2, <2>2, StreamlessFields, SentNothing
  <2> QED
    BY <2>1, <2>2
<1>4. AddressInv'
  <2>1. \A t \in Transports : \A i \in 1..Len(toDev'[t]) :
          \E j \in 1..Len(toDev[t]) : toDev'[t][i] = toDev[t][j]
    OBVIOUS
  <2> QED
    BY <1>1, <1>3, <2>1, HostHears
<1>5. \A k \in Ids : sock[k].state = "open" =>
        Spared(toDev[sock[k].t], toDev'[sock[k].t], sock[k].n)
  BY SparedSame
<1> QED
  BY <1>3, <1>4, <1>5, HostIdle

\* The permission to send has come.
LEMMA FlowHostTold ==
  ASSUME FInv, UnchangedDevice, UNCHANGED <<cable, toDev>>, cable.in, toHost[cable.t] # <<>>,
         toHost' = [toHost EXCEPT ![cable.t] = Tail(@)], host.up, host.id # 0,
         Head(toHost[cable.t]).cmd = "OKAY", Head(toHost[cable.t]).arg1 = host.id,
         host' = [host EXCEPT !.rid = Head(toHost[cable.t]).arg0, !.credit = TRUE]
  PROVE  AddressInv' /\ KnownInv' /\ \A j \in Ids : Flow(j)'
<1> DEFINE h == toHost[cable.t]
           g == toHost'[cable.t]
           p == h[1]
<1>1. /\ Head(h) = p /\ 1 \in 1..Len(h) /\ Drops(h, g, 1) /\ Len(h) # 0 /\ Len(h) \in Nat
      /\ \A i \in 1..Len(g) : \E j \in 1..Len(h) : g[i] = h[j]
  BY Reads
<1>2. host \in Server /\ IInv /\ UNCHANGED <<nextId, sock, svc>>
  BY ServerFields DEF FInv, UnchangedDevice
<1>3. p.stream = host.opened
  BY <1>1, <1>2, Mine
<1>4. p.arg0 \in Ids /\ p.arg0 < nextId /\ sock[p.arg0].n = host.opened
  BY <1>1, <1>3 DEF FInv, AddressInv
<1>5. p.arg0 # 0 /\ p.arg0 \in 0..MaxStreams
  BY <1>4, Constants DEF Ids
<1>6. /\ host' \in Server /\ host'.up = host.up /\ host'.opened = host.opened
      /\ host'.lastId = host.lastId /\ host'.id = host.id /\ host'.sent = host.sent
      /\ host'.rid = p.arg0 /\ host'.credit
  <2>1. host' = [host EXCEPT !.rid = p.arg0, !.credit = TRUE]
    BY <1>1
  <2> HIDE DEF p
  <2> QED
    BY <1>2, <1>5, <2>1 DEF Server
<1>7. AddressInv'
  <2>1. \A t \in Transports : \A i \in 1..Len(toDev'[t]) :
          \E j \in 1..Len(toDev[t]) : toDev'[t][i] = toDev[t][j]
    OBVIOUS
  <2> QED
    BY <1>1, <1>6, <2>1, HostHears
<1>8. KnownInv'
  BY <1>2, <1>4, <1>5, <1>6 DEF KnownInv
<1>9. ASSUME NEW k \in Ids, ~Live(k) PROVE Flow(k)'
  <2>1. ~Live(k)'
    BY <1>2, <1>6, <1>9 DEF Live
  <2>2. sock[k].state = "open" => Spared(toDev[sock[k].t], toDev'[sock[k].t], sock[k].n)
    BY SparedSame
  <2> QED
    BY <2>1, <2>2, HostAside
<1>10. ASSUME NEW k \in Ids, Live(k) PROVE Flow(k)'
  <2> DEFINE s == toDev[cable.t]
             n == sock[k].n
  <2>1. sock[k].state = "open" /\ sock[k].t = cable.t /\ n = host.opened /\ Flow(k)
    BY <1>10 DEF Live, FInv
  <2>2. Is(p, "OKAY", n) /\ ~Is(p, "WRTE", n)
    BY <1>1, <1>3, <2>1 DEF Is
  <2> HIDE DEF h, g, p, n
  <2>3. ~None(h, "OKAY", n)
    BY <1>1, <2>2 DEF None, p
  <2>4. InPermit(k) /\ OutPermit(k)
    BY <1>10, <2>1 DEF Flow, PermitFlow
  <2>5. /\ ~host.credit /\ sock[k].backlog = <<>> /\ None(s, "WRTE", n) /\ One(h, "OKAY", n)
    BY <2>1, <2>3, <2>4 DEF InPermit, h, n
  <2>6. None(g, "OKAY", n)
    <3>1. Is(h[1], "OKAY", n) /\ AtMostOne(h, "OKAY", n)
      BY <2>2, <2>5 DEF p, One
    <3> QED
      BY <1>1, <3>1, DropTakes
  <2>7. (None(g, "WRTE", n) <=> None(h, "WRTE", n)) /\ (One(h, "WRTE", n) => One(g, "WRTE", n))
    <3>1. ~Is(h[1], "WRTE", n)
      BY <2>2 DEF p
    <3> QED
      BY <1>1, <3>1, DropKeeps
  <2>8. InPermit(k)'
    BY <1>2, <1>6, <2>1, <2>5, <2>6 DEF InPermit, g, n
  <2>9. OutPermit(k)'
    BY <1>2, <2>1, <2>4, <2>7 DEF OutPermit, h, g, n
  <2>10. PermitFlow(k)'
    BY <1>2, <1>5, <1>6, <2>1, <2>8, <2>9 DEF PermitFlow, Flow
  <2>11. ContentFlow(k)'
    <3>1. ContentFlow(k)
      BY <2>1 DEF Flow
    <3>2. Live(k)' => Live(k)
      BY <1>10
    <3> QED
      BY <1>2, <1>6, <3>1, <3>2 DEF ContentFlow, Hung, Done
  <2> QED
    BY <2>10, <2>11 DEF Flow
<1> QED
  BY <1>7, <1>8, <1>9, <1>10

\* The status has come, and the host says OKAY to it.
LEMMA FlowHostAnswers ==
  ASSUME FInv, UnchangedDevice, UNCHANGED cable, cable.in, toHost[cable.t] # <<>>,
         toHost' = [toHost EXCEPT ![cable.t] = Tail(@)], host.up, host.id # 0,
         Head(toHost[cable.t]).cmd = "WRTE", Head(toHost[cable.t]).arg1 = host.id,
         host' = [host EXCEPT !.status = Head(Head(toHost[cable.t]).data)],
         HostSends(Packet("OKAY", host.id, host.rid, host.opened, <<>>))
  PROVE  AddressInv' /\ KnownInv' /\ \A j \in Ids : Flow(j)'
<1> DEFINE h == toHost[cable.t]
           g == toHost'[cable.t]
           p == h[1]
           q == Packet("OKAY", host.id, host.rid, host.opened, <<>>)
<1>1. /\ Head(h) = p /\ 1 \in 1..Len(h) /\ Drops(h, g, 1) /\ Len(h) # 0 /\ Len(h) \in Nat
      /\ \A i \in 1..Len(g) : \E j \in 1..Len(h) : g[i] = h[j]
  BY Reads
<1>2. host \in Server /\ IInv /\ UNCHANGED <<nextId, sock, svc>>
  BY ServerFields DEF FInv, UnchangedDevice
<1>3. p.stream = host.opened /\ p \in ToHost
  BY <1>1, <1>2, Mine, OneHeard
<1>4. Head(p.data) \in {"OKAY", "FAIL"}
  <2>1. p.data \in Seq({"OKAY", "FAIL"})
    BY <1>3 DEF ToHost
  <2>2. p.data # <<>>
    BY <1>1, <1>2 DEF IInv, HostInv
  <2> QED
    BY <2>1, <2>2, Taken
<1>5. /\ host' \in Server /\ host'.up = host.up /\ host'.opened = host.opened
      /\ host'.lastId = host.lastId /\ host'.id = host.id /\ host'.sent = host.sent
      /\ host'.rid = host.rid /\ host'.credit = host.credit
  <2>1. host' = [host EXCEPT !.status = Head(p.data)]
    BY <1>1
  <2> HIDE DEF p
  <2> QED
    BY <1>2, <1>4, <2>1 DEF Server
<1>6. host.rid # 0
  <2> SUFFICES ASSUME host.rid = 0 PROVE FALSE
    OBVIOUS
  <2>1. Is(h[1], "WRTE", host.opened)
    BY <1>1, <1>3 DEF Is
  <2>2. \E j \in 1..(1 - 1) : Is(h[j], "OKAY", host.opened)
    BY <1>1, <2>1 DEF FInv, KnownInv
  <2> QED
    BY <2>2
<1>7. /\ q \in FromHost /\ q.cmd = "OKAY" /\ q.stream = host.opened /\ Addressed(cable.t, q)
  <2>1. "OKAY" \in {"OKAY", "CLSE", "WRTE"} /\ <<>> \in Seq(Units)
    BY EmptySeq
  <2> QED
    BY <1>5, <1>6, <2>1, ToItsSocket
<1>8. HostSends(q)
  OBVIOUS
<1> HIDE DEF q
<1> DEFINE s == toDev[cable.t]
           u == toDev'[cable.t]
<1>9. /\ cable.t \in Transports /\ Grows(s, u) /\ Len(s) \in Nat /\ Len(u) = Len(s) + 1
      /\ u[Len(s) + 1] = q /\ (Len(s) + 1)..Len(u) = {Len(s) + 1}
      /\ \A t \in Transports : \A i \in 1..Len(toDev'[t]) :
           \/ \E j \in 1..Len(toDev[t]) : toDev'[t][i] = toDev[t][j]
           \/ t = cable.t /\ toDev'[t][i] = q
      /\ \A t \in Transports : \A n :
           t # cable.t \/ q.stream # n \/ q.cmd \notin {"WRTE", "OKAY"} =>
             Quiet(toDev[t], toDev'[t], n)
  BY <1>7, <1>8, HostSays
<1>10. AddressInv'
  <2>1. \A t \in Transports : \A i \in 1..Len(toDev'[t]) :
          \/ \E j \in 1..Len(toDev[t]) : toDev'[t][i] = toDev[t][j]
          \/ t = cable.t /\ Addressed(t, toDev'[t][i])
    BY <1>7, <1>9
  <2> QED
    BY <1>1, <1>5, <2>1, HostHears
<1>11. KnownInv'
  BY <1>2, <1>5, <1>6 DEF KnownInv, FInv
<1>12. ASSUME NEW k \in Ids, ~Live(k) PROVE Flow(k)'
  <2>1. ~Live(k)'
    BY <1>2, <1>5, <1>12 DEF Live
  <2>2. ASSUME sock[k].state = "open"
        PROVE  Spared(toDev[sock[k].t], toDev'[sock[k].t], sock[k].n)
    <3>1. sock[k].t \in Transports /\ (sock[k].t # cable.t \/ q.stream # sock[k].n)
      BY <1>7, <1>12, <2>2, Owners, NotLive
    <3>2. Quiet(toDev[sock[k].t], toDev'[sock[k].t], sock[k].n)
      BY <1>9, <3>1
    <3> QED
      BY <3>2, SparedQuiet
  <2> QED
    BY <2>1, <2>2, HostAside
<1>13. ASSUME NEW k \in Ids, Live(k) PROVE Flow(k)'
  <2> DEFINE n == sock[k].n
  <2>1. sock[k].state = "open" /\ sock[k].t = cable.t /\ n = host.opened /\ Flow(k)
    BY <1>13 DEF Live, FInv
  <2>2. Is(p, "WRTE", n) /\ ~Is(p, "OKAY", n)
    BY <1>1, <1>3, <2>1 DEF Is
  <2> HIDE DEF h, g, p, n, s, u
  <2>3. ~None(h, "WRTE", n)
    BY <1>1, <2>2 DEF None, p
  <2>4. InPermit(k) /\ OutPermit(k)
    BY <1>13, <2>1 DEF Flow, PermitFlow
  <2>5. "R" \notin sock[k].want /\ None(s, "OKAY", n) /\ One(h, "WRTE", n)
    BY <2>1, <2>3, <2>4 DEF OutPermit, h, s, n
  <2>6. None(g, "WRTE", n)
    <3>1. Is(h[1], "WRTE", n) /\ AtMostOne(h, "WRTE", n)
      BY <2>2, <2>5 DEF p, One
    <3> QED
      BY <1>1, <3>1, DropTakes
  <2>7. (None(g, "OKAY", n) <=> None(h, "OKAY", n)) /\ (One(h, "OKAY", n) => One(g, "OKAY", n))
    <3>1. ~Is(h[1], "OKAY", n)
      BY <2>2 DEF p
    <3> QED
      BY <1>1, <3>1, DropKeeps
  <2>8. One(u, "OKAY", n)
    <3>1. Len(s) + 1 \in (Len(s) + 1)..Len(u) /\ Is(u[Len(s) + 1], "OKAY", n)
      BY <1>7, <1>9, <2>1 DEF Is
    <3>2. \A i \in (Len(s) + 1)..Len(u) : i # Len(s) + 1 => ~Is(u[i], "OKAY", n)
      BY <1>9
    <3> QED
      BY <1>9, <2>5, <3>1, <3>2, GrowAdds
  <2>9. /\ None(u, "WRTE", n) <=> None(s, "WRTE", n)
        /\ AtMostOne(s, "WRTE", n) => AtMostOne(u, "WRTE", n)
        /\ One(s, "WRTE", n) => One(u, "WRTE", n)
        /\ NoNew(s, u, "WRTE", n)
    <3>1. \A i \in (Len(s) + 1)..Len(u) : ~Is(u[i], "WRTE", n)
      BY <1>7, <1>9 DEF Is
    <3> QED
      BY <1>9, <3>1, GrowKeeps
  <2>10. InPermit(k)'
    BY <1>2, <1>5, <2>1, <2>4, <2>7, <2>9 DEF InPermit, h, g, s, u, n
  <2>11. OutPermit(k)'
    BY <1>2, <2>1, <2>5, <2>6, <2>8 DEF OutPermit, g, u, n
  <2>12. PermitFlow(k)'
    BY <1>2, <1>5, <1>6, <2>1, <2>9, <2>10, <2>11 DEF PermitFlow, Flow, s, u, n
  <2>13. ContentFlow(k)'
    <3>1. Done(k)' = Done(k) /\ Hung(k)' = Hung(k)
      BY <1>2 DEF Done, Hung
    <3>2. ~Hung(k) => /\ Follows(svc'[k].in, svc'[k].off)
                      /\ Follows(sock'[k].backlog, svc'[k].off + Len(svc'[k].in))
      BY <1>2, <2>1 DEF Flow, ContentFlow
    <3>3. sock'[k].state = "open" =>
            /\ sock[k].state = "open" /\ sock'[k].t = sock[k].t /\ sock'[k].n = sock[k].n
            /\ None(toDev'[sock[k].t], "WRTE", sock[k].n) <=> None(toDev[sock[k].t], "WRTE", sock[k].n)
            /\ NoNew(toDev[sock[k].t], toDev'[sock[k].t], "WRTE", sock[k].n)
      BY <1>2, <2>1, <2>9 DEF s, u, n
    <3>4. Live(k)' => Live(k) /\ host'.sent = host.sent
      BY <1>5, <1>13
    <3> QED
      BY <2>1, <3>1, <3>2, <3>3, <3>4, ContentMoves
  <2> QED
    BY <2>12, <2>13 DEF Flow
<1> QED
  BY <1>10, <1>11, <1>12, <1>13
\* A packet that is not for the stream the host has open.
LEMMA FlowHostSkips ==
  ASSUME FInv, UnchangedDevice, UNCHANGED <<cable, toDev, host>>, cable.in,
         toHost[cable.t] # <<>>, toHost' = [toHost EXCEPT ![cable.t] = Tail(@)],
         ~(host.up /\ host.id # 0 /\ Head(toHost[cable.t]).arg1 = host.id)
  PROVE  AddressInv' /\ KnownInv' /\ \A j \in Ids : Flow(j)'
<1> DEFINE h == toHost[cable.t]
           g == toHost'[cable.t]
<1>1. /\ Head(h) = h[1] /\ 1 \in 1..Len(h) /\ Drops(h, g, 1) /\ Len(h) # 0 /\ Len(h) \in Nat
      /\ \A i \in 1..Len(g) : \E j \in 1..Len(h) : g[i] = h[j]
  BY Reads
<1>2. /\ host \in Server /\ IInv /\ UNCHANGED <<nextId, sock, svc>>
      /\ host.opened \in Int /\ host.lastId \in Int
  BY ServerFields DEF FInv, UnchangedDevice
<1>3. host.id # 0 => h[1].stream # host.opened
  <2> SUFFICES ASSUME host.id # 0, h[1].stream = host.opened PROVE FALSE
    OBVIOUS
  <2>1. host.up /\ host.id = host.lastId
    BY <1>2 DEF IInv, LinkInv
  <2>2. h[1].arg1 = host.opened - Base
    BY <1>1, <1>2, <2>1 DEF IInv, HostInv
  <2>3. host.opened - Base = host.id
    BY <1>2, <2>1 DEF Base
  <2> QED
    BY <1>1, <2>1, <2>2, <2>3
<1>4. AddressInv'
  <2>1. \A t \in Transports : \A i \in 1..Len(toDev'[t]) :
          \E j \in 1..Len(toDev[t]) : toDev'[t][i] = toDev[t][j]
    OBVIOUS
  <2> QED
    BY <1>1, <1>2, <2>1, HostHears
<1>5. KnownInv'
  <2>1. ASSUME host.id # 0, host.rid = 0, NEW i \in 1..Len(g), Is(g[i], "WRTE", host.opened)
        PROVE  \E j \in 1..(i - 1) : Is(g[j], "OKAY", host.opened)
    <3>1. Len(g) = Len(h) - 1 /\ \A j \in 1..Len(g) : j + 1 \in 1..Len(h) /\ g[j] = h[j + 1]
      BY <1>1 DEF Drops
    <3>2. \A j \in 1..Len(h) : Is(h[j], "WRTE", host.opened) =>
            \E m \in 1..(j - 1) : Is(h[m], "OKAY", host.opened)
      BY <2>1 DEF FInv, KnownInv
    <3> HIDE DEF h, g
    <3>3. i + 1 \in 1..Len(h) /\ Is(h[i + 1], "WRTE", host.opened) /\ i + 1 - 1 = i
      BY <1>1, <2>1, <3>1
    <3>4. \E m \in 1..(i + 1 - 1) : Is(h[m], "OKAY", host.opened)
      BY <3>2, <3>3
    <3>5. PICK m \in 1..i : Is(h[m], "OKAY", host.opened)
      BY <3>3, <3>4
    <3>6. m # 1
      BY <1>3, <2>1, <3>5 DEF Is
    <3>7. m - 1 \in 1..(i - 1) /\ m - 1 \in 1..Len(g) /\ m - 1 + 1 = m
      BY <1>1, <2>1, <3>1, <3>5, <3>6
    <3>8. g[m - 1] = h[m]
      BY <3>1, <3>7
    <3> QED
      BY <3>5, <3>7, <3>8
  <2> QED
    BY <1>2, <2>1 DEF FInv, KnownInv
<1>6. ASSUME NEW k \in Ids, ~Live(k) PROVE Flow(k)'
  <2>1. ~Live(k)'
    BY <1>2, <1>6 DEF Live
  <2>2. sock[k].state = "open" => Spared(toDev[sock[k].t], toDev'[sock[k].t], sock[k].n)
    BY SparedSame
  <2> QED
    BY <2>1, <2>2, HostAside
<1>7. ASSUME NEW k \in Ids, Live(k) PROVE Flow(k)'
  <2> DEFINE n == sock[k].n
  <2>1. sock[k].state = "open" /\ sock[k].t = cable.t /\ n = host.opened /\ Flow(k) /\ host.id # 0
    BY <1>7 DEF Live, FInv
  <2>2. Quiet(toHost[sock[k].t], toHost'[sock[k].t], sock[k].n)
    <3>1. Quiet(h, g, n)
      <4>1. h[1].stream # n
        BY <1>3, <2>1
      <4> HIDE DEF h, g, n
      <4> QED
        BY <1>1, <4>1, QuietDrop
    <3> QED
      BY <2>1, <3>1
  <2>3. Quiet(toDev[sock[k].t], toDev'[sock[k].t], sock[k].n)
    BY QuietSame
  <2>4. Hung(k) => Hung(k)'
    BY <1>2 DEF Hung
  <2>5. svc'[k].off = svc[k].off /\ svc'[k].in = svc[k].in /\ sock'[k] = sock[k]
    BY <1>2
  <2> QED
    BY <1>7, <2>1, <2>2, <2>3, <2>4, <2>5, Aside
<1> QED
  BY <1>4, <1>5, <1>6, <1>7

LEMMA FlowHost ==
  ASSUME FInv, HostStep
  PROVE  AddressInv' /\ KnownInv' /\ \A j \in Ids : Flow(j)'
<1>1. UnchangedDevice
  BY DEF HostStep
<1>2. CASE HostReceive
  <2> DEFINE p == Head(toHost[cable.t])
             mine == host.up /\ host.id # 0 /\ p.arg1 = host.id
  <2>1. /\ cable.in /\ toHost[cable.t] # <<>> /\ UNCHANGED cable
        /\ toHost' = [toHost EXCEPT ![cable.t] = Tail(@)]
    BY <1>2 DEF HostReceive
  <2>2. \/ p.cmd = "CNXN" /\ host' = [host EXCEPT !.up = host.asked] /\ UNCHANGED toDev
        \/ p.cmd = "OKAY" /\ mine /\ host' = [host EXCEPT !.rid = p.arg0, !.credit = TRUE]
           /\ UNCHANGED toDev
        \/ p.cmd = "WRTE" /\ mine /\ host' = [host EXCEPT !.status = Head(p.data)]
           /\ HostSends(Packet("OKAY", host.id, host.rid, host.opened, <<>>))
        \/ p.cmd = "CLSE" /\ mine /\ host' = Streamless(host) /\ UNCHANGED toDev
        \/ p.cmd # "CNXN" /\ ~mine /\ UNCHANGED <<host, toDev>>
    BY <1>2 DEF HostReceive
  <2>3. CASE p.cmd = "CNXN" /\ host' = [host EXCEPT !.up = host.asked] /\ UNCHANGED toDev
    BY <1>1, <2>1, <2>3, FlowHostGreeted
  <2>4. CASE p.cmd = "OKAY" /\ mine /\ host' = [host EXCEPT !.rid = p.arg0, !.credit = TRUE]
             /\ UNCHANGED toDev
    BY <1>1, <2>1, <2>4, FlowHostTold
  <2>5. CASE p.cmd = "WRTE" /\ mine /\ host' = [host EXCEPT !.status = Head(p.data)]
             /\ HostSends(Packet("OKAY", host.id, host.rid, host.opened, <<>>))
    BY <1>1, <2>1, <2>5, FlowHostAnswers
  <2>6. CASE p.cmd = "CLSE" /\ mine /\ host' = Streamless(host) /\ UNCHANGED toDev
    BY <1>1, <2>1, <2>6, FlowHostGreeted
  <2>7. CASE p.cmd # "CNXN" /\ ~mine /\ UNCHANGED <<host, toDev>>
    BY <1>1, <2>1, <2>7, FlowHostSkips
  <2> QED
    BY <2>2, <2>3, <2>4, <2>5, <2>6, <2>7
<1> QED
  BY <1>1, <1>2, FlowConnect, FlowRestart, FlowHostOpens, FlowHostSends, FlowHostCloses,
     FlowUnplug, FlowPlug DEF HostStep
-----------------------------------------------------------------------------
(* The invariant of flow control                                           *)

LEMMA FlowInitially ==
  ASSUME Init
  PROVE  FInv
<1>1. /\ cable = [t |-> 1, in |-> TRUE]
      /\ toDev = [t \in Transports |-> <<>>] /\ toHost = [t \in Transports |-> <<>>]
      /\ sock = [k \in Ids |-> NoSocket] /\ svc = [k \in Ids |-> NoService] /\ host = NoHost
  BY DEF Init
<1>2. cable.t \in Transports
  BY <1>1, Constants DEF Transports
<1>3. \A i \in 1..Len(<<>>) : FALSE
  BY EmptySeq
<1>4. /\ \A t \in Transports : toDev[t] = <<>> /\ toHost[t] = <<>>
      /\ \A k \in Ids : sock[k] = NoSocket /\ svc[k] = NoService
  BY <1>1
<1>5. /\ NoSocket.state = "none" /\ NoSocket.backlog = <<>> /\ NoService.in = <<>>
      /\ NoHost.lastId = 0 /\ NoHost.rid = 0 /\ NoHost.sent = 0 /\ ~NoHost.credit /\ NoHost.id = 0
  BY NoSocketFields DEF NoService, NoHost
<1>6. AddressInv
  BY <1>2, <1>3, <1>4, <1>5 DEF AddressInv
<1>7. KnownInv
  BY <1>1, <1>5 DEF KnownInv
<1>8. ASSUME NEW k \in Ids PROVE Flow(k)
  <2>1. PermitFlow(k)
    BY <1>4, <1>5 DEF PermitFlow, Live
  <2>2. \A m : Follows(<<>>, m)
    BY <1>3 DEF Follows
  <2>3. ContentFlow(k)
    BY <1>4, <1>5, <2>2 DEF ContentFlow, Live
  <2> QED
    BY <2>1, <2>3 DEF Flow
<1> QED
  BY <1>6, <1>7, <1>8, Initially DEF FInv

LEMMA FlowStays ==
  ASSUME FInv, UNCHANGED vars
  PROVE  AddressInv' /\ KnownInv' /\ \A j \in Ids : Flow(j)'
<1>1. UNCHANGED <<cable, toDev, toHost, nextId, sock, svc, host>>
  BY DEF vars
<1>2. AddressInv' /\ KnownInv'
  BY <1>1 DEF FInv, AddressInv, KnownInv, Base
<1>3. ASSUME NEW j \in Ids PROVE Flow(j)'
  <2>1. PermitFlow(j) /\ ContentFlow(j)
    BY DEF FInv, Flow
  <2>2. PermitFlow(j)'
    BY <1>1, <2>1 DEF PermitFlow, Live, InPermit, OutPermit
  <2>3. ContentFlow(j)'
    BY <1>1, <2>1 DEF ContentFlow, Hung, Live, Done
  <2> QED
    BY <2>2, <2>3 DEF Flow
<1> QED
  BY <1>2, <1>3

LEMMA FlowInductive ==
  ASSUME FInv, [Next]_vars
  PROVE  FInv'
<1>1. IInv'
  BY Inductive DEF FInv
<1>2. AddressInv' /\ KnownInv' /\ \A j \in Ids : Flow(j)'
  <2>1. CASE MainStep
    BY <2>1, FlowPoll, FlowHandle, FlowEvent DEF MainStep
  <2>2. CASE \E k \in Ids : ServiceStep(k) \/ Exit(k)
    BY <2>2, FlowThread
  <2>3. CASE HostStep
    BY <2>3, FlowHost
  <2>4. CASE UNCHANGED vars
    BY <2>4, FlowStays
  <2> QED
    BY <2>1, <2>2, <2>3, <2>4 DEF Next
<1> QED
  BY <1>1, <1>2 DEF FInv

\* Whatever the host, the cable and the threads do: the permissions of a stream
\* and the units of its blob are where FInv says, and nowhere else.
THEOREM AdbFlowInductive == Spec => []FInv
<1>1. Init => FInv
  BY FlowInitially
<1>2. FInv /\ [Next]_vars => FInv'
  BY FlowInductive
<1> QED
  BY <1>1, <1>2, PTL DEF Spec

-----------------------------------------------------------------------------
(* What that says of FlowControl                                           *)

\* Units that follow one another are a piece of the blob.
LEMMA Piece ==
  ASSUME NEW q \in Seq(Units), NEW m, Follows(q, m)
  PROVE  q = [i \in 1..Len(q) |-> m + i]
<1>1. q \in [1..Len(q) -> Units]
  BY LenProperties
<1>2. \A i \in 1..Len(q) : q[i] = m + i
  BY DEF Follows
<1> HIDE DEF Units
<1>3. q = [i \in 1..Len(q) |-> q[i]]
  BY <1>1
<1> QED
  BY <1>2, <1>3

\* How many packets there are of a kind.
LEMMA Kinds ==
  ASSUME NEW S, NEW s \in Seq(S), NEW c, NEW k
  PROVE  /\ \A i : i \in About(s, c, k) <=> i \in 1..Len(s) /\ Is(s[i], c, sock[k].n)
         /\ None(s, c, sock[k].n) <=> About(s, c, k) = {}
         /\ None(s, c, sock[k].n) => Cardinality(About(s, c, k)) = 0
         /\ One(s, c, sock[k].n) => Cardinality(About(s, c, k)) = 1
<1>1. DOMAIN s = 1..Len(s)
  BY LenProperties
<1>2. \A i : i \in About(s, c, k) <=> i \in 1..Len(s) /\ Is(s[i], c, sock[k].n)
  BY <1>1 DEF About, Is
<1>3. None(s, c, sock[k].n) <=> About(s, c, k) = {}
  BY <1>2 DEF None
<1>4. None(s, c, sock[k].n) => Cardinality(About(s, c, k)) = 0
  BY <1>3, FS_EmptySet
<1>5. ASSUME One(s, c, sock[k].n) PROVE Cardinality(About(s, c, k)) = 1
  <2>1. PICK x \in 1..Len(s) : Is(s[x], c, sock[k].n)
    BY <1>5 DEF One
  <2>2. \A i \in 1..Len(s) : Is(s[i], c, sock[k].n) => i = x
    BY <1>5, <2>1 DEF One, AtMostOne
  <2>3. About(s, c, k) = {x}
    BY <1>2, <2>1, <2>2
  <2> QED
    BY <2>3, FS_Singleton
<1> QED
  BY <1>2, <1>3, <1>4, <1>5

LEMMA Intact ==
  ASSUME FInv, NEW k \in Ids, ~Hung(k)
  PROVE  LET here == svc[k].in \o sock[k].backlog
             done == svc[k].off + Len(here)
             Data(i) == toDev[sock[k].t][i].data
         IN  /\ here = [i \in 1..Len(here) |-> svc[k].off + i]
             /\ sock[k].state = "open" => \A i \in DataOnTheWay(k) :
                  /\ Data(i) = [j \in 1..Len(Data(i)) |-> done + j]
                  /\ Live(k) => host.sent = done + Len(Data(i))
             /\ Live(k) /\ DataOnTheWay(k) = {} => host.sent = done
<1> DEFINE in == svc[k].in
           back == sock[k].backlog
           here == in \o back
           done == svc[k].off + Len(here)
           s == toDev[sock[k].t]
<1>1. in \in Seq(Units) /\ back \in Seq(Units) /\ svc[k].off \in Nat
  <2>1. svc[k].in \in Seq(Units) /\ svc[k].off \in 0..Size
    BY ServiceFields DEF FInv, IInv
  <2>2. sock[k].backlog \in Seq(Units)
    BY Fields DEF FInv, IInv, TypeOK
  <2> QED
    BY <2>1, <2>2, Constants
<1>2. ContentFlow(k)
  BY DEF FInv, Flow
<1>3. Follows(in, svc[k].off) /\ Follows(back, svc[k].off + Len(in))
  BY <1>2 DEF ContentFlow
<1>4. Follows(here, svc[k].off) /\ here \in Seq(Units) /\ Len(here) = Len(in) + Len(back)
  <2> HIDE DEF in, back
  <2>1. Follows(in \o back, svc[k].off)
    BY <1>1, <1>3, FollowOn
  <2>2. in \o back \in Seq(Units) /\ Len(in \o back) = Len(in) + Len(back)
    BY <1>1, Joined
  <2> QED
    BY <2>1, <2>2
<1>5. done = Done(k)
  <2>1. Len(in) \in Nat /\ Len(back) \in Nat
    BY <1>1, LenProperties
  <2>2. Done(k) = svc[k].off + Len(in) + Len(back)
    BY DEF Done
  <2> DEFINE off == svc[k].off
             a == Len(in)
             b == Len(back)
             c == Len(here)
  <2>3. off \in Nat /\ a \in Nat /\ b \in Nat /\ c = a + b /\ Done(k) = off + a + b /\ done = off + c
    BY <1>1, <1>4, <2>1, <2>2
  <2> HIDE DEF off, a, b, c, done
  <2>4. off + (a + b) = off + a + b
    BY <2>3
  <2> QED
    BY <2>3, <2>4
<1> HIDE DEF in, back, here, done
<1>6. here = [i \in 1..Len(here) |-> svc[k].off + i]
  BY <1>4, Piece
<1>7. ASSUME sock[k].state = "open"
      PROVE  /\ s \in Seq(FromHost)
             /\ \A i : i \in DataOnTheWay(k) <=> i \in 1..Len(s) /\ Is(s[i], "WRTE", sock[k].n)
             /\ None(s, "WRTE", sock[k].n) <=> DataOnTheWay(k) = {}
  <2>1. s \in Seq(FromHost)
    BY <1>7, Owners, ServerFields DEF FInv
  <2> QED
    BY <2>1, Kinds DEF DataOnTheWay
<1>8. ASSUME sock[k].state = "open", NEW i \in DataOnTheWay(k)
      PROVE  /\ s[i].data = [j \in 1..Len(s[i].data) |-> done + j]
             /\ Live(k) => host.sent = done + Len(s[i].data)
  <2>1. i \in 1..Len(s) /\ Is(s[i], "WRTE", sock[k].n) /\ s \in Seq(FromHost)
    BY <1>7, <1>8
  <2>2. Follows(s[i].data, done) /\ (Live(k) => host.sent = done + Len(s[i].data))
    BY <1>2, <1>5, <1>8, <2>1 DEF ContentFlow
  <2>3. s[i].data \in Seq(Units)
    <3>1. s[i] \in FromHost
      BY <2>1, ElementOfSeq
    <3> QED
      BY <3>1 DEF FromHost
  <2> QED
    BY <2>2, <2>3, Piece
<1>9. ASSUME Live(k), DataOnTheWay(k) = {} PROVE host.sent = done
  <2>1. sock[k].state = "open"
    BY <1>9 DEF Live
  <2>2. None(s, "WRTE", sock[k].n)
    BY <1>7, <1>9, <2>1
  <2> QED
    BY <1>2, <1>5, <1>9, <2>2 DEF ContentFlow
<1> QED
  BY <1>6, <1>8, <1>9 DEF in, back, here, done

LEMMA Permissions ==
  ASSUME FInv, NEW k \in Ids, Live(k)
  PROVE  /\ Count(host.credit) + Cardinality(DataOnTheWay(k)) + Count(sock[k].backlog # <<>>)
              + Cardinality(About(toHost[cable.t], "OKAY", k)) = 1
         /\ Count("R" \in sock[k].want) + Cardinality(About(toHost[cable.t], "WRTE", k))
              + Cardinality(About(toDev[cable.t], "OKAY", k)) = 1
<1>1. sock[k].t = cable.t /\ InPermit(k) /\ OutPermit(k)
  BY DEF FInv, Flow, PermitFlow, Live
<1> DEFINE s == toDev[cable.t]
           h == toHost[cable.t]
           n == sock[k].n
<1>2. s \in Seq(FromHost) /\ h \in Seq(ToHost)
  BY ServerFields DEF FInv
<1>3. \A c : /\ None(s, c, n) => Cardinality(About(s, c, k)) = 0
             /\ One(s, c, n) => Cardinality(About(s, c, k)) = 1
             /\ None(h, c, n) => Cardinality(About(h, c, k)) = 0
             /\ One(h, c, n) => Cardinality(About(h, c, k)) = 1
  BY <1>2, Kinds
<1>4. DataOnTheWay(k) = About(s, "WRTE", k)
  BY <1>1 DEF DataOnTheWay
<1>5. \/ host.credit /\ sock[k].backlog = <<>> /\ None(s, "WRTE", n) /\ None(h, "OKAY", n)
      \/ ~host.credit /\ sock[k].backlog # <<>> /\ None(s, "WRTE", n) /\ None(h, "OKAY", n)
      \/ ~host.credit /\ sock[k].backlog = <<>> /\ One(s, "WRTE", n) /\ None(h, "OKAY", n)
      \/ ~host.credit /\ sock[k].backlog = <<>> /\ None(s, "WRTE", n) /\ One(h, "OKAY", n)
  BY <1>1 DEF InPermit
<1>6. \/ "R" \in sock[k].want /\ None(h, "WRTE", n) /\ None(s, "OKAY", n)
      \/ "R" \notin sock[k].want /\ One(h, "WRTE", n) /\ None(s, "OKAY", n)
      \/ "R" \notin sock[k].want /\ None(h, "WRTE", n) /\ One(s, "OKAY", n)
  BY <1>1 DEF OutPermit
<1> HIDE DEF s, h, n
<1>7. Count(host.credit) + Cardinality(About(s, "WRTE", k)) + Count(sock[k].backlog # <<>>)
        + Cardinality(About(h, "OKAY", k)) = 1
  BY <1>3, <1>5 DEF Count
<1>8. Count("R" \in sock[k].want) + Cardinality(About(h, "WRTE", k))
        + Cardinality(About(s, "OKAY", k)) = 1
  BY <1>3, <1>6 DEF Count
<1> QED
  BY <1>4, <1>7, <1>8 DEF s, h

\* What a service has of its stream is the beginning of what was sent, in order
\* and once, and each side may say one thing before it hears of the other: there
\* is no packet twice, none is lost with a full socket pair or a late OKAY, and
\* no stream waits for an OKAY that nobody owes it (sockets.c:130-189, 276-320).
THEOREM AdbFlowControl == Spec => []FlowControl
<1>1. ASSUME FInv PROVE StreamIntact
  BY <1>1, Intact DEF StreamIntact
<1>2. ASSUME FInv PROVE OneOutstanding
  BY <1>2, Permissions DEF OneOutstanding
<1>3. FInv => FlowControl
  BY <1>1, <1>2 DEF FlowControl
<1> QED
  BY <1>3, AdbFlowInductive, PTL
=============================================================================
