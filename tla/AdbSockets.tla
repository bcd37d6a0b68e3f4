------------------------------ MODULE AdbSockets ------------------------------
(***************************************************************************)
(* The adb daemon of recovery in sideload mode (minadbd): the sockets of   *)
(* sockets.c, the packets handle_packet takes and sends, the event loop of *)
(* fdevent.c and the one service there is, sideload_service.               *)
(*                                                                         *)
(* The main loop is single-threaded.  It collects the descriptors that are *)
(* ready (Poll) and serves them one by one (Handle, SocketEvent), so that  *)
(* an event may be old when it is served.  A host stream is a local socket *)
(* with a remote peer here; the local socket is one end of a socket pair   *)
(* whose other end a service thread reads.  What the thread cannot take    *)
(* yet waits in the socket's backlog, and the host may send its next       *)
(* packet when it is told OKAY.                                            *)
(*                                                                         *)
(* The adb server on the host is external and well-behaved.  It may        *)
(* restart, and the cable may be pulled; the threads that carry packets    *)
(* (transport.c) are left out.  Packets are whole (the magic and the data  *)
(* checksum are not checked), a packet of a lost transport is dropped.     *)
(***************************************************************************)
EXTENDS Integers, Sequences, FiniteSets

CONSTANTS
  MaxStreams,     (* streams the host opens                                 *)
  Size,           (* units of the blob a stream announces                   *)
  Payload,        (* units one packet carries                               *)
  Room,           (* units the socket pair holds                            *)
  MaxSessions     (* times the cable is pulled and plugged in again, or the *)
                  (* adb server on the host restarts                        *)

ASSUME SocketsAssumption ==
  /\ MaxStreams \in Nat \ {0} /\ Size \in Nat \ {0}
  /\ Payload \in Nat \ {0} /\ Room \in Nat \ {0} /\ MaxSessions \in Nat

VARIABLES
  cable,      (* the transport of the cable, and whether it is plugged in   *)
  online,     (* connection_state of each transport is not CS_OFFLINE       *)
  toDev,      (* packets from the host, of each transport                   *)
  toHost,     (* packets to the host, of each transport                     *)
  ready,      (* transports with a pending event                            *)
  nextId,     (* local_socket_next_id                                       *)
  sock,       (* the local sockets, by id, with their remote peers          *)
  svc,        (* the service thread of each local socket                    *)
  file,       (* ADB_SIDELOAD_FILENAME: whose unit is at each place, or 0   *)
  owner,      (* history: the service that created the file last            *)
  fouled,     (* history: another service has written to the file since     *)
  alive,      (* the process has not exited                                 *)
  host        (* the adb server and its client                              *)

vars == <<cable, online, toDev, toHost, ready, nextId, sock, svc, file,
          owner, fouled, alive, host>>

Transports == 1..(MaxSessions + 1)
Ids == 1..MaxStreams

\* A packet.  stream is not sent: it says which stream the packet is about.
Packet(c, a0, a1, n, d) == [cmd |-> c, arg0 |-> a0, arg1 |-> a1, stream |-> n, data |-> d]

NoSocket == [state |-> "none", t |-> 0, rid |-> 0, n |-> 0, backlog |-> <<>>,
             want |-> {}, pend |-> {}]
NoService == [state |-> "none", in |-> <<>>, out |-> <<>>, off |-> 0]
NoHost == [up |-> FALSE, asked |-> FALSE, restarts |-> 0, opened |-> 0, lastId |-> 0,
           id |-> 0, rid |-> 0, sent |-> 0, credit |-> FALSE, status |-> "none"]

Init ==
  /\ cable = [t |-> 1, in |-> TRUE] /\ online = [t \in Transports |-> FALSE]
  /\ toDev = [t \in Transports |-> <<>>] /\ toHost = [t \in Transports |-> <<>>]
  /\ ready = {} /\ nextId = 1
  /\ sock = [k \in Ids |-> NoSocket] /\ svc = [k \in Ids |-> NoService]
  /\ file = [p \in 1..Size |-> 0] /\ owner = 0 /\ fouled = FALSE
  /\ alive = TRUE
  /\ host = NoHost

-----------------------------------------------------------------------------
(* Descriptors and sockets                                                 *)

\* fdevent_set: of a pending event it takes away what IS wanted now.
FdeSet(s, events) ==
  IF s.want = events THEN s ELSE [s EXCEPT !.want = events, !.pend = @ \ events]

\* local_socket_destroy: the descriptor is closed and the backlog dropped.
Destroyed(s) == [NoSocket EXCEPT !.state = "freed", !.n = s.n]

ClosedAtOnce(s) == Destroyed(s)
\* local_socket_close_locked: a socket that has data to write lingers, once,
\* without its peer and out of find_local_socket's sight.
Closed(s) ==
  IF s.state = "closing" \/ s.backlog = <<>> THEN Destroyed(s)
  ELSE [FdeSet(s, s.want \ {"R"}) EXCEPT !.state = "closing"]

\* Packets of a transport that is gone are dropped.
Send(t, packets) ==
  toHost' = IF cable.in /\ t = cable.t THEN [toHost EXCEPT ![t] = @ \o packets] ELSE toHost

ToPeer(k, c, a0, d) == <<Packet(c, a0, sock[k].rid, sock[k].n, d)>>

\* remote_socket_close, of a peer the local socket has let go of before.
FarewellUnsent(k) == <<>>
Farewell(k) == ToPeer(k, "CLSE", 0, <<>>)

\* run_transport_disconnects: the remote peers of a transport go without a word.
Disconnected(t) ==
  [k \in Ids |-> IF sock[k].state = "open" /\ sock[k].t = t THEN Closed(sock[k])
                 ELSE sock[k]]

\* The service has closed its end.
Hung(k) == svc[k].state \in {"exiting", "ended"}

\* What of these units the socket pair takes now.
Takes(k, units) ==
  LET room == Room - Len(svc[k].in)
  IN  IF Len(units) <= room THEN Len(units) ELSE room

Written(k, units) ==
  [svc EXCEPT ![k].in = @ \o SubSeq(units, 1, Takes(k, units))]
Left(k, units) == SubSeq(units, Takes(k, units) + 1, Len(units))

-----------------------------------------------------------------------------
(* handle_packet                                                           *)

HandleSync(t) ==
  /\ online' = [online EXCEPT ![t] = FALSE]
  /\ sock' = Disconnected(t)
  /\ UNCHANGED <<toHost, nextId, svc>>

HandleConnectKeeps(t) ==
  /\ online' = [online EXCEPT ![t] = TRUE]
  /\ Send(t, <<Packet("CNXN", 0, 0, 0, <<>>)>>)
  /\ UNCHANGED <<nextId, svc, sock>>
HandleConnect(t) ==
  /\ online' = [online EXCEPT ![t] = TRUE]
  /\ sock' = IF online[t] THEN Disconnected(t) ELSE sock
  /\ Send(t, <<Packet("CNXN", 0, 0, 0, <<>>)>>)
  /\ UNCHANGED <<nextId, svc>>

HandleOpen(t, p) ==
  /\ online[t]
  /\ \/ /\ sock' = [sock EXCEPT ![nextId] =
                      [NoSocket EXCEPT !.state = "open", !.t = t, !.rid = p.arg0,
                                       !.n = p.stream, !.want = {"R"}]]
        /\ svc' = [svc EXCEPT ![nextId].state = "started"]
        /\ nextId' = nextId + 1
        /\ Send(t, <<Packet("OKAY", nextId, p.arg0, p.stream, <<>>)>>)
     \/ \* no thread or no such service
        /\ Send(t, <<Packet("CLSE", 0, p.arg0, p.stream, <<>>)>>)
        /\ UNCHANGED <<sock, svc, nextId>>
  /\ UNCHANGED online

\* find_local_socket does not ask which transport a socket belongs to.
Found(p) == p.arg1 \in Ids /\ sock[p.arg1].state = "open"

HandleOkay(t, p) ==
  /\ online[t] /\ Found(p)
  /\ sock' = [sock EXCEPT ![p.arg1] = FdeSet(@, @.want \cup {"R"})]
  /\ UNCHANGED <<online, toHost, nextId, svc>>

CloseSocket(k) ==
  /\ sock' = [sock EXCEPT ![k] = Closed(@)]
  /\ Send(sock[k].t, Farewell(k))

HandleClose(t, p) ==
  /\ online[t] /\ Found(p)
  /\ CloseSocket(p.arg1)
  /\ UNCHANGED <<online, nextId, svc>>

\* Told OKAY whatever could be written.
HandleWriteOkays(t, p) ==
  /\ online[t] /\ Found(p)
  /\ LET k == p.arg1 IN
     /\ svc' = IF Hung(k) THEN svc ELSE Written(k, p.data)
     /\ sock' = [sock EXCEPT ![k] = FdeSet([@ EXCEPT !.backlog = @ \o Left(k, p.data)],
                                          @.want \cup {"W"})]
  /\ Send(t, <<Packet("OKAY", p.arg1, p.arg0, p.stream, <<>>)>>)
  /\ UNCHANGED <<online, nextId>>
\* local_socket_enqueue, and the OKAY if it took everything.
HandleWrite(t, p) ==
  /\ online[t] /\ Found(p)
  /\ LET k == p.arg1
         waits == sock[k].backlog # <<>>
         left  == IF waits THEN p.data ELSE Left(k, p.data)
     IN
     \/ \* queued, behind what waits already: the OKAY comes when all is written
        /\ waits \/ ~Hung(k)
        /\ left # <<>>
        /\ svc' = IF waits THEN svc ELSE Written(k, p.data)
        /\ sock' = [sock EXCEPT ![k] =
                      FdeSet([@ EXCEPT !.backlog = sock[k].backlog \o left], @.want \cup {"W"})]
        /\ UNCHANGED toHost
     \/ /\ ~waits /\ ~Hung(k) /\ left = <<>>
        /\ svc' = Written(k, p.data)
        /\ Send(t, <<Packet("OKAY", k, p.arg0, p.stream, <<>>)>>)
        /\ UNCHANGED sock
     \/ \* the write fails
        /\ ~waits /\ Hung(k)
        /\ CloseSocket(k)
        /\ UNCHANGED svc
  /\ UNCHANGED <<online, nextId>>

\* A packet for a socket that is not there, or on a transport that is offline.
Ignore(t, p) ==
  /\ ~online[t] \/ (p.cmd # "OPEN" /\ ~Found(p))
  /\ UNCHANGED <<online, toHost, nextId, sock, svc>>

Handle(t) ==
  /\ alive /\ t \in ready
  /\ ready' = ready \ {t}
  /\ toDev' = [toDev EXCEPT ![t] = Tail(@)]
  /\ LET p == Head(toDev[t]) IN
     \/ p.cmd = "SYNC" /\ HandleSync(t)
     \/ p.cmd = "CNXN" /\ HandleConnect(t)
     \/ p.cmd = "OPEN" /\ HandleOpen(t, p)
     \/ p.cmd = "OKAY" /\ HandleOkay(t, p)
     \/ p.cmd = "CLSE" /\ HandleClose(t, p)
     \/ p.cmd = "WRTE" /\ HandleWrite(t, p)
     \/ p.cmd \notin {"SYNC", "CNXN"} /\ Ignore(t, p)
  /\ UNCHANGED <<cable, file, owner, fouled, alive, host>>

-----------------------------------------------------------------------------
(* local_socket_event_func                                                 *)

\* The write half went wrong, or is not through: the read half is not reached.
EventWriteFails(k, ev) ==
  /\ "W" \in ev /\ sock[k].backlog # <<>> /\ Hung(k)
  /\ sock' = [sock EXCEPT ![k] = Closed([@ EXCEPT !.pend = {}])]
  /\ IF sock[k].state = "open" THEN Send(sock[k].t, Farewell(k))
     ELSE UNCHANGED toHost
  /\ UNCHANGED svc

EventWritePart(k, ev) ==
  /\ "W" \in ev /\ ~Hung(k) /\ Left(k, sock[k].backlog) # <<>>
  /\ svc' = Written(k, sock[k].backlog)
  /\ sock' = [sock EXCEPT ![k] = [@ EXCEPT !.pend = {}, !.backlog = Left(k, sock[k].backlog)]]
  /\ UNCHANGED toHost

EventWriteLast(k, ev) ==
  /\ "W" \in ev /\ sock[k].state = "closing"
  /\ ~Hung(k) /\ Left(k, sock[k].backlog) = <<>>
  /\ svc' = Written(k, sock[k].backlog)
  /\ sock' = [sock EXCEPT ![k] = Destroyed(@)]
  /\ UNCHANGED toHost

\* The write half is through (or there is none): peer->ready, and the read.
Drained(k, ev) ==
  \/ "W" \notin ev
  \/ /\ sock[k].state = "open"
     /\ sock[k].backlog = <<>> \/ (~Hung(k) /\ Left(k, sock[k].backlog) = <<>>)

AfterWriteStillWaits(k, ev) ==
  [sock[k] EXCEPT !.pend = {}, !.backlog = IF "W" \in ev THEN <<>> ELSE @]
AfterWrite(k, ev) ==
  LET s == [sock[k] EXCEPT !.pend = {}]
  IN  IF "W" \in ev THEN [FdeSet(s, s.want \ {"W"}) EXCEPT !.backlog = <<>>] ELSE s

Resumed(k, ev) == IF "W" \in ev THEN ToPeer(k, "OKAY", k, <<>>) ELSE <<>>

EventRead(k, ev) ==
  /\ Drained(k, ev)
  /\ LET s    == AfterWrite(k, ev)
         data == IF "R" \in ev THEN svc[k].out ELSE <<>>
         fed  == IF "W" \in ev THEN Written(k, sock[k].backlog) ELSE svc
         eof  == "R" \in ev /\ Hung(k)
         sent == IF data # <<>> /\ s.state = "open" THEN ToPeer(k, "WRTE", k, data) ELSE <<>>
         off  == IF sent # <<>> THEN FdeSet(s, s.want \ {"R"}) ELSE s
         bye  == IF eof /\ s.state = "open" THEN Farewell(k) ELSE <<>>
     IN  /\ svc' = [fed EXCEPT ![k].out = IF "R" \in ev THEN <<>> ELSE @]
         /\ sock' = [sock EXCEPT ![k] = IF eof THEN Closed(off) ELSE off]
         /\ Send(s.t, Resumed(k, ev) \o sent \o bye)

SocketEvent(k) ==
  /\ alive /\ sock[k].pend # {}
  /\ LET ev == sock[k].pend IN
       EventWriteFails(k, ev) \/ EventWritePart(k, ev) \/ EventWriteLast(k, ev) \/ EventRead(k, ev)
  /\ UNCHANGED <<cable, online, toDev, ready, nextId, file, owner, fouled, alive, host>>

\* fdevent_process, when everything that was pending has been served.
Readiness(k) ==
  (IF sock[k].state \in {"open", "closing"} /\ (svc[k].out # <<>> \/ Hung(k)) THEN {"R"} ELSE {})
  \cup (IF sock[k].state \in {"open", "closing"} /\ (Len(svc[k].in) < Room \/ Hung(k))
        THEN {"W"} ELSE {})

Poll ==
  /\ alive /\ ready = {} /\ \A k \in Ids : sock[k].pend = {}
  /\ ready' = {t \in Transports : toDev[t] # <<>>}
  /\ sock' = [k \in Ids |-> [sock[k] EXCEPT !.pend = Readiness(k) \cap sock[k].want]]
  /\ ready' # {} \/ \E k \in Ids : sock'[k].pend # {}
  /\ UNCHANGED <<cable, online, toDev, toHost, nextId, svc, file, owner, fouled, alive, host>>

-----------------------------------------------------------------------------
(* sideload_service, one thread for each stream                            *)

MainClosed(k) == sock[k].state = "freed"
Answer(k, status) ==
  svc' = [svc EXCEPT ![k].state = "told",
                     ![k].out = IF MainClosed(k) THEN @ ELSE Append(@, status)]

\* adb_creat truncates what is there.
Create(k) ==
  /\ svc[k].state = "started"
  /\ \/ /\ file' = [p \in 1..Size |-> 0]
        /\ owner' = k /\ fouled' = FALSE
        /\ svc' = [svc EXCEPT ![k].state = "reading"]
     \/ /\ svc' = [svc EXCEPT ![k].state = "ended", ![k].in = <<>>]
        /\ UNCHANGED <<file, owner, fouled>>

\* The thread writes at its own offset, whoever has truncated the file since.
Receive(k) ==
  /\ svc[k].state = "reading" /\ svc[k].off < Size /\ svc[k].in # <<>>
  /\ file' = [file EXCEPT ![svc[k].off + 1] = sock[k].n]
  /\ fouled' = (fouled \/ owner # k)
  /\ svc' = [svc EXCEPT ![k].off = @ + 1, ![k].in = Tail(@)]
  /\ UNCHANGED owner

GiveUpContent(k) ==
  /\ svc[k].state = "reading" /\ svc[k].off < Size
  /\ svc[k].in # <<>> \/ MainClosed(k)
  /\ Answer(k, "OKAY")
  /\ UNCHANGED <<file, owner, fouled>>
\* readx failed (end of the stream) or writex did (the disk).
GiveUp(k) ==
  /\ svc[k].state = "reading" /\ svc[k].off < Size
  /\ svc[k].in # <<>> \/ MainClosed(k)
  /\ Answer(k, "FAIL")
  /\ UNCHANGED <<file, owner, fouled>>

Succeed(k) ==
  /\ svc[k].state = "reading" /\ svc[k].off = Size
  /\ Answer(k, "OKAY")
  /\ UNCHANGED <<file, owner, fouled>>

HangUp(k) ==
  /\ svc[k].state = "told"
  /\ svc' = [svc EXCEPT ![k].state = IF svc[k].off = Size THEN "exiting" ELSE "ended",
                        ![k].in = <<>>]
  /\ UNCHANGED <<file, owner, fouled>>

ServiceStep(k) ==
  /\ alive
  /\ Create(k) \/ Receive(k) \/ GiveUp(k) \/ Succeed(k) \/ HangUp(k)
  /\ UNCHANGED <<cable, online, toDev, toHost, ready, nextId, sock, alive, host>>

\* exit(0), a second after a success.
Exit(k) ==
  /\ alive /\ svc[k].state = "exiting"
  /\ alive' = FALSE
  /\ UNCHANGED <<cable, online, toDev, toHost, ready, nextId, sock, svc, file, owner, fouled, host>>

-----------------------------------------------------------------------------
(* The host and the cable                                                  *)

UnchangedDevice ==
  UNCHANGED <<online, ready, nextId, sock, svc, file, owner, fouled, alive>>
HostSends(p) == toDev' = [toDev EXCEPT ![cable.t] = Append(@, p)]
Streamless(h) == [h EXCEPT !.id = 0, !.rid = 0, !.sent = 0, !.credit = FALSE]
Restarted(h) == [Streamless(h) EXCEPT !.up = FALSE, !.asked = FALSE, !.lastId = 0]

Sessions == host.restarts + cable.t - 1

HostConnect ==
  /\ cable.in /\ ~host.asked
  /\ host' = [host EXCEPT !.asked = TRUE]
  /\ HostSends(Packet("CNXN", 0, 0, 0, <<>>))
  /\ UNCHANGED <<cable, toHost>>

\* A new server counts its ids from one again.
HostRestart ==
  /\ host.up /\ Sessions < MaxSessions
  /\ host' = [Restarted(host) EXCEPT !.restarts = @ + 1]
  /\ UNCHANGED <<cable, toDev, toHost>>

HostOpen ==
  /\ cable.in /\ host.up /\ host.id = 0 /\ host.opened < MaxStreams
  /\ host' = [host EXCEPT !.opened = @ + 1, !.lastId = @ + 1, !.id = host.lastId + 1,
                          !.status = "none"]
  /\ HostSends(Packet("OPEN", host.lastId + 1, 0, host.opened + 1, <<>>))
  /\ UNCHANGED <<cable, toHost>>

\* The next packet of the blob, when the last one has been acknowledged.
HostSend ==
  /\ cable.in /\ host.credit /\ host.sent < Size
  /\ LET upto == IF host.sent + Payload <= Size THEN host.sent + Payload ELSE Size
     IN  /\ host' = [host EXCEPT !.sent = upto, !.credit = FALSE]
         /\ HostSends(Packet("WRTE", host.id, host.rid, host.opened,
                             [i \in 1..(upto - host.sent) |-> host.sent + i]))
  /\ UNCHANGED <<cable, toHost>>

HostClose ==
  /\ cable.in /\ host.rid # 0
  /\ host' = Streamless(host)
  /\ HostSends(Packet("CLSE", host.id, host.rid, host.opened, <<>>))
  /\ UNCHANGED <<cable, toHost>>

HostReceive ==
  /\ cable.in /\ toHost[cable.t] # <<>>
  /\ toHost' = [toHost EXCEPT ![cable.t] = Tail(@)]
  /\ LET p    == Head(toHost[cable.t])
         mine == host.up /\ host.id # 0 /\ p.arg1 = host.id
     IN  \/ /\ p.cmd = "CNXN"
            /\ host' = [host EXCEPT !.up = host.asked]
            /\ UNCHANGED toDev
         \/ /\ p.cmd = "OKAY" /\ mine
            /\ host' = [host EXCEPT !.rid = p.arg0, !.credit = TRUE]
            /\ UNCHANGED toDev
         \/ /\ p.cmd = "WRTE" /\ mine
            /\ host' = [host EXCEPT !.status = Head(p.data)]
            /\ HostSends(Packet("OKAY", host.id, host.rid, host.opened, <<>>))
         \/ /\ p.cmd = "CLSE" /\ mine
            /\ host' = Streamless(host)
            /\ UNCHANGED toDev
         \/ /\ p.cmd # "CNXN" /\ ~mine
            /\ UNCHANGED <<host, toDev>>
  /\ UNCHANGED cable

\* What the device has not read is lost; its output thread says SYNC(0, 0).
Unplug ==
  /\ cable.in
  /\ cable' = [cable EXCEPT !.in = FALSE]
  /\ \E m \in 0..Len(toDev[cable.t]) :
       toDev' = [toDev EXCEPT ![cable.t] =
                   Append(SubSeq(@, 1, m), Packet("SYNC", 0, 0, 0, <<>>))]
  /\ toHost' = [toHost EXCEPT ![cable.t] = <<>>]
  /\ host' = Restarted(host)

Plug ==
  /\ ~cable.in /\ Sessions < MaxSessions
  /\ cable' = [t |-> cable.t + 1, in |-> TRUE]
  /\ UNCHANGED <<toDev, toHost, host>>

HostStep ==
  /\ alive
  /\ HostConnect \/ HostRestart \/ HostOpen \/ HostSend \/ HostClose \/ HostReceive
     \/ Unplug \/ Plug
  /\ UnchangedDevice

-----------------------------------------------------------------------------
MainStep == Poll \/ (\E t \in Transports : Handle(t)) \/ (\E k \in Ids : SocketEvent(k))

Next ==
  \/ MainStep
  \/ \E k \in Ids : ServiceStep(k) \/ Exit(k)
  \/ HostStep

Spec == Init /\ [][Next]_vars

\* The main loop and the threads keep running (the loop serves everything it
\* has collected before it collects again), and the host reads what it is sent
\* and sends what it may: nothing obliges it to open, to close or to restart.
FairSpec ==
  /\ Spec
  /\ WF_vars(MainStep)
  /\ \A k \in Ids : WF_vars(ServiceStep(k) \/ Exit(k))
  /\ WF_vars(alive /\ (HostReceive \/ HostSend) /\ UnchangedDevice)

-----------------------------------------------------------------------------
(* Properties                                                              *)

Units == 1..Size
FromHost == [cmd : {"SYNC", "CNXN", "OPEN", "OKAY", "CLSE", "WRTE"}, arg0 : 0..MaxStreams,
             arg1 : 0..MaxStreams, stream : 0..MaxStreams, data : Seq(Units)]
ToHost == [cmd : {"CNXN", "OKAY", "CLSE", "WRTE"}, arg0 : 0..MaxStreams,
           arg1 : 0..MaxStreams, stream : 0..MaxStreams, data : Seq({"OKAY", "FAIL"})]
Socket == [state : {"none", "open", "closing", "freed"}, t : 0..(MaxSessions + 1),
           rid : 0..MaxStreams, n : 0..MaxStreams, backlog : Seq(Units),
           want : SUBSET {"R", "W"}, pend : SUBSET {"R", "W"}]
Service == [state : {"none", "started", "reading", "told", "exiting", "ended"},
            in : Seq(Units), out : Seq({"OKAY", "FAIL"}), off : 0..Size]
Server == [up : BOOLEAN, asked : BOOLEAN, restarts : 0..MaxSessions,
           opened : 0..MaxStreams, lastId : 0..MaxStreams, id : 0..MaxStreams,
           rid : 0..MaxStreams, sent : 0..Size, credit : BOOLEAN,
           status : {"none", "OKAY", "FAIL"}]

\* Every variable has its type, and a socket's descriptor waits for room to
\* write exactly while the socket has a backlog.
TypeOK ==
  /\ cable \in [t : Transports, in : BOOLEAN]
  /\ online \in [Transports -> BOOLEAN]
  /\ toDev \in [Transports -> Seq(FromHost)] /\ toHost \in [Transports -> Seq(ToHost)]
  /\ ready \subseteq Transports /\ nextId \in 1..(MaxStreams + 1)
  /\ sock \in [Ids -> Socket] /\ svc \in [Ids -> Service]
  /\ file \in [Units -> 0..MaxStreams] /\ owner \in 0..MaxStreams
  /\ fouled \in BOOLEAN /\ alive \in BOOLEAN /\ host \in Server
  /\ \A k \in Ids : ("W" \in sock[k].want) = (sock[k].backlog # <<>>)

\* The stream the host has open now, as the device knows it.
Live(k) == /\ sock[k].state = "open" /\ cable.in /\ sock[k].t = cable.t
           /\ host.id # 0 /\ host.opened = sock[k].n
About(s, c, k) == {i \in DOMAIN s : s[i].cmd = c /\ s[i].stream = sock[k].n}
Count(b) == IF b THEN 1 ELSE 0
DataOnTheWay(k) == About(toDev[sock[k].t], "WRTE", k)

\* What a service thread has read, what is in its socket pair and what waits
\* in the socket's backlog are, in this order, the beginning of the blob; a
\* packet on its way goes on from there, and with it they are all the host has
\* sent (sockets.c local_socket_enqueue, local_socket_event_func).
StreamIntact ==
  \A k \in Ids :
    LET here == svc[k].in \o sock[k].backlog
        done == svc[k].off + Len(here)
        Data(i) == toDev[sock[k].t][i].data
    IN  ~Hung(k) =>
        /\ here = [i \in 1..Len(here) |-> svc[k].off + i]
        /\ sock[k].state = "open" => \A i \in DataOnTheWay(k) :
             /\ Data(i) = [j \in 1..Len(Data(i)) |-> done + j]
             /\ Live(k) => host.sent = done + Len(Data(i))
        /\ Live(k) /\ DataOnTheWay(k) = {} => host.sent = done

\* In each direction of an open stream there is one permission to send and it
\* is in one place: with the sender, on the wire as a packet or an OKAY, or
\* held back by a backlog (sockets.c:130-189, 276-320, 436-445).
OneOutstanding ==
  \A k \in Ids : Live(k) =>
    /\ Count(host.credit) + Cardinality(DataOnTheWay(k)) + Count(sock[k].backlog # <<>>)
         + Cardinality(About(toHost[cable.t], "OKAY", k)) = 1
    /\ Count("R" \in sock[k].want) + Cardinality(About(toHost[cable.t], "WRTE", k))
         + Cardinality(About(toDev[cable.t], "OKAY", k)) = 1
FlowControl == StreamIntact /\ OneOutstanding

\* No packet of a stream of an earlier session reaches a server that would
\* take it for one of its own, although ids begin again with every server:
\* what the device sends before its CNXN is from before (adb.c:310-319).
NoOldSession ==
  \A i \in DOMAIN toHost[cable.t] :
    LET p == toHost[cable.t][i]
        connected == host.up \/ \E j \in 1..(i - 1) : toHost[cable.t][j].cmd = "CNXN"
    IN  (cable.in /\ connected /\ host.asked /\ p.cmd # "CNXN" /\ p.arg1 = host.id) =>
          p.stream = host.opened

\* When the host is told OKAY, or the process is about to exit, the whole blob
\* is in the file, unless another service thread has created it or written to
\* it since (services.c:46-81).
ToldOkay(k) == host.status = "OKAY" /\ host.id # 0 /\ host.opened = sock[k].n
SuccessMeansWhole ==
  \A k \in Ids : (ToldOkay(k) \/ svc[k].state = "exiting") /\ owner = k /\ ~fouled =>
    \A p \in Units : file[p] = sock[k].n

\* A local socket that is freed drops what its service has not been given yet
\* only if the service has hung up (sockets.c:199-254).
BacklogDelivered ==
  [][\A k \in Ids :
       (sock[k].backlog # <<>> /\ sock'[k].state = "freed") =>
         (Hung(k) \/ svc'[k].in = svc[k].in \o sock[k].backlog)]_vars

\* A stream that is opened gets an answer: its status, a CLSE, or the end of
\* the session or of the process.
Waiting(n) == host.opened = n /\ host.id # 0 /\ host.status = "none"
Answered == \A n \in 1..MaxStreams : Waiting(n) ~> (~Waiting(n) \/ ~alive)
=============================================================================
