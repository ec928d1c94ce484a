------------------------------- MODULE Server -------------------------------
(***************************************************************************)
(* The session registry, the router and the transport listeners of        *)
(* src/src/server/server.cpp, with the idle reaper of main.cpp.            *)
(*                                                                         *)
(*   clientMapUdp / clientMapTcp   the registries, keyed by the peer's PID *)
(*   nextClientId_udp / _tcp       the routing-id counters                 *)
(*   handleUdpClients              one thread for every UDP peer           *)
(*   handleTcpClient               one thread per accepted connection      *)
(*   cleanupInactiveUdpClients     the reaper thread, every 30 s           *)
(*                                                                         *)
(* None of the maps or counters is locked.  A map operation is taken as    *)
(* atomic; the one increment the TCP threads race on, nextClientId_tcp++   *)
(* inside registerClient, is split into its read and its write, and so is *)
(* the duplicate check from the insertion that follows it.                 *)
(*                                                                         *)
(* What an order does to the inventory is OrderPipeline's; here an order   *)
(* only sets the two flags isValid and productStock of the thread that    *)
(* received it, whichever way its checks went.  A control command          *)
(* (LIST_CLIENTS, SHOW_REPORT) is answered through forwardMessageToClient  *)
(* to the routing id the thread holds in client_id.                        *)
(*                                                                         *)
(* An order that passes both checks is relayed by processMessage to the   *)
(* session whose routing id is its source location, on the protocol its  *)
(* metadata names.  A TCP session holds the descriptor number of its      *)
(* connection; accept() hands out the lowest number not open, so a number *)
(* closed by one handler may be the next connection's.  `sent` is the     *)
(* last message forwardMessageToClient wrote and who read it.             *)
(*                                                                         *)
(* Time advances in reaper periods (30 s); a session's age is the number   *)
(* of periods since its last_seen, counted up to Timeout + 1.              *)
(***************************************************************************)
EXTENDS Integers, FiniteSets, FiniteSetsExt, TLC

CONSTANTS
    UdpPeers,       \* UDP clients, each known by its PID
    TcpPids,        \* PIDs a TCP client may report (0: not a number)
    Conns,          \* TCP connection slots (one handler thread each)
    MaxAccepts,     \* bound: connections accepted in a behaviour
    MAX_CLIENTS_ID, \* server.hpp: largest routing id
    Timeout,        \* CHRONO_TIMEOUT in reaper periods
    None            \* model value: no peer / no command yet

ASSUME 0 \in TcpPids
ASSUME MAX_CLIENTS_ID \in Nat \ {0} /\ Timeout \in Nat /\ MaxAccepts \in Nat

VARIABLES
    clientMapUdp,   \* PID -> [id, age]: UDP sessions
    clientMapTcp,   \* PID -> [id, sock]: TCP sessions, sock = the handler's slot
    nextUdp,        \* nextClientId_udp
    nextTcp,        \* nextClientId_tcp
    peer,           \* UDP peer -> "new" (PID not sent yet) or "running"
    quiet,          \* UDP peer -> periods since it last sent (history)
    udp,            \* handleUdpClients' locals: [cid, valid, stock]
    conn,           \* slot -> handleTcpClient's locals and where it is
    accepts,        \* connections accepted so far
    sent            \* the last forwarded message: [id, to, toId, asker]

vars == <<clientMapUdp, clientMapTcp, nextUdp, nextTcp, peer, quiet, udp, conn,
          accepts, sent>>

\* What an order may name: its source location (a routing id, which no
\* session may hold) and its metadata.protocol, lowered.
Locations == 1..MAX_CLIENTS_ID
Protos == {"udp", "tcp"}

Cap(n) == IF n > Timeout THEN Timeout + 1 ELSE n

\* A descriptor is open from accept() until the handler's close().
Open(c) == conn[c].st \in {"check", "commit", "loop"}

\* accept(): the lowest descriptor number no connection holds open.
\* Numbers 1..|Conns| stand for the kernel's; with one handler thread
\* per slot, a free one always exists.
LowestFreeFd == Min((1..Cardinality(Conns)) \ {conn[d].fd : d \in {e \in Conns : Open(e)}})

\* findClientById: the PID of the first session, in the std::map's PID
\* order, that holds routing id `id`.
FirstPid(map, id) == Min({p \in DOMAIN map : map[p].id = id})
UdpHolder(id) ==
    IF \E p \in DOMAIN clientMapUdp : clientMapUdp[p].id = id
    THEN FirstPid(clientMapUdp, id) ELSE None
TcpHolder(id) ==
    IF \E p \in DOMAIN clientMapTcp : clientMapTcp[p].id = id
    THEN clientMapTcp[FirstPid(clientMapTcp, id)].sock ELSE None

\* forwardMessageToClient(message, id, proto): the peer the sendto reaches
\* (UDP), or the connection that has the session's descriptor open, which
\* reads the write (TCP); None when no session holds the id, the protocol
\* is neither, or the descriptor is closed (write fails with EBADF).
\* `toId` is the routing id the reader holds at that moment; `asker` is
\* the sender of the command it answers (None for a relay).
Forward(id, proto, asker) ==
    LET fd    == TcpHolder(id)
        owner == {c \in Conns : Open(c) /\ conn[c].fd = fd}
        to    == CASE proto = "udp" -> UdpHolder(id)
                   [] proto = "tcp" /\ owner # {} -> CHOOSE c \in owner : TRUE
                   [] OTHER -> None
    IN  sent' = [id |-> id, to |-> to, asker |-> asker,
            toId |-> CASE to = None -> 0
                            [] proto = "udp" -> clientMapUdp[to].id
                            [] OTHER -> conn[to].cid]

\* processMessage on LIST_CLIENTS / SHOW_REPORT, reached only when the
\* thread's flags are both true: the answer goes to the holder of `cid`.
\* Otherwise nothing is written to anyone.  `asker` is the sender if it
\* holds a session of its own, None otherwise.
AnswerCommand(flagsOk, cid, proto, asker) ==
    IF flagsOk THEN Forward(cid, proto, asker)
    ELSE sent' = [id |-> cid, to |-> None, toId |-> 0, asker |-> asker]

\* processMessage on an order that passed both checks: the notification
\* goes to the routing id the order's source location names, on the
\* protocol its metadata names.
Relay == \E src \in Locations, proto \in Protos : Forward(src, proto, None)

(***************************************************************************)
(* UDP: handleUdpClients, one step per datagram.                           *)
(***************************************************************************)

\* Mutant: the counter is read but not advanced.
UdpRegisterNoIncrement(p) ==
    /\ peer[p] = "new"
    /\ peer' = [peer EXCEPT ![p] = "running"]
    /\ quiet' = [quiet EXCEPT ![p] = 0]
    /\ p \notin DOMAIN clientMapUdp
    /\ nextUdp' = nextUdp
    /\ IF nextUdp > MAX_CLIENTS_ID
       THEN /\ udp' = [udp EXCEPT !.cid = -1]
            /\ UNCHANGED clientMapUdp
       ELSE /\ udp' = [udp EXCEPT !.cid = nextUdp]
            /\ clientMapUdp' = clientMapUdp @@ (p :> [id |-> nextUdp, age |-> 0])
    /\ UNCHANGED <<clientMapTcp, nextTcp, conn, accepts, sent>>

\* The client's first datagram is its PID: unseen, it is registered (the
\* counter is the UDP thread's alone) and the datagram goes no further.
UdpRegister(p) ==
    /\ peer[p] = "new"
    /\ peer' = [peer EXCEPT ![p] = "running"]
    /\ quiet' = [quiet EXCEPT ![p] = 0]
    /\ p \notin DOMAIN clientMapUdp
    /\ nextUdp' = nextUdp + 1
    /\ IF nextUdp > MAX_CLIENTS_ID
       THEN /\ udp' = [udp EXCEPT !.cid = -1]
            /\ UNCHANGED clientMapUdp
       ELSE /\ udp' = [udp EXCEPT !.cid = nextUdp]
            /\ clientMapUdp' = clientMapUdp @@ (p :> [id |-> nextUdp, age |-> 0])
    /\ UNCHANGED <<clientMapTcp, nextTcp, conn, accepts, sent>>

\* The PID datagram is lost on the way (UDP): the client goes on sending,
\* never registered.
UdpPidLost(p) ==
    /\ peer[p] = "new"
    /\ peer' = [peer EXCEPT ![p] = "running"]
    /\ UNCHANGED <<clientMapUdp, clientMapTcp, nextUdp, nextTcp, quiet, udp, conn,
                   accepts, sent>>

\* Any later datagram starts with '{' or is a command, so atoi gives 0 and
\* nothing is registered or refreshed.  An order sets the flags (a payload
\* that does not parse leaves them); a command is answered to client_id,
\* the routing id of the last UDP registration.
\* An order that passes both checks is relayed.
UdpOrder(p) ==
    /\ peer[p] = "running"
    /\ quiet' = [quiet EXCEPT ![p] = 0]
    /\ \/ UNCHANGED <<udp, sent>>
       \/ \E v, s \in BOOLEAN :
             /\ udp' = [udp EXCEPT !.valid = v, !.stock = s]
             /\ IF v /\ s THEN Relay ELSE UNCHANGED sent
    /\ UNCHANGED <<clientMapUdp, clientMapTcp, nextUdp, nextTcp, peer, conn,
                   accepts>>

UdpCommand(p) ==
    /\ peer[p] = "running"
    /\ quiet' = [quiet EXCEPT ![p] = 0]
    /\ AnswerCommand(udp.valid /\ udp.stock, udp.cid, "udp",
                     IF p \in DOMAIN clientMapUdp THEN p ELSE None)
    /\ UNCHANGED <<clientMapUdp, clientMapTcp, nextUdp, nextTcp, peer, udp,
                   conn, accepts>>

(***************************************************************************)
(* TCP: handleTcpConnections accepts, handleTcpClient serves.              *)
(***************************************************************************)
SetConn(c, r) == conn' = [conn EXCEPT ![c] = r]

\* accept(), then the first read: a PID (0 if not a number).  A PID other
\* than 0 goes to registerClient; 0 goes straight to the loop.
Accept(c, pid) ==
    /\ conn[c].st = "closed"
    /\ accepts < MaxAccepts
    /\ accepts' = accepts + 1
    /\ SetConn(c, [conn[c] EXCEPT !.st = IF pid = 0 THEN "loop" ELSE "check",
                                  !.pid = pid, !.cid = 0, !.fd = LowestFreeFd,
                                  !.valid = TRUE, !.stock = TRUE])
    /\ UNCHANGED <<clientMapUdp, clientMapTcp, nextUdp, nextTcp, peer, quiet,
                   udp, sent>>

\* accept(), then the first read fails or returns nothing: the handler
\* closes the socket and returns before registering anything.
AcceptClosed(c) ==
    /\ conn[c].st = "closed"
    /\ accepts < MaxAccepts
    /\ accepts' = accepts + 1
    /\ UNCHANGED <<clientMapUdp, clientMapTcp, nextUdp, nextTcp, peer, quiet,
                   udp, conn, sent>>

\* registerClient, first half: the duplicate check, then the read of
\* nextClientId_tcp.
RegCheck(c) ==
    /\ conn[c].st = "check"
    /\ IF conn[c].pid \in DOMAIN clientMapTcp
       THEN SetConn(c, [conn[c] EXCEPT !.st = "loop", !.cid = -1])
       ELSE SetConn(c, [conn[c] EXCEPT !.st = "commit", !.tmp = nextTcp])
    /\ UNCHANGED <<clientMapUdp, clientMapTcp, nextUdp, nextTcp, peer, quiet,
                   udp, accepts, sent>>

\* Mutant: the bound is checked on the value read, but the session is
\* given the counter after its increment (++ where ++ was meant after).
RegCommitStoresNext(c) ==
    LET id == conn[c].tmp
    IN  /\ conn[c].st = "commit"
        /\ nextTcp' = id + 1
        /\ IF id > MAX_CLIENTS_ID
           THEN /\ SetConn(c, [conn[c] EXCEPT !.st = "loop", !.cid = -1])
                /\ UNCHANGED clientMapTcp
           ELSE /\ SetConn(c, [conn[c] EXCEPT !.st = "loop", !.cid = id + 1])
                /\ clientMapTcp' = [p \in DOMAIN clientMapTcp \cup {conn[c].pid} |->
                                      IF p = conn[c].pid THEN [id |-> id + 1, sock |-> conn[c].fd]
                                      ELSE clientMapTcp[p]]
        /\ UNCHANGED <<clientMapUdp, nextUdp, peer, quiet, udp, accepts, sent>>

\* registerClient, second half: the write of the incremented counter, the
\* MAX_CLIENTS_ID check and the insertion (clientMapTcp[pid] = info).
RegCommit(c) ==
    LET id == conn[c].tmp
    IN  /\ conn[c].st = "commit"
        /\ nextTcp' = id + 1
        /\ IF id > MAX_CLIENTS_ID
           THEN /\ SetConn(c, [conn[c] EXCEPT !.st = "loop", !.cid = -1])
                /\ UNCHANGED clientMapTcp
           ELSE /\ SetConn(c, [conn[c] EXCEPT !.st = "loop", !.cid = id])
                /\ clientMapTcp' = [p \in DOMAIN clientMapTcp \cup {conn[c].pid} |->
                                      IF p = conn[c].pid THEN [id |-> id, sock |-> conn[c].fd]
                                      ELSE clientMapTcp[p]]
        /\ UNCHANGED <<clientMapUdp, nextUdp, peer, quiet, udp, accepts, sent>>

\* A read that returns an order: a failed write of the acknowledgement, or
\* a payload that does not parse, continues the loop; otherwise the flags
\* are set as its checks went, and an order that passed both is relayed,
\* unless a write of its answer or of an alert failed and continued the
\* loop first.
TcpOrder(c) ==
    /\ conn[c].st = "loop"
    /\ \/ UNCHANGED <<conn, sent>>
       \/ \E v, s \in BOOLEAN :
             /\ SetConn(c, [conn[c] EXCEPT !.valid = v, !.stock = s])
             /\ \/ UNCHANGED sent
                \/ v /\ s /\ Relay
    /\ UNCHANGED <<clientMapUdp, clientMapTcp, nextUdp, nextTcp, peer, quiet,
                   udp, accepts>>

\* A read that returns a command: answered to the connection's own routing
\* id if the flags left by its last order allow it.
TcpCommand(c) ==
    /\ conn[c].st = "loop"
    /\ AnswerCommand(conn[c].valid /\ conn[c].stock, conn[c].cid, "tcp",
                     IF conn[c].cid > 0 THEN c ELSE None)
    /\ UNCHANGED <<clientMapUdp, clientMapTcp, nextUdp, nextTcp, peer, quiet,
                   udp, conn, accepts>>

\* read() returns 0 or fails: close(client_sockfd) ...
Disconnect(c) ==
    /\ conn[c].st = "loop"
    /\ SetConn(c, [conn[c] EXCEPT !.st = "closing"])
    /\ UNCHANGED <<clientMapUdp, clientMapTcp, nextUdp, nextTcp, peer, quiet,
                   udp, accepts, sent>>

\* ... then clientMapTcp.erase(client_pid), whichever connection the entry
\* for that PID belongs to, and the thread ends.
Erase(c) ==
    /\ conn[c].st = "closing"
    /\ clientMapTcp' = [p \in DOMAIN clientMapTcp \ {conn[c].pid} |-> clientMapTcp[p]]
    /\ SetConn(c, [conn[c] EXCEPT !.st = "closed"])
    /\ UNCHANGED <<clientMapUdp, nextUdp, nextTcp, peer, quiet, udp, accepts,
                   sent>>

(***************************************************************************)
(* The reaper and the clock.                                               *)
(***************************************************************************)

\* cleanupInactiveUdpClients: erase every UDP session whose last_seen is
\* more than CHRONO_TIMEOUT ago.
Reap ==
    /\ \E p \in DOMAIN clientMapUdp : clientMapUdp[p].age > Timeout
    /\ clientMapUdp' = [p \in {q \in DOMAIN clientMapUdp : clientMapUdp[q].age <= Timeout}
                          |-> clientMapUdp[p]]
    /\ UNCHANGED <<clientMapTcp, nextUdp, nextTcp, peer, quiet, udp, conn,
                   accepts, sent>>

\* Mutant: the reaper's clock is read once and never advances for the
\* sessions (their age stays what it was).
TickFrozen ==
    /\ \/ \E p \in DOMAIN clientMapUdp : clientMapUdp[p].age <= Timeout
       \/ \E p \in UdpPeers : peer[p] = "running" /\ quiet[p] <= Timeout
    /\ quiet' = [p \in UdpPeers |-> Cap(quiet[p] + 1)]
    /\ UNCHANGED <<clientMapUdp, clientMapTcp, nextUdp, nextTcp, peer, udp, conn,
                   accepts, sent>>

\* One reaper period passes.
Tick ==
    /\ \/ \E p \in DOMAIN clientMapUdp : clientMapUdp[p].age <= Timeout
       \/ \E p \in UdpPeers : peer[p] = "running" /\ quiet[p] <= Timeout
    /\ clientMapUdp' = [p \in DOMAIN clientMapUdp |->
                          [clientMapUdp[p] EXCEPT !.age = Cap(@ + 1)]]
    /\ quiet' = [p \in UdpPeers |-> Cap(quiet[p] + 1)]
    /\ UNCHANGED <<clientMapTcp, nextUdp, nextTcp, peer, udp, conn, accepts,
                   sent>>

(***************************************************************************)
(* Specification.                                                          *)
(***************************************************************************)
Init ==
    /\ clientMapUdp = <<>>
    /\ clientMapTcp = <<>>
    /\ nextUdp = 1
    /\ nextTcp = 1
    /\ peer = [p \in UdpPeers |-> "new"]
    /\ quiet = [p \in UdpPeers |-> 0]
    /\ udp = [cid |-> 0, valid |-> TRUE, stock |-> TRUE]
    /\ conn = [c \in Conns |-> [st |-> "closed", pid |-> 0, cid |-> 0, tmp |-> 0,
                                fd |-> 0, valid |-> TRUE, stock |-> TRUE]]
    /\ accepts = 0
    /\ sent = [id |-> 0, to |-> None, toId |-> 0, asker |-> None]

Next ==
    \/ \E p \in UdpPeers : \/ UdpRegister(p) \/ UdpPidLost(p) \/ UdpCommand(p)
                           \/ UdpOrder(p)
    \/ \E c \in Conns, pid \in TcpPids : Accept(c, pid)
    \/ \E c \in Conns : \/ AcceptClosed(c) \/ RegCheck(c) \/ RegCommit(c)
                        \/ TcpCommand(c) \/ Disconnect(c) \/ Erase(c)
                        \/ TcpOrder(c)
    \/ Reap
    \/ Tick

\* Threads that are in the middle of registerClient or of the disconnect
\* path finish it; the reaper runs and time passes.  Peers need not send.
Spec ==
    /\ Init /\ [][Next]_vars
    /\ \A c \in Conns : WF_vars(RegCheck(c)) /\ WF_vars(RegCommit(c)) /\ WF_vars(Erase(c))
    /\ WF_vars(Reap) /\ WF_vars(Tick)


(***************************************************************************)
(* Properties.                                                             *)
(***************************************************************************)
Ids == 1..MAX_CLIENTS_ID
Conn == [st : {"closed", "check", "commit", "loop", "closing"},
         pid : TcpPids, cid : Ids \cup {-1, 0}, tmp : Nat,
         fd : 0..Cardinality(Conns), valid : BOOLEAN, stock : BOOLEAN]

\* Every routing id held by a session, or by a thread in client_id, is one
\* registerClient may hand out: 1..MAX_CLIENTS_ID (-1 for a refusal, 0
\* before any registration); the counters never pass the bound by more
\* than the registrations refused.
TypeOK ==
    /\ DOMAIN clientMapUdp \subseteq UdpPeers
    /\ \A p \in DOMAIN clientMapUdp : clientMapUdp[p].id \in Ids
                                    /\ clientMapUdp[p].age \in 0..Timeout + 1
    /\ DOMAIN clientMapTcp \subseteq TcpPids \ {0}
    /\ \A p \in DOMAIN clientMapTcp : clientMapTcp[p].id \in Ids
                                    /\ clientMapTcp[p].sock \in 1..Cardinality(Conns)
    /\ nextUdp \in Nat \ {0} /\ nextTcp \in Nat \ {0}
    /\ peer \in [UdpPeers -> {"new", "running"}]
    /\ quiet \in [UdpPeers -> 0..Timeout + 1]
    /\ udp \in [cid : Ids \cup {-1, 0}, valid : BOOLEAN, stock : BOOLEAN]
    /\ conn \in [Conns -> Conn]
    /\ accepts \in 0..MaxAccepts
    /\ sent \in [id : Ids \cup {-1, 0},
                 to : UdpPeers \cup Conns \cup {None}, toId : Ids \cup {-1, 0},
                 asker : UdpPeers \cup Conns \cup {None}]

\* spec.md 3: a routing id is unique within its protocol.  No two live
\* sessions of a registry hold the same routing id, whatever order the
\* listener threads run registerClient in (nextClientId_tcp++ is not atomic).
UniqueRoutingIds ==
    /\ \A p, q \in DOMAIN clientMapUdp : p # q => clientMapUdp[p].id # clientMapUdp[q].id
    /\ \A p, q \in DOMAIN clientMapTcp : p # q => clientMapTcp[p].id # clientMapTcp[q].id

\* spec.md 4.1: a second registration of a PID is rejected while the first
\* is live.  A TCP session leaves the registry only through the disconnect
\* of the connection that owns it (handleTcpClient's erase by PID).
DisconnectErasesOwnSession ==
    [][\A p \in DOMAIN clientMapTcp :
          p \notin DOMAIN clientMapTcp' =>
              \E c \in Conns : /\ conn[c].st = "closing"
                              /\ conn[c].fd = clientMapTcp[p].sock
                              /\ conn[c].cid = clientMapTcp[p].id]_vars

\* spec.md 4.2 and 8: every payload refreshes lastActiveAt, so the reaper
\* removes only a UDP session whose peer has been silent for longer than
\* CHRONO_TIMEOUT.
ActiveUdpSessionKept ==
    [][\A p \in DOMAIN clientMapUdp :
          p \notin DOMAIN clientMapUdp' => quiet[p] > Timeout]_vars

\* spec.md 2 and 4.1: the router delivers a message to the live session
\* with the routing id it resolves.  Whatever forwardMessageToClient
\* writes (a relayed order, an answer to a command) is read, if by anyone,
\* by the peer or connection that holds the routing id it was addressed
\* to, even while the session's own handler is between close() and
\* clientMapTcp.erase() and accept() hands its descriptor number on.
ForwardReachesIdHolder ==
    sent.to # None => sent.toId = sent.id

\* spec.md 2 and 6: LIST_CLIENTS and SHOW_REPORT return their report to
\* the client that sent them.  A command from a peer or connection that
\* holds a session is answered, and the answer is read by that sender:
\* not dropped because the thread's last order failed a check (isValid and
\* productStock are kept across iterations), and not sent to whichever
\* peer the UDP loop registered last (its client_id).
CommandAnsweredToSender ==
    sent.asker # None => sent.to = sent.asker

\* server.hpp: cleanupInactiveUdpClients removes the clients that have been
\* silent for longer than the timeout.  Run every 30 s by main.cpp's
\* thread, it eventually removes a UDP session whose peer has been silent
\* past CHRONO_TIMEOUT, unless the peer speaks again first.  A reaper that
\* measured age on a clock that stops, or compared it the wrong way, would
\* keep such a session for ever.
IdleUdpSessionEvicted ==
    \A p \in UdpPeers :
        (p \in DOMAIN clientMapUdp /\ quiet[p] > Timeout)
            ~> (p \notin DOMAIN clientMapUdp \/ quiet[p] <= Timeout)

(***************************************************************************)
(* Refinement: the registry maps implement SessionRegistry.  Each map,    *)
(* stripped of what the abstract registry does not speak of (descriptor,  *)
(* age), is that protocol's PID -> routing id map.                         *)
(***************************************************************************)
Registry == INSTANCE SessionRegistry
              WITH sessions <- [pr \in {"UDP", "TCP"} |->
                                  IF pr = "UDP"
                                  THEN [p \in DOMAIN clientMapUdp |-> clientMapUdp[p].id]
                                  ELSE [p \in DOMAIN clientMapTcp |-> clientMapTcp[p].id]],
                   Protocols <- {"UDP", "TCP"},
                   Pids <- UdpPeers \cup (TcpPids \ {0}),
                   MaxId <- MAX_CLIENTS_ID

\* spec.md 3 and 4.1, for the registry as a whole: whatever order the UDP
\* thread, one TCP handler at a time and the reaper run in (several TCP
\* handlers race on nextClientId_tcp, see UniqueRoutingIds), a session is
\* only ever added for a PID not registered in its protocol, with a routing id in
\* 1..MAX_CLIENTS_ID that no live session of the protocol holds, keeps its
\* id while it lives, and is only ever removed whole.
RegistryRefinement == Registry!Spec


=============================================================================
