------------------------------- MODULE Client -------------------------------
(***************************************************************************)
(* The client of src/src/client/client.c, as the menu of                   *)
(* src/src/common/menu.c drives it, talking to a server that answers.     *)
(*                                                                         *)
(* Two threads of the client share one socket:                             *)
(*   - the menu thread: send_message runs client_communicate_udp/_tcp,     *)
(*     which sends the order and waits for one answer, resending it after  *)
(*     a timeout up to MAX_RETRIES times; list_connected_clients and       *)
(*     show_message_reports send a command and wait for nothing;           *)
(*   - receive_messages_thread, started at connection time, which reads   *)
(*     and prints whatever arrives on the same socket.                     *)
(*                                                                         *)
(* The server takes the payloads in turn: an order is executed (the        *)
(* pipeline of OrderPipeline); every payload is answered with the         *)
(* acknowledgement, an order possibly followed by more messages (a         *)
(* validation or stock error, "Successful order!", alerts), a command by  *)
(* its report or by nothing (Server).                                      *)
(* Over UDP a datagram may be lost and the server may take the payloads   *)
(* in any order; over TCP the byte stream is reliable and ordered.         *)
(***************************************************************************)
EXTENDS Integers, Sequences, SequencesExt

CONSTANTS
    Transports,    \* protocols the menu offers ("udp", "tcp")
    MAX_RETRIES,   \* client.h
    MaxRequests    \* bound: menu actions the user takes

ASSUME Transports \subseteq {"udp", "tcp"} /\ MAX_RETRIES \in Nat /\ MaxRequests \in Nat

VARIABLES
    proto,     \* the protocol chosen in select_protocol_and_connect
    mpc,       \* the menu thread: "menu", "wait", "recv" or "off"
    n,         \* menu actions taken so far; the current order is number n
    retries,   \* client_communicate's retry counter
    up,        \* payloads on the way to the server: [req, kind]
    down,      \* messages on the way to the client, in the socket: [req, kind]
    result     \* the last return of client_communicate: [req, code, answer]

vars == <<proto, mpc, n, retries, up, down, result>>

NoAnswer == [req |-> 0, kind |-> "none"]

\* Over UDP the server may take any payload in flight; over TCP the first.
Deliverable == IF proto = "udp" THEN DOMAIN up ELSE {i \in DOMAIN up : i = 1}

\* client_communicate returns `code`; start_communication treats it.
Return(code, answer) ==
    /\ result' = [req |-> n, code |-> code, answer |-> answer]
    /\ mpc' = IF code = -1 \/ (proto = "udp" /\ code = 1) THEN "off" ELSE "menu"

(***************************************************************************)
(* The menu thread.                                                        *)
(***************************************************************************)

\* Mutant: the retry counter is kept from the previous order.
SendOrderNoReset ==
    /\ mpc = "menu" /\ n < MaxRequests
    /\ n' = n + 1
    /\ up' = Append(up, [req |-> n + 1, kind |-> "order"])
    /\ retries' = retries
    /\ mpc' = "wait"
    /\ UNCHANGED <<proto, down, result>>

\* send_message: the order is built and sent, the first time, with the
\* retry counter of this client_communicate call at 0.
SendOrder ==
    /\ mpc = "menu" /\ n < MaxRequests
    /\ n' = n + 1
    /\ up' = Append(up, [req |-> n + 1, kind |-> "order"])
    /\ retries' = 0
    /\ mpc' = "wait"
    /\ UNCHANGED <<proto, down, result>>

\* list_connected_clients / show_message_reports: send and return.
SendCommand ==
    /\ mpc = "menu" /\ n < MaxRequests
    /\ n' = n + 1
    /\ up' = Append(up, [req |-> n + 1, kind |-> "cmd"])
    /\ UNCHANGED <<proto, mpc, retries, down, result>>

\* Mutant: no receive timeout on the TCP socket; recv blocks.
TimeoutNoRcvTimeout ==
    /\ proto = "udp"
    /\ mpc = "wait"
    /\ down = <<>>
    /\ retries' = retries + 1
    /\ IF retries + 1 <= MAX_RETRIES
       THEN /\ up' = Append(up, [req |-> n, kind |-> "order"])
            /\ UNCHANGED <<proto, mpc, result>>
       ELSE /\ Return(1, NoAnswer)
            /\ UNCHANGED up
    /\ UNCHANGED <<proto, n, down>>

\* No answer within TIMEOUT (select returns 0 over UDP, recv fails with
\* EAGAIN over TCP): count the retry; while retries <= MAX_RETRIES the
\* loop sends the same order again, after that it returns 1.
Timeout ==
    /\ mpc = "wait"
    /\ down = <<>>
    /\ retries' = retries + 1
    /\ IF retries + 1 <= MAX_RETRIES
       THEN /\ up' = Append(up, [req |-> n, kind |-> "order"])
            /\ UNCHANGED <<proto, mpc, result>>
       ELSE /\ Return(1, NoAnswer)
            /\ UNCHANGED up
    /\ UNCHANGED <<proto, n, down>>

\* UDP: select reports the socket readable.
Readable ==
    /\ proto = "udp"
    /\ mpc = "wait"
    /\ down # <<>>
    /\ mpc' = "recv"
    /\ UNCHANGED <<proto, n, retries, up, down, result>>

\* Mutant: recvfrom blocks until a datagram comes.
RecvFromBlocking ==
    /\ mpc = "recv"
    /\ down # <<>>
    /\ down' = Tail(down)
    /\ Return(0, Head(down))
    /\ UNCHANGED <<proto, n, retries, up>>

\* UDP: recvfrom takes the first datagram and returns 0.  If the receiver
\* thread took it since select, the 1 s SO_RCVTIMEO the receiver thread
\* set on the socket makes recvfrom fail: return -1.
RecvFrom ==
    /\ mpc = "recv"
    /\ IF down # <<>>
       THEN /\ down' = Tail(down)
            /\ Return(0, Head(down))
       ELSE /\ Return(-1, NoAnswer)
            /\ UNCHANGED down
    /\ UNCHANGED <<proto, n, retries, up>>

\* TCP: recv returns what is first in the stream, and the call returns 0.
Recv ==
    /\ proto = "tcp"
    /\ mpc = "wait"
    /\ down # <<>>
    /\ down' = Tail(down)
    /\ Return(0, Head(down))
    /\ UNCHANGED <<proto, n, retries, up>>

(***************************************************************************)
(* The receiver thread, the server and the network.                        *)
(***************************************************************************)

\* receive_messages_thread: takes the first message and prints it.
Receiver ==
    /\ down # <<>>
    /\ down' = Tail(down)
    /\ UNCHANGED <<proto, mpc, n, retries, up, result>>

\* The server reads a payload and writes its acknowledgement first, for
\* an order and a command alike; then an order may be followed by more
\* messages (errors, "Successful order!", alerts) and a command by its
\* report, which processMessage sends only when the thread's flags allow.
Serve ==
    \E i \in Deliverable, follows \in BOOLEAN :
        LET p     == up[i]
            ack   == [req |-> p.req, kind |-> "ack"]
            extra == [req |-> p.req, kind |-> IF p.kind = "order" THEN "more" ELSE "reply"]
        IN  /\ up' = RemoveAt(up, i)
            /\ down' = down \o <<ack>> \o (IF follows THEN <<extra>> ELSE <<>>)
            /\ UNCHANGED <<proto, mpc, n, retries, result>>

\* UDP only: a datagram is lost on the way to the server or to the client.
Lose ==
    /\ proto = "udp"
    /\ \/ \E i \in DOMAIN up : up' = RemoveAt(up, i) /\ UNCHANGED down
       \/ \E i \in DOMAIN down : down' = RemoveAt(down, i) /\ UNCHANGED up
    /\ UNCHANGED <<proto, mpc, n, retries, result>>

(***************************************************************************)
(* Specification.                                                          *)
(***************************************************************************)
\* After initialize_client_udp/_tcp: the PID has been sent (the server
\* registers it and answers nothing), the receiver thread is running, and
\* the menu waits for the user.
Init ==
    /\ proto \in Transports
    /\ mpc = "menu"
    /\ n = 0
    /\ retries = 0
    /\ up = <<>>
    /\ down = <<>>
    /\ result = [req |-> 0, code |-> 0, answer |-> NoAnswer]

Next ==
    \/ SendOrder \/ SendCommand \/ Timeout \/ Readable \/ RecvFrom \/ Recv
    \/ Receiver \/ Serve \/ Lose

\* The server keeps serving, the receiver thread keeps reading, the menu
\* thread's calls return (the timeouts fire).  The user need not act and
\* the network need not lose anything.
Spec ==
    /\ Init /\ [][Next]_vars
    /\ WF_vars(Serve) /\ WF_vars(Receiver)
    /\ WF_vars(Timeout) /\ WF_vars(Readable) /\ WF_vars(RecvFrom) /\ WF_vars(Recv)

(***************************************************************************)
(* Properties.                                                             *)
(***************************************************************************)
Msg == [req : 0..MaxRequests, kind : {"order", "cmd", "ack", "more", "reply", "none"}]

\* Every message is one of a request the menu sent, and the retry counter
\* of client_communicate never passes MAX_RETRIES + 1, the value that
\* ends its loop.
TypeOK ==
    /\ proto \in Transports
    /\ mpc \in {"menu", "wait", "recv", "off"}
    /\ n \in 0..MaxRequests
    /\ retries \in 0..MAX_RETRIES + 1
    /\ up \in Seq(Msg) /\ down \in Seq(Msg)
    /\ result \in [req : 0..MaxRequests, code : {-1, 0, 1}, answer : Msg]

\* client_communicate returns: whatever the server and the receiver thread
\* do, the menu thread is never stuck waiting for an answer.
CommunicateReturns == mpc \in {"wait", "recv"} ~> mpc \in {"menu", "off"}

\* When client_communicate returns 0, the response it prints is one the
\* server sent for the order it just sent (its acknowledgement or a later
\* message about it), not a leftover of an earlier request.
ResponseMatchesOrder ==
    result.code = 0 /\ result.req > 0 => result.answer.req = result.req

=============================================================================
