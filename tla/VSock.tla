------------------------------- MODULE VSock -------------------------------
(***************************************************************************)
(* Stream sockets of the vsock kernel module (modules/linux/vsock/linux:    *)
(* af_vsock.c, util.c): a listening socket, the sockets that connect to it   *)
(* and the child sockets the listener creates for them.                      *)
(*                                                                          *)
(* connect() sends REQUEST; the listener creates a pending child and answers *)
(* NEGOTIATE; the client creates a queue pair and sends OFFER; the child     *)
(* attaches to it, answers ATTACH and moves to the accept queue.  A packet   *)
(* that arrives (RecvStreamCB) only finds its socket and schedules a work    *)
(* item, which handles it later, under the socket's lock; a step is such a   *)
(* critical section.  VMCI's events do not wait for that lock, so the two    *)
(* handlers that make queue pairs are split where an event may come between  *)
(* (`half').  Packets and work items are unordered, and packets may be lost.  *)
(***************************************************************************)
EXTENDS Integers, Sequences, SequencesExt, Bags, BagsExt, FiniteSets

CONSTANTS
    Clients,          \* the sockets that connect
    Children,         \* memory for child sockets, each used once
    Listener,         \* the listening socket
    MaxBacklog,       \* sk_max_ack_backlog, from listen()
    MaxConnects,      \* bound: calls of connect() that start an attempt or renew its timeout
    ShutdownConnects, \* bound: shutdown() is called up to this attempt
    MaxExtras         \* bound: failures, and calls that are not needed for a connection

VARIABLES
    sk,             \* struct sock and VSockVmciSock of each socket
    refs,           \* sk_refcnt; a socket whose count reaches zero is freed
    user,           \* the sockets with an open file
    closing,        \* the sockets whose file is being closed
    nonblocking,    \* the clients that have called connect() with O_NONBLOCK
    sock,           \* state of struct socket
    call,           \* the clients with a thread asleep in connect()
    attempts,       \* calls of connect() so far, see MaxConnects
    pendingLinks,   \* the listener's list of pending children
    acceptQueue,    \* the listener's queue of connected children
    backlog,        \* sk_ack_backlog
    net,            \* bag of packets on their way
    works,          \* bag of scheduled VSockVmciRecvPktWork items
    dwork,          \* how often the delayed work of each socket is scheduled
    forgotten,      \* clients with a delayed work that will never run, see ConnectTimeout
    half,           \* queue pair of a handler that is between two of its steps
    events,         \* sockets with a detach event on its way
    missed,         \* sockets whose detach event came before their qpHandle
    extras,         \* extras so far, see Extra
    oops            \* a handler dereferenced NULL: the kernel stops

socks == <<sk, refs, events>>
files == <<user, closing, nonblocking, sock, call, attempts>>
lists == <<pendingLinks, acceptQueue, backlog>>
packets == <<net, works>>
delayed == <<dwork, forgotten>>
vars == <<sk, refs, user, closing, nonblocking, sock, call, attempts, pendingLinks, acceptQueue,
          backlog, net, works, dwork, forgotten, half, events, missed, extras, oops>>

ASSUME VSockAssumption ==
    /\ Listener \notin Clients \cup Children /\ Clients \cap Children = {}
    /\ IsFiniteSet(Clients) /\ IsFiniteSet(Children)
    /\ Cardinality(Children) >= MaxConnects * Cardinality(Clients)
    /\ MaxBacklog \in Nat /\ MaxConnects \in Nat /\ ShutdownConnects \in Nat /\ MaxExtras \in Nat

Socks == Clients \cup Children \cup {Listener}
NoQP == <<>>

\* __VSockVmciCreate; sockets of user processes are in the bound table, which is a reference.
NewSock(state, bound) ==
    [state |-> state, err |-> FALSE, shut |-> FALSE, peerShut |-> FALSE, bound |-> bound,
     conn |-> 0, qp |-> NoQP, peer |-> Listener, rejected |-> FALSE]

Count(cond) == IF cond THEN 1 ELSE 0

\* The listener may keep the error of a connect() that failed before listen().
Init ==
    /\ \E e \in IF MaxExtras = 0 THEN {FALSE} ELSE BOOLEAN :
         /\ extras = Count(e)
         /\ sk = [s \in Socks |->
                    CASE s = Listener -> [NewSock("LISTEN", TRUE) EXCEPT !.err = e]
                      [] s \in Clients -> NewSock("FREE", TRUE)
                      [] OTHER -> NewSock("UNUSED", FALSE)]
    /\ refs = [s \in Socks |-> IF s \in Children THEN 0 ELSE 2]
    /\ user = Clients \cup {Listener} /\ closing = {} /\ nonblocking = {} /\ call = {}
    /\ sock = [s \in Socks |-> "UNCONNECTED"]
    /\ attempts = [c \in Clients |-> 0]
    /\ pendingLinks = <<>> /\ acceptQueue = <<>> /\ backlog = 0
    /\ net = EmptyBag /\ works = EmptyBag
    /\ dwork = [s \in Socks |-> 0] /\ forgotten = {} /\ half = [s \in Socks |-> NoQP]
    /\ events = {} /\ missed = {}
    /\ oops = FALSE

-----------------------------------------------------------------------------
(* References, locks and packets.                                           *)

Live(s) == refs[s] > 0

\* lock_sock is held across the two halves of a handler; a child's handler holds the listener too.
Locked(s) == \/ half[s] # NoQP
             \/ s = Listener /\ \E p \in Children : half[p] # NoQP

\* The queue pair s is attached to, whether it has recorded the handle or not.
Attached(s) == IF half[s] # NoQP THEN half[s] ELSE sk[s].qp

\* Mutant of Told: the other end is not told of the detach.
ToldNobody(dropped) == {}

\* Detaching from a queue pair, which VMCI tells whoever else is attached to it.
Told(dropped) ==
    {s \in Socks : Attached(s) # NoQP /\ \E t \in dropped \ {s} : Attached(t) = Attached(s)}

\* A freed socket has no contents; that a table still leads to it is not one of them.
Freed(struct) == [NewSock("FREED", struct.bound) EXCEPT !.conn = struct.conn]

\* sock_put and sock_hold: VSockVmciSkDestruct runs when the count reaches zero.  It
\* unsubscribes from events and detaches.  A socket put once too often keeps the contents
\* that tell why.
SetSocks(structs, counts) ==
    LET dropped == {s \in Socks : Live(s) /\ counts[s] <= 0}
    IN /\ sk' = IF dropped = {} THEN structs
                ELSE [s \in Socks |-> IF s \in dropped /\ counts[s] = 0 THEN Freed(structs[s])
                                      ELSE structs[s]]
       /\ refs' = counts
       /\ events' = IF dropped = {} THEN events ELSE {s \in events \cup Told(dropped) : counts[s] > 0}

Add(f, s, n) == [f EXCEPT ![s] = @ + n]

\* A packet lost, a send or an allocation that fails, a resume, an earlier failed connect() of
\* the listener; and shutdown(), O_NONBLOCK and close() of the listener.
Extra == extras < MaxExtras /\ extras' = extras + 1

ToServer(type, c, q) == [to |-> "server", type |-> type, c |-> c, qp |-> q]
ToClient(type, c, q) == [to |-> "client", type |-> type, c |-> c, qp |-> q]

\* Mutant of WithReset: a RST is answered as well.
WithResetAlways(bag, pkt) ==
    BagAdd(bag, [to |-> IF pkt.to = "client" THEN "server" ELSE "client",
                 type |-> "RST", c |-> pkt.c, qp |-> NoQP])

\* VSOCK_SEND_RESET, VSOCK_REPLY_RESET: a RST is never answered with a RST.
WithReset(bag, pkt) ==
    IF pkt.type = "RST" THEN bag
    ELSE BagAdd(bag, [to |-> IF pkt.to = "client" THEN "server" ELSE "client",
                      type |-> "RST", c |-> pkt.c, qp |-> NoQP])

\* The end of VSockVmciRecvPktWork, which drops the reference of the item.
Done(w) == works' = BagRemove(works, w)

-----------------------------------------------------------------------------
(* System calls of the client.                                              *)

\* A client's use of O_NONBLOCK is one extra, in however many calls.
UsesNonblock(c) ==
    /\ nonblocking' = nonblocking \cup {c}
    /\ IF c \in nonblocking THEN UNCHANGED extras ELSE Extra

\* A connect() that does not wait holds the socket, initialises its delayed work, whether that
\* is scheduled or not, and schedules it.
ScheduleTimeout(c) == dwork' = Add(dwork, c, 1) /\ refs' = Add(refs, c, 1)

\* Mutant of ConnectFails: only the file goes back to unconnected.
ConnectFailsSocketOnly(c) == sock' = [sock EXCEPT ![c] = "UNCONNECTED"] /\ UNCHANGED sk

\* Where connect() returns an error: outWaitError.
ConnectFails(c) ==
    /\ sk' = [sk EXCEPT ![c].state = "UNCONNECTED"]
    /\ sock' = [sock EXCEPT ![c] = "UNCONNECTED"]

\* VSockVmciStreamConnect on an idle socket.  An error left by an earlier attempt is
\* returned at once, after the request has been sent.  Without O_NONBLOCK the caller waits.
Connect(c) ==
    /\ c \in user \ call /\ ~Locked(c) /\ sock[c] = "UNCONNECTED"
    /\ attempts[c] < MaxConnects
    /\ attempts' = [attempts EXCEPT ![c] = @ + 1]
    /\ \/ /\ Extra
          /\ sk' = [sk EXCEPT ![c].state = "UNCONNECTED"]
          /\ UNCHANGED <<refs, nonblocking, sock, call, net, dwork>>
       \/ /\ net' = BagAdd(net, ToServer("REQUEST", c, NoQP))
          /\ \/ /\ sk[c].err /\ ConnectFails(c)
                /\ UNCHANGED <<refs, nonblocking, call, dwork, extras>>
             \/ /\ ~sk[c].err
                /\ sk' = [sk EXCEPT ![c].state = "CONNECTING"]
                /\ sock' = [sock EXCEPT ![c] = "CONNECTING"]
                /\ \/ /\ call' = call \cup {c}
                      /\ UNCHANGED <<refs, nonblocking, dwork, extras>>
                   \/ /\ UsesNonblock(c) /\ ScheduleTimeout(c)
                      /\ UNCHANGED call
    /\ UNCHANGED <<events, user, closing, works, lists, forgotten, half, missed, oops>>

\* VSockVmciStreamConnect while an attempt is in progress: the call waits for its end, or with
\* O_NONBLOCK gets EALREADY and schedules one more timeout, or the error of the attempt.
ConnectAgain(c) ==
    /\ c \in user \ call /\ ~Locked(c) /\ sock[c] = "CONNECTING"
    /\ \/ /\ call' = call \cup {c}
          /\ UNCHANGED <<sk, refs, sock, attempts, dwork>>
       \/ /\ ~sk[c].err /\ attempts[c] < MaxConnects
          /\ attempts' = [attempts EXCEPT ![c] = @ + 1]
          /\ ScheduleTimeout(c)
          /\ UNCHANGED <<sk, sock, call>>
       \/ /\ sk[c].err /\ ConnectFails(c)
          /\ UNCHANGED <<refs, attempts, call, dwork>>
    /\ UNCHANGED <<events, user, closing, nonblocking, lists, packets, forgotten, half, missed,
                   extras, oops>>

\* The loop of VSockVmciStreamConnect ends, or the sleep is cut short by the timeout or a
\* signal, which are looked at before the socket's state.
ConnectReturns(c) ==
    /\ c \in call /\ ~Locked(c)
    /\ call' = call \ {c}
    /\ \/ sk[c].state = "CONNECTED" /\ ~sk[c].err /\ UNCHANGED <<sk, sock>>
       \/ ConnectFails(c)
    /\ UNCHANGED <<refs, events, user, closing, nonblocking, attempts, lists, packets, delayed,
                   half, missed, extras, oops>>

\* Mutant of TimedOut: the error is set and the state is not.
TimedOutErrOnly(c) == [sk[c] EXCEPT !.err = TRUE]

TimedOut(c) == [sk[c] EXCEPT !.state = "UNCONNECTED", !.err = TRUE]

\* VSockVmciConnectTimeout, the delayed work of a connect() that did not wait.  What becomes of
\* one that was initialised while it was scheduled is undefined: it runs twice, as it does when
\* it had begun already, or once, and the other reference stays.  (Or the kernel stops over the
\* damaged list of timers, of which there is nothing to say.)
ConnectTimeout(c) ==
    /\ dwork[c] > 0 /\ ~Locked(c)
    /\ \/ dwork' = Add(dwork, c, -1) /\ UNCHANGED forgotten
       \/ /\ dwork[c] > 1 /\ dwork' = [dwork EXCEPT ![c] = 0]
          /\ forgotten' = forgotten \cup {c}
    /\ SetSocks(IF sk[c].state = "CONNECTING" /\ ~sk[c].shut
                THEN [sk EXCEPT ![c] = TimedOut(c)] ELSE sk,
                Add(refs, c, -1))
    /\ UNCHANGED <<files, lists, packets, half, missed, extras, oops>>

-----------------------------------------------------------------------------
(* System calls of both ends.                                               *)

\* VSockVmciShutdown with SHUT_RDWR, by the thread that also connects: not during its connect().
Shutdown(s) ==
    /\ s \in user \ ({Listener} \cup call) /\ ~Locked(s) /\ sock[s] # "UNCONNECTED" /\ ~sk[s].shut
    /\ \A c \in Clients : attempts[c] <= ShutdownConnects
    /\ Extra
    /\ sock' = [sock EXCEPT ![s] = "DISCONNECTING"]
    /\ sk' = [sk EXCEPT ![s].shut = TRUE]
    /\ net' = BagAdd(net, IF s \in Clients THEN ToServer("SHUTDOWN", s, NoQP)
                          ELSE ToClient("SHUTDOWN", sk[s].peer, NoQP))
    /\ UNCHANGED <<refs, events, user, closing, nonblocking, call, attempts, works, lists, delayed,
                   half, missed, oops>>

\* VSockVmciStreamRecvmsg takes the last data after the peer has shut down.
RecvLast(s) ==
    /\ s \in user /\ ~Locked(s) /\ sk[s].state = "CONNECTED" /\ sk[s].peerShut /\ ~sk[s].shut
    /\ sk' = [sk EXCEPT ![s].state = "UNCONNECTED"]
    /\ UNCHANGED <<refs, events, files, lists, packets, delayed, half, missed, extras, oops>>

\* __VSockVmciRelease takes a socket out of both tables, and later orphans it.
OutOfTables(s) == [sk[s] EXCEPT !.bound = FALSE, !.conn = IF @ > 0 THEN @ - 1 ELSE 0]

\* Mutant of TableRefs: the reference of the connected table is forgotten.
TableRefsUnconnected(s) == IF sk[s].bound THEN 1 ELSE 0

TableRefs(s) == (IF sk[s].bound THEN 1 ELSE 0) + (IF sk[s].conn > 0 THEN 1 ELSE 0)

\* VSockVmciRelease of a client or of the listener: the tables are left before the socket is
\* locked, and a handler may still be in progress.
Close(s) ==
    /\ s \in (user \ Children) \ call
    /\ IF s = Listener THEN Extra ELSE UNCHANGED extras
    /\ SetSocks([sk EXCEPT ![s] = OutOfTables(s)], Add(refs, s, -TableRefs(s)))
    /\ user' = user \ {s} /\ closing' = closing \cup {s}
    /\ UNCHANGED <<nonblocking, sock, call, attempts, lists, packets, delayed, half, missed, oops>>

Released(s) == [OutOfTables(s) EXCEPT !.shut = TRUE]

\* The rest of __VSockVmciRelease, locked, and of VSockVmciRelease.  sk_state is left as it is.
\* The children in the listener's accept queue are released as well, each with the reference of
\* the queue and that of the queue's entry on the listener; pending children are left to their
\* delayed work.
Orphan(s) ==
    /\ s \in closing /\ ~Locked(s)
    /\ LET queued == IF s = Listener THEN acceptQueue ELSE <<>>
       IN /\ SetSocks([t \in Socks |-> CASE t = s -> [sk[t] EXCEPT !.shut = TRUE]
                                         [] Contains(queued, t) -> Released(t)
                                         [] OTHER -> sk[t]],
                      [t \in Socks |-> CASE t = s -> refs[t] - 1 - Len(queued)
                                         [] Contains(queued, t) -> refs[t] - TableRefs(t) - 2
                                         [] OTHER -> refs[t]])
          /\ acceptQueue' = IF s = Listener THEN <<>> ELSE acceptQueue
    /\ sock' = [sock EXCEPT ![s] = "FREE"]
    /\ closing' = closing \ {s}
    /\ UNCHANGED <<user, nonblocking, call, attempts, pendingLinks, backlog, packets, delayed, half,
                   missed, extras, oops>>

\* VSockVmciRelease of an accepted child, whose handlers leave the tables alone: one step.
CloseChild(p) ==
    /\ p \in user \cap Children /\ ~Locked(p)
    /\ SetSocks([sk EXCEPT ![p] = Released(p)], Add(refs, p, -TableRefs(p) - 1))
    /\ sock' = [sock EXCEPT ![p] = "FREE"]
    /\ user' = user \ {p}
    /\ UNCHANGED <<closing, nonblocking, call, attempts, lists, packets, delayed, half, missed,
                   extras, oops>>

\* VSockVmciAccept with a child in the queue (it waits otherwise): VSockVmciDequeueAccept,
\* then the child goes to the caller, or is rejected when the listener has an error.
Accept ==
    /\ Listener \in user /\ ~Locked(Listener) /\ acceptQueue # <<>>
    /\ LET p == Head(acceptQueue)
       IN /\ \/ /\ sk[Listener].err
                /\ UNCHANGED <<user, sock>>
             \/ /\ ~sk[Listener].err
                /\ user' = user \cup {p}
                /\ sock' = [sock EXCEPT ![p] = "CONNECTED"]
          /\ SetSocks([sk EXCEPT ![p].rejected = sk[Listener].err],
                      Add(Add(refs, p, -1), Listener, -1))
    /\ acceptQueue' = Tail(acceptQueue)
    /\ backlog' = backlog - 1
    /\ UNCHANGED <<closing, nonblocking, call, attempts, pendingLinks, packets, delayed,
                   half, missed, extras, oops>>

-----------------------------------------------------------------------------
(* Arrival of packets.                                                      *)

\* VSockVmciFindConnectedSocket, then VSockVmciFindBoundSocket.
SocketsFor(m) ==
    LET connected == {s \in Socks : /\ sk[s].conn > 0
                                    /\ IF m.to = "client" THEN s = m.c
                                       ELSE s \in Children /\ sk[s].peer = m.c}
        bound == {s \in Socks : sk[s].bound /\ s = IF m.to = "client" THEN m.c ELSE Listener}
    IN IF connected # {} THEN connected ELSE bound

\* Mutant of ItemRefs: no sock_hold for the work item.
ItemRefsNone == 0

\* The reference a scheduled item has on its socket.
ItemRefs == 1

\* VSockVmciRecvStreamCB: schedule an item for the socket, or answer that there is none.
RecvStreamCB(m) ==
    /\ m \in BagToSet(net)
    /\ LET found == SocketsFor(m)
       IN \/ /\ found = {}
             /\ net' = WithReset(BagRemove(net, m), m)
             /\ UNCHANGED <<socks, works>>
          \/ \E s \in found :
                /\ net' = BagRemove(net, m)
                /\ works' = BagAdd(works, [sk |-> s, pkt |-> m])
                /\ SetSocks(sk, Add(refs, s, ItemRefs))
    /\ UNCHANGED <<files, lists, delayed, half, missed, extras, oops>>

\* VSockVmciRecvStreamCB without memory: for the reference to be dropped (the packet is
\* lost), or for the item (it is answered with a RST).
RecvNoMem(m) ==
    /\ m \in BagToSet(net)
    /\ Extra
    /\ net' \in {BagRemove(net, m), WithReset(BagRemove(net, m), m)}
    /\ UNCHANGED <<socks, files, lists, works, delayed, half, missed, oops>>

-----------------------------------------------------------------------------
(* VSockVmciRecvPktWork on a client or a connected child.                   *)

\* VSockVmciRecvConnected: a RST counts as a shutdown while there is data to read; what
\* is no packet of this state is ignored.
RecvConnected(w) ==
    /\ sk[w.sk].state = "CONNECTED"
    /\ \E hasData \in IF w.pkt.type = "RST" THEN BOOLEAN ELSE {TRUE} :
         SetSocks([sk EXCEPT ![w.sk].peerShut = @ \/ w.pkt.type \in {"SHUTDOWN", "RST"},
                             ![w.sk].state = IF hasData THEN @ ELSE "DISCONNECTING"],
                  Add(refs, w.sk, -1))
    /\ UNCHANGED <<sock, net, half, extras, oops>>

\* The default of VSockVmciRecvPktWork: the socket is in no state to take a packet.
RecvOther(w) ==
    /\ sk[w.sk].state \notin {"CONNECTING", "CONNECTED"}
    /\ net' = WithReset(net, w.pkt)
    /\ SetSocks(sk, Add(refs, w.sk, -1))
    /\ UNCHANGED <<sock, half, extras, oops>>

\* VSockVmciRecvConnectingClient: destroy.
ClientDestroy(w) ==
    /\ SetSocks([sk EXCEPT ![w.sk].state = "UNCONNECTED", ![w.sk].err = TRUE], Add(refs, w.sk, -1))
    /\ net' = WithReset(net, w.pkt)
    /\ UNCHANGED <<sock, half, oops>>

\* Mutant of MayNegotiate: what an earlier attempt left is not looked at.
MayNegotiateAlways(c) == TRUE

\* A NEGOTIATE is taken once: nothing of an earlier queue pair may be left.
MayNegotiate(c) == sk[c].qp = NoQP

\* A new handle: queue pairs are told apart by the client and those it had before.
NewQP(c) == <<c, IF sk[c].qp = NoQP THEN 1 ELSE sk[c].qp[2] + 1>>

\* VSockVmciRecvConnectingClientNegotiate: subscribe, make the queue pair and offer it.
ClientNegotiate(w) ==
    LET q == NewQP(w.sk)
    IN /\ half' = [half EXCEPT ![w.sk] = q]
       /\ net' = BagAdd(net, ToServer("OFFER", w.sk, q))
       /\ UNCHANGED <<socks, sock, extras, oops>>

\* VSockVmciRecvConnectingClient: ATTACH completes the connection; sk_socket is NULL when
\* the socket has been closed meanwhile.
ClientAttached(w) ==
    /\ sk' = [sk EXCEPT ![w.sk].state = "CONNECTED", ![w.sk].conn = @ + 1]
    /\ sock' = [sock EXCEPT ![w.sk] = "CONNECTED"]
    /\ oops' = (w.sk \notin user \cup closing)
    /\ UNCHANGED <<refs, events, net, half, extras>>

\* VSockVmciRecvConnectingClient.
RecvConnectingClient(w) ==
    /\ sk[w.sk].state = "CONNECTING" /\ w.sk \in Clients
    /\ \/ /\ w.pkt.type = "ATTACH" /\ w.pkt.qp = sk[w.sk].qp
          /\ ClientAttached(w)
       \/ /\ w.pkt.type = "NEGOTIATE" /\ MayNegotiate(w.sk)
          /\ ClientNegotiate(w) \/ (Extra /\ ClientDestroy(w))
       \/ /\ \/ w.pkt.type = "ATTACH" /\ w.pkt.qp # sk[w.sk].qp
             \/ w.pkt.type = "NEGOTIATE" /\ ~MayNegotiate(w.sk)
             \/ w.pkt.type \notin {"ATTACH", "NEGOTIATE"}
          /\ ClientDestroy(w)
          /\ UNCHANGED extras

RecvPktWork(w) ==
    /\ w \in BagToSet(works) /\ w.sk # Listener /\ ~Locked(w.sk)
    /\ Done(w)
    /\ RecvConnected(w) \/ RecvOther(w) \/ RecvConnectingClient(w)
    /\ UNCHANGED <<user, closing, nonblocking, call, attempts, lists, delayed, missed>>

\* The end of VSockVmciRecvConnectingClientNegotiate: the handle is recorded.
ClientRecord(c) ==
    /\ half[c] # NoQP
    /\ SetSocks([sk EXCEPT ![c].qp = half[c]], Add(refs, c, -1))
    /\ half' = [half EXCEPT ![c] = NoQP]
    /\ UNCHANGED <<files, lists, packets, delayed, missed, extras, oops>>

-----------------------------------------------------------------------------
(* VSockVmciRecvPktWork on the listener: VSockVmciRecvListen.  Its sk_state   *)
(* stays SS_LISTEN, also after it has been closed.                           *)

\* VSockVmciGetPending: the first pending child of the sender.
GetPending(c) == {p \in Children : \E i \in DOMAIN pendingLinks :
                     /\ pendingLinks[i] = p /\ sk[p].peer = c
                     /\ \A j \in 1 .. i - 1 : sk[pendingLinks[j]].peer # c}

\* VSockVmciRecvConnectingServer: destroy, and VSockVmciRemovePending by the caller when
\* the handler failed.  A RST is no failure: the child stays in the list.
ServerDestroy(p, remove) ==
    /\ SetSocks([sk EXCEPT ![p].state = "UNCONNECTED", ![p].err = TRUE],
                IF remove THEN Add(Add(refs, p, -2), Listener, -2)
                ELSE Add(Add(refs, p, -1), Listener, -1))
    /\ pendingLinks' = IF remove THEN Remove(pendingLinks, p) ELSE pendingLinks
    /\ UNCHANGED <<acceptQueue, backlog, dwork>>

\* vmci_qpair_alloc with ATTACH_ONLY: the creator must still be attached.
CanAttach(q) == Live(q[1]) /\ Attached(q[1]) = q

\* VSockVmciRecvConnectingServer up to the attach; the locks stay held.
ServerAttach(p, q) ==
    /\ half' = [half EXCEPT ![p] = q]
    /\ SetSocks(sk, Add(refs, p, 1))
    /\ UNCHANGED <<lists, net, dwork, extras>>

RecvConnectingServer(w, p) ==
    \/ /\ w.pkt.type = "OFFER" /\ CanAttach(w.pkt.qp)
       /\ ServerAttach(p, w.pkt.qp)
    \/ /\ w.pkt.type = "OFFER"
       /\ IF CanAttach(w.pkt.qp) THEN Extra ELSE UNCHANGED extras
       /\ ServerDestroy(p, TRUE)
       /\ net' = WithReset(net, w.pkt)
       /\ UNCHANGED half
    \/ /\ w.pkt.type # "OFFER"
       /\ ServerDestroy(p, w.pkt.type # "RST")
       /\ net' = WithReset(net, w.pkt)
       /\ UNCHANGED <<half, extras>>

\* VSockVmciRecvListen on a child that is no longer connecting.
RecvStalePending(w, p) ==
    /\ pendingLinks' = Remove(pendingLinks, p)
    /\ SetSocks(sk, Add(Add(refs, p, -1), Listener, -2))
    /\ net' = WithReset(net, w.pkt)
    /\ UNCHANGED <<acceptQueue, backlog, dwork, half, extras>>

\* The children not allocated yet; which of them is taken makes no difference.
Unused == {p \in Children : sk[p].state = "UNUSED"}

\* Mutant of BacklogFull: off by one.
BacklogFullLate == backlog > MaxBacklog

BacklogFull == backlog >= MaxBacklog

\* The references of a new child: its own, the pending list's and the delayed work's; the
\* last two also hold the listener.
NewChildRefs(p) == Add([refs EXCEPT ![p] = 3], Listener, 1)

\* VSockVmciRecvListen: a new child, its NEGOTIATE and its delayed work.
NewPending(c, p) ==
    /\ SetSocks([sk EXCEPT ![p] = [NewSock("CONNECTING", FALSE) EXCEPT !.peer = c]], NewChildRefs(p))
    /\ pendingLinks' = Append(pendingLinks, p)
    /\ backlog' = backlog + 1
    /\ dwork' = Add(dwork, p, 1)
    /\ net' = BagAdd(net, ToClient("NEGOTIATE", c, NoQP))
    /\ UNCHANGED <<acceptQueue, half, extras>>

\* Without memory, or when NEGOTIATE cannot be sent, nothing is answered: the RST goes to
\* the address of the listener's peer, which it does not have.
RefuseSilently ==
    /\ Extra
    /\ SetSocks(sk, Add(refs, Listener, -1))
    /\ UNCHANGED <<lists, net, dwork, half>>

Refuse(w) ==
    /\ net' = WithReset(net, w.pkt)
    /\ SetSocks(sk, Add(refs, Listener, -1))
    /\ UNCHANGED <<lists, dwork, half, extras>>

RecvListen(w) ==
    /\ w \in BagToSet(works) /\ w.sk = Listener /\ ~Locked(Listener)
    /\ Done(w)
    /\ LET c == w.pkt.c
       IN \/ \E p \in GetPending(c) :
                \/ sk[p].state = "CONNECTING" /\ RecvConnectingServer(w, p)
                \/ sk[p].state # "CONNECTING" /\ RecvStalePending(w, p)
          \/ /\ GetPending(c) = {}
             /\ \/ (w.pkt.type # "REQUEST" \/ BacklogFull) /\ Refuse(w)
                \/ /\ w.pkt.type = "REQUEST" /\ ~BacklogFull
                   /\ RefuseSilently \/ NewPending(c, CHOOSE p \in Unused : TRUE)
    /\ UNCHANGED <<files, forgotten, missed, oops>>

\* VSockVmciRecvConnectingServer records the handle.
ServerRecord(p) ==
    /\ half[p] # NoQP /\ sk[p].qp = NoQP
    /\ sk' = [sk EXCEPT ![p].qp = half[p]]
    /\ UNCHANGED <<refs, events, files, lists, packets, delayed, half, missed, extras, oops>>

\* The end of VSockVmciRecvConnectingServer and of the work item: connected, in the connected
\* table and from the pending list to the accept queue; or out of both when ATTACH
\* cannot be sent.
ServerConnected(p) ==
    /\ half[p] # NoQP /\ sk[p].qp = half[p]
    /\ half' = [half EXCEPT ![p] = NoQP]
    /\ pendingLinks' = Remove(pendingLinks, p)
    /\ \/ /\ SetSocks([sk EXCEPT ![p].state = "CONNECTED", ![p].conn = @ + 1], Add(refs, Listener, -1))
          /\ acceptQueue' = Append(acceptQueue, p)
          /\ net' = BagAdd(net, ToClient("ATTACH", sk[p].peer, half[p]))
          /\ UNCHANGED extras
       \/ /\ Extra
          /\ SetSocks([sk EXCEPT ![p].state = "UNCONNECTED", ![p].err = TRUE],
                      Add(Add(refs, p, -3), Listener, -2))
          /\ net' = BagAdd(net, ToClient("RST", sk[p].peer, NoQP))
          /\ UNCHANGED acceptQueue
    /\ UNCHANGED <<files, backlog, works, delayed, missed, oops>>

-----------------------------------------------------------------------------
(* Delayed work and events.                                                 *)

\* VSockVmciPendingWork: release a child that is still pending, or was rejected.
PendingWork(p) ==
    /\ dwork[p] > 0 /\ dwork' = Add(dwork, p, -1) /\ UNCHANGED forgotten
    /\ ~Locked(Listener)
    /\ LET pending == Contains(pendingLinks, p)
           cleanup == pending \/ sk[p].rejected
           listed == IF pending THEN 1 ELSE 0
           connected == IF sk[p].conn > 0 THEN 1 ELSE 0
       IN /\ pendingLinks' = Remove(pendingLinks, p)
          /\ IF cleanup
             THEN /\ backlog' = backlog - 1
                  /\ SetSocks([sk EXCEPT ![p].state = "FREE", ![p].conn = @ - connected],
                              Add(Add(refs, p, -(listed + connected + 2)), Listener, -(listed + 1)))
             ELSE /\ SetSocks(sk, Add(Add(refs, p, -1), Listener, -1))
                  /\ UNCHANGED backlog
    /\ UNCHANGED <<files, acceptQueue, packets, half, missed, extras, oops>>

\* VSockVmciHandleDetach; a connection that was not complete counts as reset.
Detached(s, hasData) ==
    [sk[s] EXCEPT !.peerShut = TRUE,
                  !.state = IF hasData THEN @ ELSE "UNCONNECTED",
                  !.err = @ \/ (~hasData /\ sk[s].state = "CONNECTING")]

\* A peer writes only once it is connected, which a pending child's peer is not.
MayHaveData(s) == IF s \in Children /\ sk[s].state = "CONNECTING" THEN {FALSE} ELSE BOOLEAN

\* VSockVmciPeerDetachCB: the event is for the queue pair the socket has recorded, or for none.
PeerDetachCB(s) ==
    /\ s \in events
    /\ events' = events \ {s}
    /\ \/ /\ sk[s].qp # NoQP
          /\ \E hasData \in MayHaveData(s) : sk' = [sk EXCEPT ![s] = Detached(s, hasData)]
          /\ UNCHANGED missed
       \/ /\ sk[s].qp = NoQP
          /\ missed' = missed \cup {s}
          /\ UNCHANGED sk
    /\ UNCHANGED <<refs, files, lists, packets, delayed, half, extras, oops>>

\* VSockVmciQPResumedCB: after a resume all connected sockets of the machine are detached.
QPResumedCB(machine) ==
    LET here == {s \in machine : sk[s].conn > 0 /\ sk[s].qp # NoQP}
    IN /\ here # {} /\ Extra
       /\ \E withData \in SUBSET here :
            sk' = [s \in Socks |-> IF s \in here THEN Detached(s, s \in withData) ELSE sk[s]]
       /\ UNCHANGED <<refs, events, files, lists, packets, delayed, half, missed, oops>>

-----------------------------------------------------------------------------
UserStep ==
    \/ \E c \in Clients : Connect(c) \/ ConnectAgain(c)
    \/ \E s \in Clients \cup Children : Shutdown(s) \/ RecvLast(s)
    \/ \E p \in Children : CloseChild(p)
    \/ \E s \in Clients \cup {Listener} : Close(s)
    \/ Accept

KernelStep ==
    \/ \E m \in BagToSet(net) : RecvStreamCB(m)
    \/ \E c \in Clients : ConnectReturns(c) \/ ConnectTimeout(c) \/ ClientRecord(c)
    \/ \E s \in closing : Orphan(s)
    \/ \E p \in Children : PendingWork(p) \/ ServerRecord(p) \/ ServerConnected(p)
    \/ \E w \in BagToSet(works) : RecvPktWork(w) \/ RecvListen(w)
    \/ \E s \in events : PeerDetachCB(s)

Misfortune ==
    \/ \E m \in BagToSet(net) : RecvNoMem(m)
    \/ QPResumedCB(Clients) \/ QPResumedCB(Children)

Next == ~oops /\ (UserStep \/ KernelStep \/ Misfortune)

Spec == Init /\ [][Next]_vars
FairSpec == Spec /\ WF_vars(~oops /\ KernelStep)

-----------------------------------------------------------------------------
Listed(s) == Contains(pendingLinks, s) \/ Contains(acceptQueue, s)

\* What still leads to a socket: its file, the two tables, a list of the listener, work
\* items, a delayed work and a handler in progress; and, for the listener, its children's
\* entries and delayed works.
Holders(s) ==
    Count(s \in user \cup closing) + Count(sk[s].bound) + sk[s].conn + dwork[s]
    + Count(Listed(s))
    + Cardinality({w \in BagToSet(works) : w.sk = s}) + Count(half[s] # NoQP)
    + IF s # Listener THEN 0
      ELSE Len(pendingLinks) + Len(acceptQueue) + Cardinality({p \in Children : dwork[p] > 0})

\* Whatever leads to a socket (its file, the tables, a list, a work item, a delayed work)
\* has its sock_hold: no sock_put frees a socket that is still to be used.  Except for a child
\* that got a RST while it was pending: VSockVmciRecvConnectingServer puts it and leaves it in the
\* list, and VSockVmciPendingWork puts it once too often.
RefsHeld == \A s \in Socks : refs[s] >= Holders(s) \/ (sk[s].state = "FREE" /\ sk[s].err)

\* sk_ack_backlog counts every child in the pending list or the accept queue, and never passes
\* the limit given to listen(), through refused, timed out, accepted and failed connections.
\* Except when VSockVmciAccept rejects: VSockVmciPendingWork then counts the child down again.
BacklogCovers ==
    \/ sk[Listener].err
    \/ Len(pendingLinks) + Len(acceptQueue) <= backlog /\ backlog <= MaxBacklog

\* VSockVmciPendingWork asserts that a child is in one list at most.  It is there once, and a
\* socket is once in the connected table, which VSockVmciInsertConnected does not check,
\* however attempts, resets and timeouts of connect() interleave.
ListsSound ==
    /\ ToSet(pendingLinks) \cap ToSet(acceptQueue) = {}
    /\ IsInjective(pendingLinks) /\ IsInjective(acceptQueue)
    /\ \A s \in Socks : sk[s].conn <= 1

\* What VSockVmciStreamConnect finds when it is called: with an idle file, a socket it asserts to
\* be free or unconnected, and not one that is still in a handshake; with a file in
\* progress, a socket that is connecting or has the error to report.
ConnectStates ==
    \A c \in Clients :
        /\ sock[c] = "UNCONNECTED" => sk[c].state \in {"FREE", "UNCONNECTED"}
        /\ sock[c] = "CONNECTING" /\ sk[c].state # "CONNECTING" => sk[c].err

\* Nothing is on its way: the kernel has nothing left to do.
AtRest ==
    /\ ~oops
    /\ net = EmptyBag /\ works = EmptyBag /\ call = {} /\ events = {}
    /\ closing = {} /\ \A s \in Socks : half[s] = NoQP /\ dwork[s] = 0

\* Whatever packets are lost, no child stays pending once its delayed work has run and no
\* connect() stays in progress, unless the socket has been shut down, when
\* VSockVmciConnectTimeout does nothing.
NothingPends == AtRest =>
    /\ pendingLinks = <<>>
    /\ \A c \in user \cap Clients : sk[c].state # "CONNECTING" \/ sk[c].shut

\* No half-open connection: once everything has been delivered, a connected socket that has
\* not been told its peer shut down has a peer that is attached to the same queue pair.
\* Except when the detach event came before the socket had recorded its qpHandle.
NoHalfOpen == AtRest => \A s \in Clients \cup Children :
    Live(s) /\ sk[s].state = "CONNECTED" /\ ~sk[s].peerShut /\ s \notin missed
        => \E t \in Socks \ {s} : Live(t) /\ sk[t].qp = sk[s].qp

\* Every socket that no process has is freed in the end, unless it waits in an accept queue.
\* Except a child rejected after its delayed work had run; a client whose ATTACH is handled
\* after __VSockVmciRelease took it out of the tables, as VSockVmciInsertConnected puts it back;
\* and one whose delayed work was initialised again while it was scheduled and ran only once.
NoLeak == AtRest => \A s \in Socks : Live(s) =>
    \/ s \in user \/ Contains(acceptQueue, s) \/ sk[s].rejected
    \/ s = Listener /\ acceptQueue # <<>>
    \/ s \in Clients /\ sk[s].conn > 0
    \/ s \in forgotten

\* The two machines come to rest: resets do not answer resets and the delayed works end.
Settles == <>[](AtRest \/ oops)
=============================================================================
