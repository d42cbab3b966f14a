------------------------------- MODULE Session -------------------------------
(***************************************************************************)
(* src/ewa_base/net (session.cpp, session_tcp.cpp and the worker loop of   *)
(* iocp1.cpp, the build for epoll): a connected TCP session.  Threads put  *)
(* buffers into lkfq_send and requests into lkfq_recv and arm epoll with   *)
(* ep_ctl; one worker fetches the events, moves data between the queues    *)
(* and the socket, and calls the session back.  The socket, epoll (edge-   *)
(* triggered) and the peer are modelled as the code uses them.             *)
(***************************************************************************)
EXTENDS Integers, Sequences, FiniteSets, SequencesExt

CONSTANTS
  Buffers,      \* the buffers, each sent at most once
  Size,         \* the length of each; 0 for ACTION_WAIT_SEND
  Callers,      \* the threads that call AsyncSend and AsyncRecv
  Worker, None,
  Window,       \* how much the socket takes while the peer does not read
  MaxInput      \* bound: how much input is kept in the socket

ASSUME SessionAssumption ==
  /\ None \notin Buffers /\ Worker \notin Callers
  /\ Size \in [Buffers -> Nat]
  /\ Window \in Nat \ {0} /\ MaxInput \in Nat \ {0}

Threads == Callers \cup {Worker}
Flags   == {"in", "out"}            \* EPOLLIN and EPOLLOUT

VARIABLES
  state,        \* "ok" or "disconnect"
  sendq, recvq, \* lkfq_send, and how many requests lkfq_recv holds
  tmp, hand,    \* tmp_send, and the buffer q of HandleSend
  left,         \* how much of each buffer is not sent
  pending,      \* m_nPendingRecv and m_nPendingSend
  mask, listed, \* epoll: the events asked for, and whether it has news
  room, input, fin, \* the socket: free space, unread input, end of input
  pc, flag, new,\* where each thread is, what it arms, the mask it has made
  ret,          \* where it goes on then
  draining,     \* which queue Disconnect empties
  wire, put,    \* what the socket took, unit by unit, and what was put
  refused,      \* the buffers that the socket has refused (EAGAIN)
  crossed       \* another thread had a mask half made when the last was begun

socket  == <<room, input, fin>>
epoll   == <<mask, listed>>
history == <<wire, put, refused, crossed>>
vars == <<state, sendq, recvq, tmp, hand, left, pending, mask, listed, room,
          input, fin, pc, flag, new, ret, draining, wire, put, refused, crossed>>

Init ==
  /\ state = "ok" /\ sendq = <<>> /\ recvq = 0 /\ tmp = None /\ hand = None
  /\ left = Size /\ pending = [f \in Flags |-> 0]
  /\ mask = {} /\ listed = FALSE
  /\ room = Window /\ input = 0 /\ fin = FALSE
  /\ pc = [t \in Threads |-> IF t = Worker THEN "wait" ELSE "idle"]
  /\ flag = [t \in Threads |-> "out"] /\ new = [t \in Threads |-> {}]
  /\ ret = [t \in Threads |-> "idle"]
  /\ draining = "no"
  /\ wire = <<>> /\ put = <<>> /\ refused = {} /\ crossed = FALSE

------------------------------------------------------------------------------
(* epoll, the socket and the peer.                                         *)

Readable == input > 0 \/ fin
Ready    == (IF Readable THEN {"in"} ELSE {}) \cup (IF room > 0 THEN {"out"} ELSE {})
News(f)  == listed' = (listed \/ f \in mask)

(* The peer reads: the socket tells it when there was no room.             *)
Drain ==
  /\ room < Window /\ state = "ok"
  /\ room' = room + 1
  /\ IF room = 0 THEN News("out") ELSE UNCHANGED listed
  /\ UNCHANGED <<state, draining, sendq, recvq, tmp, hand, left, pending, mask, input, fin,
                 pc, flag, new, ret, history>>

Arrive ==
  /\ ~fin /\ state = "ok"
  /\ \/ input < MaxInput /\ input' = input + 1 /\ UNCHANGED fin
     \/ fin' = TRUE /\ UNCHANGED input
  /\ News("in")
  /\ UNCHANGED <<state, draining, sendq, recvq, tmp, hand, left, pending, mask, room,
                 pc, flag, new, ret, history>>

------------------------------------------------------------------------------
(* AsyncSend and AsyncRecv, by a caller or in a callback.                  *)

(* DoAsyncSend(q): putq; the thread then counts the buffer.  The model     *)
(* ends with the connection: nothing is put after Disconnect has returned. *)
Send(t, b, back) ==
  /\ b \notin ToSet(put) /\ (state = "ok" \/ draining # "no")
  /\ sendq' = Append(sendq, b)
  /\ put' = Append(put, b)
  /\ pc' = [pc EXCEPT ![t] = "count"]
  /\ flag' = [flag EXCEPT ![t] = "out"]
  /\ ret' = [ret EXCEPT ![t] = back]
  /\ UNCHANGED <<recvq, new, wire, refused, crossed>>

Recv(t, back) ==
  /\ recvq' = recvq + 1
  /\ pc' = [pc EXCEPT ![t] = "count"]
  /\ flag' = [flag EXCEPT ![t] = "in"]
  /\ ret' = [ret EXCEPT ![t] = back]
  /\ UNCHANGED <<sendq, new, history>>

AsyncSend(t, b) ==
  /\ pc[t] = "idle"
  /\ Send(t, b, "idle")
  /\ UNCHANGED <<state, draining, tmp, hand, left, pending, epoll, socket>>

(* One request at a time, as in the sessions of the library.               *)
AsyncRecv(t) ==
  /\ pc[t] = "idle" /\ recvq = 0 /\ pending["in"] = 0 /\ state = "ok"
  /\ \A u \in Threads : pc[u] \in {"idle", "wait"}
  /\ Recv(t, "idle")
  /\ UNCHANGED <<state, draining, tmp, hand, left, pending, epoll, socket>>

(* What the thread has in hand: where in the call it is, the flag it arms, *)
(* the mask it has made.                                                   *)
Step(t, l, f, m) ==
  /\ pc' = [pc EXCEPT ![t] = l]
  /\ flag' = [flag EXCEPT ![t] = f]
  /\ new' = [new EXCEPT ![t] = m]
  /\ UNCHANGED ret

Return(t) ==
  /\ pc' = [pc EXCEPT ![t] = ret[t]]
  /\ flag' = [flag EXCEPT ![t] = "out"]
  /\ new' = [new EXCEPT ![t] = {}]
  /\ ret' = [ret EXCEPT ![t] = "idle"]

(* Fault: epoll is armed only for a buffer that finds others pending.      *)
MustArmFault(k) == k # 0

MustArm(k) == k = 0

(* m_nPendingSend++==0, m_nPendingRecv++==0.                               *)
Count(t) ==
  /\ pc[t] = "count"
  /\ pending' = [pending EXCEPT ![flag[t]] = @ + 1]
  /\ IF MustArm(pending[flag[t]]) THEN Step(t, "arm", "out", {}) ELSE Return(t)
  /\ UNCHANGED <<state, draining, sendq, recvq, tmp, hand, left, epoll, socket, history>>

(* ep_ctl: the mask is made from the count of sends ...                    *)
Arm(t) ==
  /\ pc[t] = "arm"
  /\ IF state = "ok" THEN Step(t, "look", "out", {f \in {"out"} : pending[f] > 0})
                     ELSE Return(t)
  /\ crossed' = (state = "ok" /\ \E u \in Threads \ {t} : pc[u] \in {"look", "mod"})
  /\ UNCHANGED <<state, draining, sendq, recvq, tmp, hand, left, pending, epoll, socket,
                 wire, put, refused>>

(* ... and from that of receives, read later.                              *)
ArmRecv(t) ==
  /\ pc[t] = "look"
  /\ LET wanted == new[t] \cup {f \in {"in"} : pending[f] > 0}
     IN IF wanted = {} THEN Return(t) ELSE Step(t, "mod", "out", wanted)
  /\ UNCHANGED <<state, draining, sendq, recvq, tmp, hand, left, pending, epoll, socket,
                 history>>

(* EPOLL_CTL_MOD, which looks at the socket anew.                          *)
Modify(t) ==
  /\ pc[t] = "mod"
  /\ mask' = new[t]
  /\ listed' = (listed \/ new[t] \cap Ready # {})
  /\ Return(t)
  /\ UNCHANGED <<state, draining, sendq, recvq, tmp, hand, left, pending, socket, history>>

(* Session::Disconnect, by anyone: a timeout, an error, a hang-up.  The    *)
(* socket is shut down: it takes nothing any more, its input ends, and     *)
(* epoll reports that.                                                     *)
Disconnect ==
  /\ state = "ok"
  /\ state' = "disconnect" /\ draining' = "recv"
  /\ room' = 0 /\ fin' = TRUE /\ listed' = TRUE
  /\ UNCHANGED <<sendq, recvq, tmp, hand, left, pending, mask, input, pc, flag, new, ret,
                 history>>

(* It goes on to empty the queues, one getq and -- at a time.              *)
DrainRecv ==
  /\ draining = "recv"
  /\ IF recvq > 0
     THEN recvq' = recvq - 1 /\ pending' = [pending EXCEPT !["in"] = @ - 1] /\ UNCHANGED draining
     ELSE draining' = "send" /\ UNCHANGED <<recvq, pending>>
  /\ UNCHANGED <<state, sendq, tmp, hand, left, epoll, socket, pc, flag, new, ret, history>>

DrainSend ==
  /\ draining = "send"
  /\ IF sendq # <<>>
     THEN /\ sendq' = Tail(sendq) /\ pending' = [pending EXCEPT !["out"] = @ - 1]
          /\ UNCHANGED draining
     ELSE draining' = "no" /\ UNCHANGED <<sendq, pending>>
  /\ UNCHANGED <<state, recvq, tmp, hand, left, epoll, socket, pc, flag, new, ret, history>>

------------------------------------------------------------------------------
(* The worker.                                                             *)

At(l)   == pc[Worker] = l
Goto(l) == pc' = [pc EXCEPT ![Worker] = l]

(* Of two events at once, EPOLLIN alone is handled.                        *)
Handler(events) ==
  IF state # "ok" THEN "wait"
  ELSE IF "in" \in events THEN "recv"
  ELSE IF "out" \in events /\ pending["out"] # 0 THEN "send" ELSE "wait"

(* epoll_wait; HandleSend begins with tmp_send.                            *)
Fetch ==
  /\ At("wait") /\ listed
  /\ listed' = FALSE
  /\ Goto(Handler(mask \cap Ready))
  /\ IF pc'[Worker] = "send" THEN hand' = tmp /\ tmp' = None
                             ELSE UNCHANGED <<tmp, hand>>
  /\ UNCHANGED <<state, draining, sendq, recvq, left, pending, mask, socket, flag, new, ret,
                 history>>

(* HandleRecv: a request that finds nothing to read, or the end of the     *)
(* input, is dropped.                                                      *)
NoRequest ==
  /\ At("recv") /\ (pending["in"] = 0 \/ recvq = 0)
  /\ Goto("wait")
  /\ UNCHANGED <<state, draining, sendq, recvq, tmp, hand, left, pending, epoll, socket, flag,
                 new, ret, history>>

Read ==
  /\ At("recv") /\ pending["in"] # 0 /\ recvq > 0
  /\ recvq' = recvq - 1
  /\ pending' = [pending EXCEPT !["in"] = @ - 1]
  /\ \/ \E k \in 1 .. input : input' = input - k /\ Goto("received")
     \/ input = 0 /\ UNCHANGED input /\ Goto("wait")
  /\ UNCHANGED <<state, draining, sendq, tmp, hand, left, epoll, room, fin, flag, new, ret,
                 history>>

(* OnRecvCompleted: may send, then asks for more.                          *)
OnRecvCompleted ==
  /\ At("received")
  /\ \/ \E b \in Buffers : Send(Worker, b, "again")
     \/ Recv(Worker, "wait")
  /\ UNCHANGED <<state, draining, tmp, hand, left, pending, epoll, socket>>

ReceiveAgain ==
  /\ At("again")
  /\ Recv(Worker, "wait")
  /\ UNCHANGED <<state, draining, tmp, hand, left, pending, epoll, socket>>

GetSend ==
  /\ At("send") /\ hand = None /\ sendq # <<>>
  /\ hand' = Head(sendq) /\ sendq' = Tail(sendq)
  /\ UNCHANGED <<state, draining, recvq, tmp, left, pending, epoll, socket, pc, flag, new, ret,
                 history>>

NothingToSend ==
  /\ At("send") /\ hand = None /\ sendq = <<>>
  /\ Goto("wait")
  /\ UNCHANGED <<state, draining, sendq, recvq, tmp, hand, left, pending, epoll, socket, flag,
                 new, ret, history>>

(* The socket takes the next piece of the buffer.                          *)
SendPiece ==
  /\ At("send") /\ hand # None /\ room > 0 /\ left[hand] > 0 /\ state = "ok"
  /\ \E k \in 1 .. Window :
       /\ k <= room /\ k <= left[hand]
       /\ room' = room - k
       /\ left' = [left EXCEPT ![hand] = @ - k]
       /\ wire' = wire \o [j \in 1 .. k |-> hand]
  /\ UNCHANGED <<state, draining, sendq, recvq, tmp, hand, pending, epoll, input, fin, pc, flag,
                 new, ret, put, refused, crossed>>

(* The buffer is sent, or was only waiting for its turn.                   *)
Sent ==
  /\ At("send") /\ hand # None /\ left[hand] = 0
  /\ pending' = [pending EXCEPT !["out"] = @ - 1]
  /\ hand' = None
  /\ Goto("sent")
  /\ UNCHANGED <<state, draining, sendq, recvq, tmp, left, epoll, socket, flag, new, ret, history>>

(* OnSendCompleted, OnSendReady: may send.                                 *)
OnSendCompleted ==
  /\ At("sent")
  /\ \/ \E b \in Buffers : Send(Worker, b, "send")
     \/ Goto("send") /\ UNCHANGED <<sendq, recvq, flag, new, ret, history>>
  /\ UNCHANGED <<state, draining, tmp, hand, left, pending, epoll, socket>>

(* Fault: a buffer that was refused starts over.                           *)
RestFault(b) == Size[b]

(* What is left of a refused buffer.                                       *)
Rest(b) == left[b]

(* EAGAIN: the buffer and tmp_send are swapped, the old tmp_send is        *)
(* destroyed, and the loop goes on with the next buffer.                   *)
Again ==
  /\ At("send") /\ hand # None /\ left[hand] > 0 /\ room = 0 /\ state = "ok"
  /\ tmp' = hand /\ hand' = None
  /\ left' = [left EXCEPT ![hand] = Rest(hand)]
  /\ refused' = refused \cup {hand}
  /\ UNCHANGED <<state, draining, sendq, recvq, pending, epoll, socket, pc, flag, new, ret,
                 wire, put, crossed>>

(* The socket has been shut down.                                          *)
SendFails ==
  /\ At("send") /\ hand # None /\ left[hand] > 0 /\ state # "ok"
  /\ hand' = None
  /\ UNCHANGED <<state, draining, sendq, recvq, tmp, left, pending, epoll, socket, pc, flag, new,
                 ret, history>>

------------------------------------------------------------------------------
Call(t) == Count(t) \/ Arm(t) \/ ArmRecv(t) \/ Modify(t)

Work == \/ Call(Worker) \/ Fetch \/ NoRequest \/ Read \/ OnRecvCompleted \/ ReceiveAgain
        \/ GetSend \/ NothingToSend \/ SendPiece \/ Sent \/ OnSendCompleted \/ Again
        \/ SendFails

Next ==
  \/ \E t \in Callers : Call(t) \/ AsyncRecv(t) \/ \E b \in Buffers : AsyncSend(t, b)
  \/ Disconnect \/ DrainRecv \/ DrainSend
  \/ Drain \/ Arrive
  \/ Work

Spec == Init /\ [][Next]_vars

(* Running threads run, and the peer goes on reading.                      *)
FairSpec ==
  Spec /\ WF_vars(Work) /\ WF_vars(Drain) /\ \A t \in Callers : WF_vars(Call(t))

------------------------------------------------------------------------------
IsBefore(b, c) == \E p, q \in DOMAIN put : p < q /\ put[p] = b /\ put[q] = c

(* The socket gets the bytes that were put, each once and in order, except *)
(* that a buffer it has refused may be overtaken by later ones, between    *)
(* two pieces or as a whole (lines 535-615 of iocp1.cpp).                  *)
InOrder ==
  /\ \A b \in Buffers :
       Cardinality({p \in DOMAIN wire : wire[p] = b}) = Size[b] - left[b]
  /\ \A p, q \in DOMAIN wire :
       p < q /\ IsBefore(wire[q], wire[p]) => wire[q] \in refused
  /\ \A p, q, r \in DOMAIN wire :
       p < q /\ q < r /\ wire[p] = wire[r] /\ wire[q] # wire[p] => wire[p] \in refused

(* HandleSend has destroyed b: it was refused, and another one after it.   *)
(* It stays counted as pending, so that later sends do not arm epoll.      *)
Destroyed(b) ==
  /\ b \in refused /\ left[b] > 0
  /\ b \notin ToSet(sendq) \cup {tmp, hand}
  /\ \E c \in refused \ {b} : TRUE

AllSent == sendq = <<>> /\ \A b \in ToSet(put) : left[b] = 0

(* Two threads have armed epoll at once, and the mask of the slower one,   *)
(* made from older counts, stays.                                          *)
Stale(f) ==
  /\ crossed /\ pending[f] > 0 /\ f \notin mask
  /\ At("wait") /\ \A t \in Threads : pc[t] \notin {"count", "arm", "look", "mod"}

(* Once the peer sends no more, all of its input is read if a receive was  *)
(* asked for, and everything put is sent, although EPOLLIN hides the       *)
(* EPOLLOUT that is reported with it: the callback asks for more, which    *)
(* arms epoll anew.  Excepted are a session that is disconnected, a mask   *)
(* overwritten by an older one, a session whose HandleSend has destroyed a *)
(* buffer, and sends after the end of the input, where no callback follows *)
(* the event (session.cpp:147-180, session_tcp.cpp:63-96,                  *)
(* iocp1.cpp:527-717, 725-782).                                            *)
Served ==
  <>[][input' <= input]_input =>
    /\ (recvq > 0 /\ input > 0) ~> (input = 0 \/ state # "ok" \/ Stale("in"))
    /\ (sendq # <<>> /\ state = "ok")
       ~> (AllSent \/ state # "ok" \/ fin \/ Stale("out") \/ \E b \in Buffers : Destroyed(b))
==============================================================================
