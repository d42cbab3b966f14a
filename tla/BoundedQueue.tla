---------------------------- MODULE BoundedQueue ----------------------------
(***************************************************************************)
(* What a LockFreeQueue promises its callers, whatever the threads do:     *)
(* each call takes effect at one instant between its start and its return, *)
(* on one FIFO queue that holds at most Cap - 1 elements.                  *)
(***************************************************************************)
EXTENDS Naturals, Sequences

CONSTANTS
  Threads,    \* the calling threads
  Inputs,     \* the batches of elements that are put
  Cap,        \* capacity(); the queue holds Cap - 1 elements
  MaxN,       \* the largest batch a caller asks for
  NonBlock,   \* QUEUE_NONBLOCK is set
  Partial     \* QUEUE_PARTIAL is set

VARIABLES
  q,          \* the elements, oldest first
  call        \* per thread: its call, from the start to the return

absvars == <<q, call>>

Idle == [phase |-> "idle", op |-> "none", n |-> 0, data |-> <<>>]

Calling(o, k, xs) == [phase |-> "called", op |-> o, n |-> k, data |-> xs]

(* Done(o, xs): a call of o that has taken effect with xs, the elements    *)
(* taken from the queue or accepted by it.                                 *)
Done(o, xs) == [phase |-> "done", op |-> o, n |-> 0, data |-> xs]

Room == Cap - 1 - Len(q)

Init == /\ q = <<>>
        /\ call = [t \in Threads |-> Idle]

Call(t) ==
  /\ call[t] = Idle
  /\ \/ \E k \in 1..MaxN : call' = [call EXCEPT ![t] = Calling("getq", k, <<>>)]
     \/ \E xs \in Inputs : call' = [call EXCEPT ![t] = Calling("putq", Len(xs), xs)]
     \/ call' = [call EXCEPT ![t] = Calling("rewind", 0, <<>>)]
  /\ UNCHANGED q

Called(t, o) == call[t].phase = "called" /\ call[t].op = o

(* A get removes between one and n of the oldest elements, in order.       *)
Take(t) ==
  /\ Called(t, "getq")
  /\ \E k \in 1..call[t].n :
       /\ k <= Len(q)
       /\ q' = SubSeq(q, k + 1, Len(q))
       /\ call' = [call EXCEPT ![t] = Done("getq", SubSeq(q, 1, k))]

TakeNothing(t) ==
  /\ Called(t, "getq") /\ NonBlock /\ q = <<>>
  /\ call' = [call EXCEPT ![t] = Done("getq", <<>>)]
  /\ UNCHANGED q

(* A put appends its whole batch, contiguously; a prefix only if Partial.  *)
Put(t) ==
  /\ Called(t, "putq")
  /\ \E k \in 1..call[t].n :
       /\ k <= Room
       /\ k = call[t].n \/ Partial
       /\ LET xs == SubSeq(call[t].data, 1, k)
          IN  /\ q' = q \o xs
              /\ call' = [call EXCEPT ![t] = Done("putq", xs)]

(* A put is refused only when its batch does not fit at that instant.      *)
PutNothing(t) ==
  /\ Called(t, "putq")
  /\ \/ NonBlock /\ Room = 0
     \/ ~Partial /\ Room < call[t].n
  /\ call' = [call EXCEPT ![t] = Done("putq", <<>>)]
  /\ UNCHANGED q

Rewind(t) ==
  /\ Called(t, "rewind")
  /\ q' = <<>>
  /\ call' = [call EXCEPT ![t] = Done("rewind", <<>>)]

Return(t) ==
  /\ call[t].phase = "done"
  /\ call' = [call EXCEPT ![t] = Idle]
  /\ UNCHANGED q

Next == \E t \in Threads :
          Call(t) \/ Take(t) \/ TakeNothing(t) \/ Put(t) \/ PutNothing(t)
            \/ Rewind(t) \/ Return(t)

Spec == Init /\ [][Next]_absvars
=============================================================================
