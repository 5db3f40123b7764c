---------------------------- MODULE TaskChannel ----------------------------
(***************************************************************************)
(* What a thread_queue promises: tasks sent by any thread reach the        *)
(* consuming thread once each and in the order they were sent, and none    *)
(* waits for ever once that thread has opened the channel.                 *)
(***************************************************************************)
EXTENDS Sequences

CONSTANT Task

VARIABLES
  open,    \* the consumer listens
  queue,   \* the tasks on their way
  dealt    \* the tasks handed to the consumer, in order

vars == <<open, queue, dealt>>

Init == open = FALSE /\ queue = <<>> /\ dealt = <<>>

Open == open' = TRUE /\ UNCHANGED <<queue, dealt>>

Send(t) == queue' = Append(queue, t) /\ UNCHANGED <<open, dealt>>

Deal == /\ open /\ queue # <<>>
        /\ dealt' = Append(dealt, Head(queue))
        /\ queue' = Tail(queue)
        /\ UNCHANGED open

Next == Open \/ Deal \/ \E t \in Task : Send(t)

Spec     == Init /\ [][Next]_vars
FairSpec == Spec /\ WF_vars(Deal)
=============================================================================
