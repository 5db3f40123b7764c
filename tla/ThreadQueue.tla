---------------------------- MODULE ThreadQueue ----------------------------
(***************************************************************************)
(* A thread_queue between the threads that call send_task and the thread   *)
(* whose event loop watches its eventfd.  The queue and the eventfd change *)
(* together under _task_mutex; the loop learns of tasks by the eventfd     *)
(* alone, and attaches to it at a time of its own: the agent's clients do  *)
(* so when their connection is up, with tasks perhaps already waiting      *)
(* (agent_dns_client.cpp:43-52, agent_report_client.cpp).                  *)
(***************************************************************************)
EXTENDS Integers, Sequences

CONSTANTS Task, MaxSent   \* bound: tasks sent in a behaviour

ASSUME BoundAssumption == MaxSent \in Nat

VARIABLES
  tasks,      \* _tasks
  notice,     \* the counter of the eventfd _noticefd
  attached,   \* the loop has an EPOLLIN event on _noticefd
  loop,       \* where the event loop is: "wait", "fired" or "deal"
  local,      \* the callback's own queue, swapped with _tasks
  sent,       \* how many tasks were sent
  dealt       \* the tasks the callback has dealt with

vars == <<tasks, notice, attached, loop, local, sent, dealt>>

Init == /\ tasks = <<>> /\ notice = 0
        /\ attached = FALSE /\ loop = "wait" /\ local = <<>>
        /\ sent = 0 /\ dealt = <<>>

(* send_task, by any thread at any time. *)
SendTask(t) == /\ sent < MaxSent
               /\ tasks' = Append(tasks, t)
               /\ notice' = notice + 1
               /\ sent' = sent + 1
               /\ UNCHANGED <<attached, loop, local, dealt>>

(* Mutant: what was signalled before the loop attached is cleared. *)
SetTaskCbClears == /\ loop = "wait" /\ ~attached
                   /\ attached' = TRUE /\ notice' = 0
                   /\ UNCHANGED <<tasks, loop, local, sent, dealt>>

(* set_event_loop and set_task_cb, by the thread of the loop. *)
SetTaskCb == /\ loop = "wait" /\ ~attached
             /\ attached' = TRUE
             /\ UNCHANGED <<tasks, notice, loop, local, sent, dealt>>

(* epoll_wait reports the eventfd: level-triggered, so for as long as its  *)
(* counter is not zero.                                                    *)
EpollWait == /\ loop = "wait" /\ attached /\ notice > 0
             /\ loop' = "fired"
             /\ UNCHANGED <<tasks, notice, attached, local, sent, dealt>>

(* Mutant: one task is taken, the counter is reset all the same. *)
RecvOneTask == /\ loop = "fired"
               /\ local' = <<Head(tasks)>> /\ tasks' = Tail(tasks)
               /\ notice' = 0
               /\ loop' = "deal"
               /\ UNCHANGED <<attached, sent, dealt>>

(* The callback calls recv_tasks: the swap with its empty queue and the    *)
(* read that resets the counter.                                           *)
RecvTasks == /\ loop = "fired"
             /\ local' = tasks /\ tasks' = local
             /\ notice' = 0
             /\ loop' = "deal"
             /\ UNCHANGED <<attached, sent, dealt>>

DealTask == /\ loop = "deal" /\ local # <<>>
            /\ dealt' = Append(dealt, Head(local))
            /\ local' = Tail(local)
            /\ UNCHANGED <<tasks, notice, attached, loop, sent>>

Return == /\ loop = "deal" /\ local = <<>>
          /\ loop' = "wait"
          /\ UNCHANGED <<tasks, notice, attached, local, sent, dealt>>

LoopStep == SetTaskCb \/ EpollWait \/ RecvTasks \/ DealTask \/ Return

Next == LoopStep \/ \E t \in Task : SendTask(t)

Spec == Init /\ [][Next]_vars
-----------------------------------------------------------------------------
TypeOK == /\ tasks \in Seq(Task) /\ local \in Seq(Task) /\ dealt \in Seq(Task)
          /\ notice \in Nat /\ sent \in 0..MaxSent
          /\ attached \in BOOLEAN
          /\ loop \in {"wait", "fired", "deal"}

(* No wake-up is lost: tasks wait only with the eventfd readable, so the   *)
(* next epoll_wait of an attached loop returns; and a loop that was woken  *)
(* finds something (thread_queue.h:41-65).  The callback's own queue is    *)
(* empty when it is swapped, as recv_tasks demands (thread_queue.h:54).    *)
NoLostWakeup == /\ tasks # <<>> <=> notice > 0
                /\ loop = "fired" => tasks # <<>>
                /\ loop # "deal" => local = <<>>
                /\ loop # "wait" => attached

(* A thread queue is a task channel: in order, once each, and, for a loop  *)
(* that attaches and runs on (ClientThread), none left.                    *)
Channel == INSTANCE TaskChannel WITH open <- attached, queue <- local \o tasks
ImplementsTaskChannel == Channel!FairSpec
=============================================================================
