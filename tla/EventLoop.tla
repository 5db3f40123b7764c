----------------------------- MODULE EventLoop -----------------------------
(***************************************************************************)
(* The tables of an event_loop and the batch of events it is dealing with. *)
(* A callback runs to its end in one step of the thread, or in several of  *)
(* a module that extends this one; the tables change by add_event and      *)
(* del_event, several times in one callback, which is why these two are    *)
(* operators on tables.                                                    *)
(***************************************************************************)
EXTENDS Integers, Sequences, SequencesExt, Functions

CONSTANTS
  Fd,        \* the descriptors a thread may register
  BadFd,     \* -1, what a closed object names
  NoCb       \* a null callback

ASSUME LoopAssumption == BadFd \notin Fd

VARIABLES
  tables,  \* _io_evns and _lfds, and the interest that epoll keeps
  fired,   \* the events of _fired_evs that are still to be dealt with
  first,   \* the descriptor of the first event of the batch
  running  \* start_process has not returned

loopVars == <<tables, fired, first, running>>

Empty == [x \in {} |-> NoCb]
NoTables == [io |-> Empty, lfds |-> {}, epoll |-> Empty]
NoEvent == [mask |-> {}, read_cb |-> NoCb, write_cb |-> NoCb]

LoopInit == tables = NoTables /\ fired = <<>> /\ first = BadFd /\ running = TRUE

Registered(T, fd) == fd \in DOMAIN T.io
Remove1(f, x) == Restrict(f, DOMAIN f \ {x})
Put1(f, x, v) == [y \in DOMAIN f \cup {x} |-> IF y = x THEN v ELSE f[y]]

(* del_event(fd). *)
DelFd(T, fd) == [io    |-> Remove1(T.io, fd),
                 lfds  |-> T.lfds \ {fd},
                 epoll |-> Remove1(T.epoll, fd)]

(* del_event(fd, mask): without a registration, the mask is read from      *)
(* beyond the table; whatever it is, the descriptor is then deleted.       *)
DelEvent(T, fd, mask) ==
  LET left == T.io[fd].mask \ mask
  IN IF ~Registered(T, fd) \/ left = {}
     THEN DelFd(T, fd)
     ELSE [io    |-> Put1(T.io, fd, [T.io[fd] EXCEPT !.mask = left]),
           lfds  |-> T.lfds,
           epoll |-> IF fd \in DOMAIN T.epoll THEN Put1(T.epoll, fd, left) ELSE T.epoll]

(* epoll_ctl with EPOLL_CTL_ADD or MOD: refuses -1, and a modification of  *)
(* what it does not have.                                                  *)
EpollCtl(epoll, opt, fd, mask) ==
  IF fd = BadFd \/ (opt = "MOD") # (fd \in DOMAIN epoll) THEN epoll ELSE Put1(epoll, fd, mask)

(* Mutant: what is registered already is added to epoll again. *)
AddEventAdds(T, fd, ev, cb) ==
  LET old == IF Registered(T, fd) THEN T.io[fd] ELSE NoEvent
      new == IF ev = "IN" THEN [old EXCEPT !.mask = @ \cup {ev}, !.read_cb = cb]
                          ELSE [old EXCEPT !.mask = @ \cup {ev}, !.write_cb = cb]
  IN IF ev \in old.mask THEN T
     ELSE [io    |-> Put1(T.io, fd, new),
           lfds  |-> T.lfds \cup {fd},
           epoll |-> EpollCtl(T.epoll, "ADD", fd, new.mask)]

(* add_event(fd, ev, cb), for the one event each caller names: what is     *)
(* registered already stays as it is, with the callback it had.            *)
AddEvent(T, fd, ev, cb) ==
  LET old == IF Registered(T, fd) THEN T.io[fd] ELSE NoEvent
      new == IF ev = "IN" THEN [old EXCEPT !.mask = @ \cup {ev}, !.read_cb = cb]
                          ELSE [old EXCEPT !.mask = @ \cup {ev}, !.write_cb = cb]
  IN IF ev \in old.mask THEN T
     ELSE [io    |-> Put1(T.io, fd, new),
           lfds  |-> T.lfds \cup {fd},
           epoll |-> EpollCtl(T.epoll, IF Registered(T, fd) THEN "MOD" ELSE "ADD", fd, new.mask)]

(* What epoll_wait may return when ready[fd] says what a descriptor is     *)
(* ready for: the events asked for, and HUP always, of all descriptors     *)
(* that have any, in any order.  There are fewer than MAXEVENTS.           *)
Reported(ready, fd) == ready[fd] \cap (tables.epoll[fd] \cup {"HUP"})
Batches(ready) ==
  {[i \in DOMAIN s |-> [fd |-> s[i], events |-> Reported(ready, s[i])]] :
     s \in SetToSeqs({fd \in DOMAIN tables.epoll : Reported(ready, fd) # {}})}

(* epoll_wait returns. *)
Wait(ready) == /\ running /\ fired = <<>> /\ tables.lfds # {}
               /\ \E b \in Batches(ready) \ {<<>>} : fired' = b /\ first' = b[1].fd
               /\ UNCHANGED <<tables, running>>

(* start_process returns when it has nothing to listen to. *)
StopLoop == /\ running /\ fired = <<>> /\ tables.lfds = {}
            /\ running' = FALSE
            /\ UNCHANGED <<tables, fired, first>>

Event == Head(fired)
Known(fd) == Registered(tables, fd) /\ fd \in tables.lfds

(* Which callback the head of the batch gets: the read callback for IN, or *)
(* for HUP without OUT; the write callback for OUT without IN.             *)
Handler(event) ==
  IF "OUT" \in event.events /\ "IN" \notin event.events
  THEN tables.io[event.fd].write_cb
  ELSE tables.io[event.fd].read_cb

(* The head of the batch is next, and its callback is cb. *)
Calls(cb) == /\ fired # <<>> /\ Known(Event.fd) /\ Handler(Event) = cb
             /\ fired' = Tail(fired)
             /\ UNCHANGED <<first, running>>

-----------------------------------------------------------------------------
(* The three tables agree: the set that keeps the loop alive, the map of   *)
(* callbacks and what epoll watches, and each event that is watched has a  *)
(* callback (event_loop.cpp:93-156); only the descriptor -1 is unknown to  *)
(* epoll.                                                                  *)
Agree(T) ==
  /\ T.lfds = DOMAIN T.io
  /\ DOMAIN T.epoll = DOMAIN T.io \ {BadFd}
  /\ \A fd \in DOMAIN T.epoll : T.epoll[fd] = T.io[fd].mask
  /\ \A fd \in DOMAIN T.io :
       LET e == T.io[fd]
       IN /\ e.mask # {}
          /\ "IN" \in e.mask => e.read_cb # NoCb
          /\ "OUT" \in e.mask => e.write_cb # NoCb

TablesAgree == Agree(tables)

(* No event of a batch is stale: when its turn comes its descriptor is     *)
(* still registered, with a callback for it, though callbacks before it in *)
(* the batch have changed the tables.  Otherwise the loop would take the   *)
(* events for a descriptor (event_loop.cpp:38, 47, 57) or call a null      *)
(* callback.                                                               *)
FreshBatch ==
  \A i \in DOMAIN fired : Known(fired[i].fd) /\ Handler(fired[i]) # NoCb
=============================================================================
