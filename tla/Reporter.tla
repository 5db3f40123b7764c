------------------------------ MODULE Reporter ------------------------------
(***************************************************************************)
(* The reporter: worker threads that read reports from the agents deal     *)
(* them, in turn, to database threads, which store their results row by    *)
(* row.  The turn is a static without a lock; the queues are thread_queues, *)
(* kept here to what TaskChannel says of them; a database thread that has  *)
(* yet to attach to its own is one that has yet to store.                  *)
(***************************************************************************)
EXTENDS Integers, Sequences, FiniteSets, SequencesExt

CONSTANTS
  Worker,         \* a connection each, of one agent
  db_thread_cnt,
  Key, Host       \* a row has a mod and a host

ASSUME ReporterAssumption == db_thread_cnt \in Nat \ {0}

VARIABLES
  index,      \* deal_report's static
  at,         \* of each worker, where in deal_report it is
  hand,       \* of each worker, the report it deals
  reg,        \* of each worker, the value of index it has read
  crashed,    \* an element past task_queues was used
  raced,      \* history: two workers were in deal_report at once
  queue,      \* of each database thread, the reports to deal with
  todo,       \* of each, the results of the first of them not stored yet
  rows,       \* the table: of each mod and host, the report it is from
  faults,     \* bound: how many more queries may fail
  given,      \* history: of each database thread, the reports sent to it
  refused     \* history: <<report, host>> whose query failed

reporterVars == <<index, at, hand, reg, crashed, raced, queue, todo, rows, faults,
                  given, refused>>

DbThread == 0..(db_thread_cnt - 1)
NoReport == [mod |-> "none"]

ReporterInit == /\ index = 0 /\ crashed = FALSE /\ raced = FALSE
                /\ at = [w \in Worker |-> "out"]
                /\ hand = [w \in Worker |-> NoReport]
                /\ reg = [w \in Worker |-> 0]
                /\ queue = [i \in DbThread |-> <<>>]
                /\ todo = [i \in DbThread |-> {}]
                /\ rows = [m \in Key |-> [h \in Host |-> NoReport]]
                /\ given = [i \in DbThread |-> <<>>]
                /\ refused = {} /\ faults \in Nat
-----------------------------------------------------------------------------
(* deal_report of a worker.  index++ and index %= db_thread_cnt read, and  *)
(* write back later.                                                       *)
Goes(w, from, to) == /\ ~crashed /\ at[w] = from /\ at' = [at EXCEPT ![w] = to]

ReadsIndex(w, r) == /\ Goes(w, "out", "read") /\ hand' = [hand EXCEPT ![w] = r]
                    /\ reg' = [reg EXCEPT ![w] = index]
                    /\ raced' = (raced \/ \E v \in Worker \ {w} : at[v] # "out")
                    /\ UNCHANGED <<index, crashed, queue, todo, rows, faults, given, refused>>

(* An element past the queues is no queue. *)
SendTask(w) ==
  LET i == reg[w]
  IN /\ Goes(w, "read", "sent")
     /\ index' = i + 1
     /\ hand' = [hand EXCEPT ![w] = NoReport]
     /\ IF i \in DbThread
        THEN /\ queue' = [queue EXCEPT ![i] = Append(@, hand[w])]
             /\ given' = [given EXCEPT ![i] = Append(@, hand[w])]
             /\ todo' = IF queue[i] = <<>> THEN [todo EXCEPT ![i] = Host] ELSE todo
             /\ UNCHANGED crashed
        ELSE crashed' = TRUE /\ UNCHANGED <<queue, given, todo>>
     /\ UNCHANGED <<reg, raced, rows, faults, refused>>

ReadsBack(w) == /\ Goes(w, "sent", "reduce")
                /\ reg' = [reg EXCEPT ![w] = index]
                /\ UNCHANGED <<index, hand, crashed, raced, queue, todo, rows, faults, given, refused>>

(* Mutant: the turn passes over the number of the threads. *)
ReducesLate(w) == /\ Goes(w, "reduce", "out")
                  /\ index' = reg[w] % (db_thread_cnt + 1)
                  /\ UNCHANGED <<reg, hand, crashed, raced, queue, todo, rows, faults, given, refused>>

Reduces(w) == /\ Goes(w, "reduce", "out")
              /\ index' = reg[w] % db_thread_cnt
              /\ UNCHANGED <<reg, hand, crashed, raced, queue, todo, rows, faults, given, refused>>

DealsReport(w) == SendTask(w) \/ ReadsBack(w) \/ Reduces(w)
-----------------------------------------------------------------------------
(* The rest of the results of the report at hand, then the next report. *)
StoredOne(i, h) ==
  LET last == todo[i] = {h}
      next == IF last THEN Tail(queue[i]) ELSE queue[i]
  IN /\ queue' = [queue EXCEPT ![i] = next]
     /\ todo' = [todo EXCEPT ![i] =
          IF ~last THEN @ \ {h} ELSE IF next = <<>> THEN {} ELSE Host]

(* Mutant: the last report is stored first. *)
StoresNewestFirst(i, h) ==
  LET r == Last(queue[i])
  IN /\ ~crashed /\ h \in todo[i]
     /\ StoredOne(i, h)
     /\ rows' = [rows EXCEPT ![r.mod][h] = r]
     /\ UNCHANGED <<index, at, hand, reg, crashed, raced, faults, given, refused>>

(* report2db: a result is inserted, or updates the row of its key, ... *)
Stores(i, h) == /\ ~crashed /\ h \in todo[i]
                /\ StoredOne(i, h)
                /\ LET r == Head(queue[i]) IN rows' = [rows EXCEPT ![r.mod][h] = r]
                /\ UNCHANGED <<index, at, hand, reg, crashed, raced, faults, given, refused>>

(* ... or its query fails, which is printed. *)
StoreFails(i, h) == /\ ~crashed /\ h \in todo[i]
                    /\ faults > 0 /\ faults' = faults - 1
                    /\ StoredOne(i, h)
                    /\ refused' = refused \cup {<<Head(queue[i]), h>>}
                    /\ UNCHANGED <<index, at, hand, reg, crashed, raced, rows, given>>

Store(i) == \E h \in Host : Stores(i, h) \/ StoreFails(i, h)
-----------------------------------------------------------------------------
Unstored(i, r, h) == \/ \E j \in 2..Len(queue[i]) : queue[i][j] = r
                     \/ queue[i] # <<>> /\ Head(queue[i]) = r /\ h \in todo[i]

(* A row is from the last report of its mod that some one of the database  *)
(* threads has dealt with: an older report overwrites a newer one only     *)
(* from another thread (ylars_reporter.cpp:21, thread_report.cpp:14-19).   *)
RowIsSomeonesLast ==
  \A m \in Key, h \in Host : rows[m][h] # NoReport =>
    \E i \in DbThread : \E k \in 1..Len(given[i]) :
      /\ given[i][k] = rows[m][h]
      /\ ~Unstored(i, given[i][k], h)
      /\ \A j \in (k + 1)..Len(given[i]) :
           given[i][j].mod = m =>
             Unstored(i, given[i][j], h) \/ <<given[i][j], h>> \in refused
=============================================================================
