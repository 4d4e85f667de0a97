------------------------------- MODULE Actor -------------------------------
(***************************************************************************)
(* The storage actor's life (crates/storage: StorageHandle, actor_loop):   *)
(* a process opens the file, migrates it statement by statement, and then  *)
(* one thread takes calls from a queue and answers each through a channel  *)
(* of its own.  The thread may die, the process may die, and the owner of  *)
(* the handle may drop it, at any point.  What each statement of a rescore *)
(* does to the derived tables is in Store.tla; here one is a single step.  *)
(***************************************************************************)
EXTENDS Migrate

CONSTANT Op,        \* the operations callers ask for, see MCActor
         MaxCalls,  \* bound: calls per process
         MaxFaults  \* bound: deaths of the thread or the process

ASSUME OpAssumption ==
  Op \subseteq [op : {"ingest", "purge"}, rows : SUBSET Row]
               \cup [op : {"retention"}, days : Nat] \cup [op : {"read"}]

VARIABLES
  db,         \* durable: the database file
  phase,      \* what the process is doing
  mig,        \* the migration and the statement of it that come next
  queue,      \* the channel of Cmd
  cur,        \* the command in progress: none, or one
  retention,  \* in the actor's memory
  reply,      \* the reply channels, by call
  closing,    \* the handle is being dropped
  cutIn4,     \* history: a death fell between two statements of migration 4
  faults      \* history: deaths so far

vars == <<db, phase, mig, queue, cur, retention, reply, closing, cutIn4, faults>>
memory == <<queue, cur, retention, reply, closing>>

Command == CHOOSE c \in cur : TRUE

Stored == db.events \cup db.copy

\* A dropped handle's Shutdown is the last in the queue, and no call.
Waiting == SubSeq(queue, 1, Len(queue) - (IF closing THEN 1 ELSE 0))

\* As its callers see it, a call takes effect when it is answered.
Rows == IF cur = {} THEN Stored ELSE Command.before
InHand == IF cur = {} THEN <<>> ELSE <<[id |-> Command.id, op |-> Command.op]>>

Atomic == INSTANCE AtomicStore WITH
  rows <- Rows, pending <- InHand \o Waiting, serving <- phase = "loop"

Init ==
  /\ db \in Files
  /\ phase = "down" /\ mig = <<1, 1>>
  /\ queue = <<>> /\ cur = {} /\ retention = 0 /\ reply = <<>> /\ closing = FALSE
  /\ cutIn4 = FALSE /\ faults = 0

-----------------------------------------------------------------------------
\* StorageHandle::open
Open ==
  /\ phase = "down" /\ phase' = "migrate"
  /\ mig' = <<db.version + 1, 1>>
  /\ UNCHANGED <<db, memory, cutIn4, faults>>

\* migrate: one statement of execute_batch; its error is the end of open.
Statement ==
  /\ phase = "migrate" /\ mig[1] <= Len(MIGRATIONS) /\ mig[2] <= Len(MIGRATIONS[mig[1]])
  /\ LET stmt == MIGRATIONS[mig[1]][mig[2]]
     IN  \/ /\ ~ Fails(db, stmt)
            /\ db' = Apply(db, stmt) /\ mig' = <<mig[1], mig[2] + 1>> /\ UNCHANGED phase
         \/ Fails(db, stmt) /\ phase' = "failed" /\ UNCHANGED <<db, mig>>
  /\ UNCHANGED <<memory, cutIn4, faults>>

\* INSERT INTO schema_version, a call of its own.
RecordVersion ==
  /\ phase = "migrate" /\ mig[1] <= Len(MIGRATIONS) /\ mig[2] > Len(MIGRATIONS[mig[1]])
  /\ db' = [db EXCEPT !.version = mig[1]]
  /\ mig' = <<mig[1] + 1, 1>>
  /\ UNCHANGED <<phase, memory, cutIn4, faults>>

Migrated ==
  /\ phase = "migrate" /\ mig[1] > Len(MIGRATIONS)
  /\ phase' = "rebuild"
  /\ UNCHANGED <<db, mig, memory, cutIn4, faults>>

Rebuild ==
  /\ phase = "rebuild" /\ phase' = "prune"
  /\ db' = RebuildIfMarked(db)
  /\ UNCHANGED <<mig, memory, cutIn4, faults>>

\* prune_stale_digests, and the thread starts with no retention.
PruneAndSpawn ==
  /\ phase = "prune" /\ phase' = "loop"
  /\ db' = PruneStaleDigests(db)
  /\ UNCHANGED <<mig, memory, cutIn4, faults>>

-----------------------------------------------------------------------------
\* The owner's side.  A send to a dead thread fails, and so does the reply.
Send(op) ==
  /\ phase \in {"loop", "dead"} /\ ~ closing
  /\ Len(reply) < MaxCalls
  /\ \/ /\ phase = "loop"
        /\ queue' = Append(queue, [id |-> Len(reply) + 1, op |-> op])
        /\ reply' = Append(reply, Atomic!Fresh(op))
     \/ /\ phase = "dead"
        /\ reply' = Append(reply, IF Atomic!Fresh(op) = Atomic!None THEN Atomic!Lost
                                  ELSE Atomic!Unasked)
        /\ UNCHANGED queue
  /\ UNCHANGED <<db, phase, mig, cur, retention, closing, cutIn4, faults>>

\* Drop: Shutdown goes to the end of the queue, and drop waits for the thread.
Drop ==
  /\ phase \in {"loop", "dead"} /\ ~ closing
  /\ closing' = TRUE
  /\ \/ /\ phase = "loop" /\ UNCHANGED phase
        /\ queue' = Append(queue, [id |-> 0, op |-> [op |-> "shutdown"]])
     \/ phase = "dead" /\ phase' = "closed" /\ UNCHANGED queue
  /\ UNCHANGED <<db, mig, cur, retention, reply, cutIn4, faults>>

-----------------------------------------------------------------------------
\* actor_loop
InStage(stage) == phase = "loop" /\ \E c \in cur : c.stage = stage

\* Mutant: the newest command first.
ReceiveLast ==
  /\ phase = "loop" /\ cur = {} /\ queue # <<>>
  /\ LET c == queue[Len(queue)]
     IN  \/ /\ c.op.op = "shutdown" /\ phase' = "closed"
            /\ UNCHANGED cur
         \/ /\ c.op.op # "shutdown" /\ UNCHANGED phase
            /\ cur' = {[id |-> c.id, op |-> c.op, stage |-> "start", before |-> db.events,
                        answer |-> Atomic!None]}
  /\ queue' = SubSeq(queue, 1, Len(queue) - 1)
  /\ UNCHANGED <<db, mig, retention, reply, closing, cutIn4, faults>>
Receive ==
  /\ phase = "loop" /\ cur = {} /\ queue # <<>>
  /\ LET c == Head(queue)
     IN  \/ /\ c.op.op = "shutdown" /\ phase' = "closed"
            /\ UNCHANGED cur
         \/ /\ c.op.op # "shutdown" /\ UNCHANGED phase
            /\ cur' = {[id |-> c.id, op |-> c.op, stage |-> "start", before |-> db.events,
                        answer |-> Atomic!None]}
  /\ queue' = Tail(queue)
  /\ UNCHANGED <<db, mig, retention, reply, closing, cutIn4, faults>>

To(stage, answer) == cur' = {[Command EXCEPT !.stage = stage, !.answer = answer]}

\* do_ingest: the appender's flush, then prune_events, then the rescore of
\* what the two changed, with nothing durable to say that it is still to come.
Insert ==
  /\ InStage("start") /\ Command.op.op = "ingest"
  /\ db' = [db EXCEPT !.events = @ \cup Command.op.rows]
  /\ To("expire", [is |-> "ingested", inserted |-> Command.op.rows \ db.events, pruned |-> {}])
  /\ UNCHANGED <<phase, mig, queue, retention, reply, closing, cutIn4, faults>>

Prune ==
  /\ InStage("expire")
  /\ LET gone == Atomic!Expired(db.events, retention)
     IN  /\ db' = [db EXCEPT !.events = @ \ gone]
         /\ To("rescore", [Command.answer EXCEPT !.pruned = gone])
  /\ UNCHANGED <<phase, mig, queue, retention, reply, closing, cutIn4, faults>>

Rescore ==
  /\ InStage("rescore")
  /\ db' = CASE Command.answer.pruned # {} -> RescoreAll(db)
             [] Command.answer.pruned = {} /\ Command.answer.inserted # {} ->
                  RescoreSince(db, Command.answer.inserted)
             [] OTHER -> db
  /\ To("reply", Command.answer)
  /\ UNCHANGED <<phase, mig, queue, retention, reply, closing, cutIn4, faults>>

\* do_purge_source: the rows go and the rest is rescored in one transaction.
Purge ==
  /\ InStage("start") /\ Command.op.op = "purge"
  /\ LET purged == Command.op.rows \cap db.events
     IN  /\ db' = IF purged = {} THEN db
                  ELSE RescoreAll([db EXCEPT !.events = @ \ purged])
         /\ To("reply", [is |-> "purged", purged |-> purged])
  /\ UNCHANGED <<phase, mig, queue, retention, reply, closing, cutIn4, faults>>

\* Every query: Reads.tla says what of the rows it answers.
Query ==
  /\ InStage("start") /\ Command.op.op = "read"
  /\ To("reply", [is |-> "read", rows |-> db.events])
  /\ UNCHANGED <<db, phase, mig, queue, retention, reply, closing, cutIn4, faults>>

SetRetention ==
  /\ InStage("start") /\ Command.op.op = "retention"
  /\ retention' = Command.op.days
  /\ cur' = {}
  /\ UNCHANGED <<db, phase, mig, queue, reply, closing, cutIn4, faults>>

Reply ==
  /\ InStage("reply")
  /\ reply' = [reply EXCEPT ![Command.id] = Command.answer]
  /\ cur' = {}
  /\ UNCHANGED <<db, phase, mig, queue, retention, closing, cutIn4, faults>>

-----------------------------------------------------------------------------
\* What a command in progress has changed without a rescore yet.
CutOff == phase = "loop" /\ \E c \in cur : /\ c.stage \in {"expire", "rescore"}
                                          /\ c.answer.inserted \cup c.answer.pruned # {}
Tear == db' = [db EXCEPT !.torn = @ \/ CutOff]

\* Mutant: the reply senders outlive the thread.
PanicHolding ==
  /\ faults < MaxFaults /\ faults' = faults + 1
  /\ phase = "loop"
  /\ phase' = IF closing THEN "closed" ELSE "dead"
  /\ queue' = <<>> /\ cur' = {}
  /\ Tear
  /\ UNCHANGED <<mig, retention, reply, closing, cutIn4>>
\* The thread panics: the channel and every reply sender in it are dropped.
Panic ==
  /\ faults < MaxFaults /\ faults' = faults + 1
  /\ phase = "loop"
  /\ phase' = IF closing THEN "closed" ELSE "dead"
  /\ reply' = [i \in DOMAIN reply |->
                 IF reply[i] = Atomic!None THEN Atomic!Lost ELSE reply[i]]
  /\ queue' = <<>> /\ cur' = {}
  /\ Tear
  /\ UNCHANGED <<mig, retention, closing, cutIn4>>

Forget ==
  /\ phase' = "down" /\ queue' = <<>> /\ cur' = {} /\ retention' = 0 /\ reply' = <<>>
  /\ closing' = FALSE

\* The process dies.
Crash ==
  /\ faults < MaxFaults /\ faults' = faults + 1
  /\ phase # "down"
  /\ Forget
  /\ cutIn4' = (cutIn4 \/ (phase = "migrate" /\ mig[1] = 4 /\ mig[2] > 1))
  /\ Tear
  /\ UNCHANGED mig

\* The program ends, and is started again some day.
Exit ==
  /\ phase \in {"closed", "failed"}
  /\ Forget
  /\ UNCHANGED <<db, mig, cutIn4, faults>>

ActorStep == Receive \/ Insert \/ Prune \/ Rescore \/ Purge \/ Query \/ SetRetention \/ Reply

Next ==
  \/ Open \/ Statement \/ RecordVersion \/ Migrated \/ Rebuild \/ PruneAndSpawn
  \/ \E op \in Op : Send(op)
  \/ Drop
  \/ Receive \/ Insert \/ Prune \/ Rescore \/ Purge \/ Query \/ SetRetention \/ Reply
  \/ Panic \/ Crash \/ Exit

Spec == Init /\ [][Next]_vars

\* The actor thread keeps running while its process does.
FairSpec == Spec /\ WF_vars(ActorStep)

-----------------------------------------------------------------------------
\* The statement-level actor keeps the store's promise: its callers cannot
\* tell it from a store that does each call whole, in the order of sending,
\* and loses calls only when the thread or the process dies (actor_loop).
\* Opening is a stutter of it: no statement of a migration loses a row, and a
\* dropped handle has run all that was sent before it (migrate, Drop).
Implements == Atomic!Spec

\* A store that answers has every table of this build, no rebuild left to do
\* and no digest written from older facts, and between two commands its derived
\* tables are of the rows it holds, whatever build left the file and however
\* often opening it was cut off: the one exception is a file in which an ingest
\* was cut off before its rescore and nothing was rescored in full since, the
\* case DerivedFollowsEvents of Store.tla is about (migrate, rebuild_if_marked,
\* prune_stale_digests, do_ingest).
OpenedIsCurrent ==
  phase = "loop" => /\ Ready(db)
                    /\ cur = {} => db.derived = db.events \/ db.torn

\* A file that was cut off inside migration 4, after its first statement and
\* before its version row, is never answered from again; one cut off anywhere
\* else opens (migrate: the other migrations can run twice, and this one fails
\* on the table or the column it finds).  Its own comment says that "The whole
\* file runs inside one implicit transaction" (0004_signal_families.sql:7): if
\* it did, such a file would open like any other.
StuckExactlyMidV4 ==
  /\ phase = "failed" => cutIn4
  /\ cutIn4 => phase \in {"down", "migrate", "failed"}

\* Whoever polls a reply sees an answer or an error in the end: try_take never
\* answers "not yet" for ever.
EveryCallAnswered ==
  \A i \in 1 .. MaxCalls :
    (i \in DOMAIN reply /\ reply[i] = Atomic!None)
      ~> (i \in DOMAIN reply => reply[i] # Atomic!None)
=============================================================================
