---------------------------- MODULE AtomicStore ----------------------------
(***************************************************************************)
(* What crates/storage promises the threads that hold its handle: calls    *)
(* take effect one at a time, whole, in the order they were sent, and each *)
(* is answered from the rows it found or made.  When the actor thread dies *)
(* every call it had not answered says so; the call it was in the middle   *)
(* of may have been done in part, and no other one.                        *)
(***************************************************************************)
EXTENDS Integers, Sequences, FiniteSets

CONSTANT Row,      \* records, numbered by the day they are from
         Op,       \* the operations a caller may ask for
         MaxCalls  \* bound: calls per behaviour

VARIABLES
  rows,       \* the records the store holds
  retention,  \* the retention in force, in days; 0 keeps everything
  pending,    \* the calls sent and not yet done, in order
  reply,      \* what each call has been answered: `is` tells "none" yet, "lost"
  serving     \* calls are being taken

vars == <<rows, retention, pending, reply, serving>>

Expired(S, days) == {r \in S : days > 0 /\ \E n \in S : n - r > days}

\* The stages a call passes through, each a state the rows may be left in.
Inserted(S, op) == IF op.op = "ingest" THEN S \cup op.rows ELSE S
Done(S, days, op) ==
  CASE op.op = "ingest" -> Inserted(S, op) \ Expired(Inserted(S, op), days)
    [] op.op = "purge" -> S \ op.rows
    [] OTHER -> S

Answer(S, days, op) ==
  CASE op.op = "ingest" -> [is |-> "ingested", inserted |-> op.rows \ S,
                            pruned |-> Expired(Inserted(S, op), days)]
    [] op.op = "purge" -> [is |-> "purged", purged |-> op.rows \cap S]
    [] op.op = "retention" -> [is |-> "unasked"]
    [] OTHER -> [is |-> "read", rows |-> S]

None == [is |-> "none"]
Lost == [is |-> "lost"]
Unasked == [is |-> "unasked"]  \* a call that carries no reply channel
Fresh(op) == IF op.op = "retention" THEN Unasked ELSE None
Calls == DOMAIN reply

Init ==
  /\ rows \in SUBSET Row /\ retention = 0
  /\ pending = <<>> /\ reply = <<>> /\ serving = FALSE

Start == ~ serving /\ serving' = TRUE /\ UNCHANGED <<rows, retention, pending, reply>>

Send(op) ==
  /\ Len(reply) < MaxCalls
  /\ \/ /\ serving
        /\ pending' = Append(pending, [id |-> Len(reply) + 1, op |-> op])
        /\ reply' = Append(reply, Fresh(op))
     \/ /\ ~ serving
        /\ pending' = pending
        /\ reply' = Append(reply, IF Fresh(op) = None THEN Lost ELSE Unasked)
  /\ UNCHANGED <<rows, retention, serving>>

Serve ==
  /\ serving /\ pending # <<>>
  /\ LET call == Head(pending)
     IN  /\ rows' = Done(rows, retention, call.op)
         /\ retention' = IF call.op.op = "retention" THEN call.op.days ELSE retention
         /\ reply' = [reply EXCEPT ![call.id] = Answer(rows, retention, call.op)]
  /\ pending' = Tail(pending)
  /\ UNCHANGED serving

\* The rows the call in progress may be left at.
Cut == {rows} \cup
       IF pending = <<>> THEN {}
       ELSE {Inserted(rows, Head(pending).op), Done(rows, retention, Head(pending).op)}

Die ==
  /\ serving /\ serving' = FALSE
  /\ rows' \in Cut
  /\ reply' = [i \in Calls |-> IF reply[i] = None THEN Lost ELSE reply[i]]
  /\ pending' = <<>>
  /\ UNCHANGED retention

\* The handle is dropped when nothing is left to do; a new process starts
\* with no callers and no retention.
Close == serving /\ pending = <<>> /\ serving' = FALSE /\ UNCHANGED <<rows, retention, pending, reply>>
Restart ==
  /\ rows' \in Cut
  /\ retention' = 0 /\ pending' = <<>> /\ reply' = <<>> /\ serving' = FALSE

Next == Start \/ (\E op \in Op : Send(op)) \/ Serve \/ Die \/ Close \/ Restart

Spec == Init /\ [][Next]_vars
=============================================================================
