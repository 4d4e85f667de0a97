------------------------------ MODULE Snapshot ------------------------------
(***************************************************************************)
(* The hand-over from the worker to the API through the file system: the   *)
(* storage actor publishes immutable version directories and flips the     *)
(* LATEST pointer (storage do_publish_snapshot, prune_old_snapshots); the  *)
(* API resolves LATEST once for the ETag and once for the handler, and     *)
(* reads the directory it names (services/api).  The two processes share   *)
(* no lock; the publisher may die between any two steps, and the wall      *)
(* clock that names the versions may be set back.                          *)
(***************************************************************************)
EXTENDS Naturals, FiniteSets

CONSTANTS MaxTime,    \* bound: the clock
          MaxRev,     \* bound: changes of the worker's store
          Keep,       \* values of LES_PUBLISH_KEEP_LAST; 0 keeps every version
          Span,       \* versions that may appear while one request reads
          MaxCrashes, \* bound: publisher crashes and failed exports
          MaxSetBack  \* bound: times the clock is set back

ASSUME BoundAssumption ==
  /\ MaxTime \in Nat \ {0} /\ MaxRev \in Nat /\ Keep \subseteq Nat /\ Span \in Nat
  /\ MaxCrashes \in Nat /\ MaxSetBack \in Nat
\* A deployment that prunes keeps more versions than one request can see appear.
ASSUME SpanAssumption == \A k \in Keep \ {0} : Span < k

Version == 1 .. MaxTime          \* v<millis>, by its number
None == 0
NoRequest == [st |-> "idle", etag |-> None, dir |-> None, seen |-> 0]
NoCache == [etag |-> None, body |-> None]

VARIABLES
  keepLast, \* how many versions this deployment keeps
  now,      \* the wall clock both processes read
  rev,      \* revision of the worker's store
  dirs,     \* version directories: absent, partial or complete
  content,  \* the store revision a version was exported from
  latest,   \* the LATEST pointer
  pc, version, doomed,   \* the publisher: its step, its version, what is to be pruned
  req,      \* the request in progress
  cache,    \* the client's last good response: its ETag and what it said
  broken,   \* history: a request was answered with a 500 or from a torn directory
  dishonest,\* history: a 304 stood for a body other than the client's
  crashes, setBacks

publisher == <<keepLast, rev, dirs, content, latest, pc, version, doomed>>
client == <<req, cache, broken, dishonest>>
vars == <<now, publisher, client, crashes, setBacks>>

Init ==
  /\ keepLast \in Keep
  /\ now = 1 /\ rev = 0
  /\ dirs = [v \in Version |-> "absent"]
  /\ content = [v \in Version |-> 0]
  /\ latest = None /\ pc = "idle" /\ version = None /\ doomed = {}
  /\ req = NoRequest /\ cache = NoCache /\ broken = FALSE /\ dishonest = FALSE
  /\ crashes = 0 /\ setBacks = 0

\* The 30-second budget runs out: 408.
TimeOut ==
  /\ req.st # "idle"
  /\ req' = NoRequest
  /\ UNCHANGED <<now, publisher, cache, broken, dishonest, crashes, setBacks>>

-----------------------------------------------------------------------------
\* The publisher: do_publish_snapshot, inside the storage actor.

Existing == {v \in Version : dirs[v] # "absent"}

\* Mutant: no nudge, so a version that exists is written over.
FreshVersionAnyway(v) == v = now
\* v<now>, nudged past the versions that exist.
FreshVersion(v) ==
  /\ v >= now /\ v \notin Existing
  /\ \A w \in now .. v - 1 : w \in Existing

\* A cycle that inserted records: the version directory is created.  Two
\* publishes are more than a millisecond apart, so a name is taken only when
\* the clock has been set back.
Begin(v) ==
  /\ pc = "idle" /\ rev < MaxRev
  /\ now \in Existing => setBacks > 0
  /\ FreshVersion(v)
  /\ rev' = rev + 1
  /\ version' = v
  /\ dirs' = [dirs EXCEPT ![v] = "partial"]
  /\ content' = [content EXCEPT ![v] = rev']
  /\ pc' = "export"
  /\ UNCHANGED <<keepLast, now, latest, doomed, client, crashes, setBacks>>

\* The Parquet files and the manifest are in place.
ExportDone ==
  /\ pc = "export"
  /\ dirs' = [dirs EXCEPT ![version] = "complete"]
  /\ pc' = "flip"
  /\ UNCHANGED <<keepLast, now, rev, content, latest, version, doomed, client, crashes, setBacks>>

\* The export or the manifest fails: the error leaves the directory behind.
ExportFails ==
  /\ pc = "export"
  /\ crashes < MaxCrashes /\ crashes' = crashes + 1
  /\ pc' = "idle"
  /\ UNCHANGED <<keepLast, now, rev, dirs, content, latest, version, doomed, client, setBacks>>

\* prune_old_snapshots: the names beyond the newest keepLast, sorted as text
\* (all names have the same number of digits).
\* Mutant: one version too many is pruned.
StaleOneMore ==
  {v \in Existing : Cardinality({w \in Existing : w > v}) >= keepLast - 1}
Stale ==
  {v \in Existing : Cardinality({w \in Existing : w > v}) >= keepLast}

\* The request that is reading sees one more version appear.
Seen == IF req.st = "read" THEN [req EXCEPT !.seen = @ + 1] ELSE req

FlipFrom(steps) ==
  /\ pc \in steps
  /\ req.st = "read" => req.seen < Span
  /\ latest' = version
  /\ doomed' = IF keepLast = 0 THEN {} ELSE Stale
  /\ pc' = IF doomed' = {} THEN "idle" ELSE "prune"
  /\ req' = Seen
  /\ UNCHANGED <<keepLast, now, rev, dirs, content, version, cache, broken, dishonest, crashes, setBacks>>

\* Mutant: LATEST may be written before the export is complete.
FlipEarly == FlipFrom({"export", "flip"})
\* LATEST is replaced by rename; then the old versions are listed.
Flip == FlipFrom({"flip"})

\* remove_dir_all, newest first; a removal that fails part-way is skipped.
Prune(left) ==
  /\ pc = "prune"
  /\ LET v == CHOOSE w \in doomed : \A x \in doomed : x <= w
     IN /\ dirs' = [dirs EXCEPT ![v] = left]
        /\ doomed' = doomed \ {v}
  /\ pc' = IF doomed' = {} THEN "idle" ELSE "prune"
  /\ UNCHANGED <<keepLast, now, rev, content, latest, version, client, crashes, setBacks>>

\* The worker dies and is restarted: what it had written stays.
Crash ==
  /\ crashes < MaxCrashes /\ crashes' = crashes + 1
  /\ pc # "idle"
  /\ pc' = "idle" /\ doomed' = {} /\ version' = None
  /\ UNCHANGED <<keepLast, now, rev, dirs, content, latest, client, setBacks>>

-----------------------------------------------------------------------------
\* The API: one client's requests, one after another.

Request ==
  /\ req.st = "idle"
  /\ req' = [NoRequest EXCEPT !.st = "etag"]
  /\ UNCHANGED <<now, publisher, cache, broken, dishonest, crashes, setBacks>>

\* Mutant: any If-None-Match of a known version gets a 304.
MatchesLoosely == cache.etag # None /\ latest # None
Matches == cache.etag # None /\ cache.etag = latest

\* etag_middleware up to next.run: the version for the ETag is resolved here.
\* The client sends the ETag it holds; what a version says is its content.
Conditional ==
  /\ req.st = "etag"
  /\ IF Matches
     THEN /\ req' = NoRequest
          /\ dishonest' = (dishonest \/ cache.body # content[latest])
     ELSE /\ req' = [req EXCEPT !.st = "handler", !.etag = latest]
          /\ UNCHANGED dishonest
  /\ UNCHANGED <<now, publisher, cache, broken, crashes, setBacks>>

\* resolve_snapshot in the handler; 503 before the first publish.
Resolve ==
  /\ req.st = "handler"
  /\ req' = IF latest = None THEN NoRequest ELSE [req EXCEPT !.st = "read", !.dir = latest]
  /\ UNCHANGED <<now, publisher, cache, broken, dishonest, crashes, setBacks>>

\* The handler reads the directory it resolved; the middleware stamps the ETag.
Read ==
  /\ req.st = "read"
  /\ req' = NoRequest
  /\ IF dirs[req.dir] = "complete"
     THEN /\ cache' = [etag |-> req.etag, body |-> content[req.dir]]
          /\ UNCHANGED broken
     ELSE broken' = TRUE /\ UNCHANGED cache
  /\ UNCHANGED <<now, publisher, dishonest, crashes, setBacks>>

-----------------------------------------------------------------------------
Tick ==
  /\ now < MaxTime /\ now' = now + 1
  /\ UNCHANGED <<publisher, client, crashes, setBacks>>

SetBack ==
  /\ setBacks < MaxSetBack /\ setBacks' = setBacks + 1
  /\ now' \in 1 .. now - 1
  /\ UNCHANGED <<publisher, client, crashes>>

Next ==
  \/ \E v \in Version : Begin(v)
  \/ ExportDone \/ ExportFails \/ Flip
  \/ \E left \in {"absent", "partial"} : Prune(left)
  \/ Crash
  \/ Request \/ Conditional \/ Resolve \/ Read \/ TimeOut
  \/ Tick \/ SetBack

Spec == Init /\ [][Next]_vars

-----------------------------------------------------------------------------
\* Names sort by age until the clock is set back; without pruning the order
\* does not matter.
Orderly == keepLast = 0 \/ setBacks = 0

\* "services/api never observes a half-written pointer" (do_publish_snapshot):
\* whatever step the publisher died or failed at, and whatever was pruned,
\* LATEST names a complete snapshot.
LatestResolves ==
  Orderly /\ latest # None => dirs[latest] = "complete"

\* docs/API.md:43-45 "Each version directory is immutable once published - the
\* api can read it without any lock": no request is answered with an error or
\* from a torn directory, as long as fewer than keepLast versions appear while
\* it reads and no failed export has left a directory behind that takes the
\* place of a version.
ReadsWhole == keepLast = 0 \/ (crashes = 0 /\ setBacks = 0) => ~broken

\* docs/API.md:76-79 and etag_middleware: an "unchanged version guarantees an
\* unchanged response body", so a 304 stands for the body the client holds even
\* when that body came from a newer version than its ETag.
NotModifiedHonest == Orderly => ~dishonest
=============================================================================
