------------------------------ MODULE Analytics ------------------------------
(***************************************************************************)
(* The batch writer of internal/analytics: redirects put entries into a    *)
(* buffered channel, one goroutine collects them into batches and inserts  *)
(* each batch into request_log with one transaction (Store.                *)
(* BatchInsertLogs).  An entry is named by the request it is about.        *)
(***************************************************************************)
EXTENDS Integers, Redirects

CONSTANTS
  LogBuffer,   \* capacity of the log channel (10000)
  BatchSize    \* entries that make a batch full (100)

ASSUME PipelineAssumption ==
  LogBuffer \in Nat \ {0} /\ BatchSize \in Nat \ {0}

VARIABLES
  logCh,     \* the channel, oldest entry first
  batch,     \* what the writer has collected
  writer,    \* where the writer is
  draining,  \* the writer is in the loop that follows Stop
  done,      \* Stop was called
  dbOpen,    \* db.Close was not called yet
  rows       \* request_log, in the order rows were inserted

pipeVars == <<logCh, batch, writer, draining, done, dbOpen, rows>>

PipeInit ==
  /\ logCh = <<>>
  /\ batch = <<>>
  /\ writer = "select"
  /\ draining = FALSE
  /\ done = FALSE
  /\ dbOpen = TRUE
  /\ rows = <<>>

\* Mutants: a send that waits for room, and one that makes room.
SendWaiting(e) ==
  /\ Len(logCh) < LogBuffer
  /\ logCh' = Append(logCh, e)
  /\ UNCHANGED <<batch, writer, draining, done, dbOpen, rows>>
SendEvicting(e) ==
  /\ logCh' = Append(IF Len(logCh) < LogBuffer THEN logCh ELSE Tail(logCh), e)
  /\ UNCHANGED <<batch, writer, draining, done, dbOpen, rows>>

\* The send of ServeHTTP: an entry that finds the channel full is dropped.
Send(e) ==
  /\ logCh' = IF Len(logCh) < LogBuffer THEN Append(logCh, e) ELSE logCh
  /\ UNCHANGED <<batch, writer, draining, done, dbOpen, rows>>

-----------------------------------------------------------------------------
(* The writer.  select takes any of its ready cases. *)

Receive ==
  /\ writer = "select"
  /\ logCh # <<>>
  /\ batch' = Append(batch, Head(logCh))
  /\ logCh' = Tail(logCh)
  /\ writer' = IF ~draining /\ Len(batch') >= BatchSize THEN "insert" ELSE "select"
  /\ UNCHANGED <<draining, done, dbOpen, rows>>

\* Mutant: only full batches are flushed.
FlushWhenFull ==
  /\ writer = "select"
  /\ ~draining
  /\ Len(batch) >= BatchSize
  /\ writer' = "insert"
  /\ UNCHANGED <<logCh, batch, draining, done, dbOpen, rows>>

\* The 5 s ticker.
FlushTick ==
  /\ writer = "select"
  /\ ~draining
  /\ batch # <<>>
  /\ writer' = "insert"
  /\ UNCHANGED <<logCh, batch, draining, done, dbOpen, rows>>

StartDrain ==
  /\ writer = "select"
  /\ ~draining
  /\ done
  /\ draining' = TRUE
  /\ UNCHANGED <<logCh, batch, writer, done, dbOpen, rows>>

\* The default case: the channel is empty, the rest is flushed, the writer returns.
EndDrain ==
  /\ writer = "select"
  /\ draining
  /\ logCh = <<>>
  /\ writer' = IF batch = <<>> THEN "stopped" ELSE "insert"
  /\ UNCHANGED <<logCh, batch, draining, done, dbOpen, rows>>

-----------------------------------------------------------------------------
(* flush: one transaction, and the batch is emptied whatever came of it. *)

AfterFlush == IF draining THEN "stopped" ELSE "select"

BeginInsert ==
  /\ writer = "insert"
  /\ dbOpen
  /\ writer' = "commit"
  /\ UNCHANGED <<logCh, batch, draining, done, dbOpen, rows>>

Commit ==
  /\ writer = "commit"
  /\ rows' = rows \o batch
  /\ batch' = <<>>
  /\ writer' = AfterFlush
  /\ UNCHANGED <<logCh, draining, done, dbOpen>>

\* What a transaction that is cut off comes to: the COMMIT may have got through.
Outcomes == IF writer = "commit" THEN {rows, rows \o batch} ELSE {rows}

\* Mutant: a failed batch is kept and inserted again later.
InsertFailsRetrying ==
  /\ writer \in {"insert", "commit"}
  /\ rows' \in Outcomes
  /\ writer' = AfterFlush
  /\ UNCHANGED <<logCh, batch, draining, done, dbOpen>>

InsertFails ==
  /\ writer \in {"insert", "commit"}
  /\ rows' \in Outcomes
  /\ batch' = <<>>
  /\ writer' = AfterFlush
  /\ UNCHANGED <<logCh, draining, done, dbOpen>>

\* Begin fails once the database is closed.
InsertRefused == writer = "insert" /\ ~dbOpen /\ InsertFails

WriterStep ==
  \/ Receive \/ FlushTick \/ StartDrain \/ EndDrain
  \/ BeginInsert \/ Commit \/ InsertRefused

-----------------------------------------------------------------------------
(* What the rest of the process does to the pipeline. *)

StopPipeline ==
  /\ done' = TRUE
  /\ UNCHANGED <<logCh, batch, writer, draining, dbOpen, rows>>

CloseDB ==
  /\ dbOpen' = FALSE
  /\ UNCHANGED <<logCh, batch, writer, draining, done, rows>>

\* The process is gone, and with it all that was not in the table.
PipeEnds ==
  /\ rows' \in Outcomes
  /\ logCh' = <<>>
  /\ batch' = <<>>
  /\ writer' = "stopped"
  /\ UNCHANGED <<draining, done, dbOpen>>

PipeStarts ==
  /\ writer' = "select"
  /\ draining' = FALSE
  /\ done' = FALSE
  /\ dbOpen' = TRUE
  /\ UNCHANGED <<logCh, batch, rows>>

-----------------------------------------------------------------------------

PipeTypeOK ==
  /\ logCh \in Seq(Requests) /\ Len(logCh) <= LogBuffer
  /\ batch \in Seq(Requests)
  /\ ~draining => Len(batch) <= BatchSize
  /\ rows \in Seq(Requests)
  /\ writer \in {"select", "insert", "commit", "stopped"}
  /\ draining \in BOOLEAN /\ done \in BOOLEAN /\ dbOpen \in BOOLEAN
  /\ draining => done
  /\ writer \in {"insert", "commit"} => batch # <<>>
=============================================================================
