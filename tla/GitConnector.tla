---------------------------- MODULE GitConnector ----------------------------
(***************************************************************************)
(* The Git connector: src/connectors/git.py, with the documents it keeps   *)
(* through src/rag/vector_store.py. A sync is one call of sync(), in any   *)
(* process; each request to GitHub and each transaction is an action. A    *)
(* commit is its number, which also stands for its date and its sha, and   *)
(* touches one file. Ingest items, runs and audit records only tell what   *)
(* happened and are left out, as are the chunks, which live and die with   *)
(* their document, and the readers of a document.                          *)
(***************************************************************************)
EXTENDS Integers, Sequences, FiniteSets, SequencesExt

CONSTANTS
  Syncs,        \* calls of sync()
  Files,        \* files of the repository
  MaxCommits,   \* bound on the history
  PerPage       \* commits that one request lists

ASSUME GitAssumption == MaxCommits \in Nat /\ PerPage \in Nat \ {0}

VARIABLES
  history,      \* the commits of the repository
  cursor,       \* connector_cursors: the date of the newest commit that was seen
  document,     \* the row that each commit's revision of its file has in documents
  sync,         \* the calls
  broken        \* history: a sync has failed or died

gitVars == <<history, cursor, document, sync, broken>>

Commits == 1..MaxCommits

Idle == [pc |-> "idle", before |-> 0, after |-> 0, todo |-> <<>>, found |-> <<>>]

GitInit ==
  /\ history = <<>>
  /\ cursor = 0
  /\ document = [c \in Commits |-> "absent"]
  /\ sync = [s \in Syncs |-> Idle]
  /\ broken = FALSE

Pc(s) == sync[s].pc

FileOf(c) == history[c].file

\* The revisions of a file share the prefix of its source URI.
Revisions(f) == {c \in 1..Len(history) : FileOf(c) = f}

\* Defect: only what is older than the revision to keep is revoked.
RevokedOlder(f, keep) ==
  [c \in Commits |-> IF c \in Revisions(f) /\ document[c] = "ready" /\ \A k \in keep : c < k
                     THEN "deleted" ELSE document[c]]

\* revoke_source_prefix: all ready documents of a file but one.
Revoked(f, keep) ==
  [c \in Commits |-> IF c \in Revisions(f) \ keep /\ document[c] = "ready"
                     THEN "deleted" ELSE document[c]]

PushCommit(f, status) ==
  /\ Len(history) < MaxCommits
  /\ history' = Append(history, [file |-> f, status |-> status])
  /\ UNCHANGED <<cursor, document, sync, broken>>

BeginSync(s) ==
  /\ Pc(s) = "idle"
  /\ sync' = [sync EXCEPT ![s] = [Idle EXCEPT !.pc = "list", !.before = cursor]]
  /\ UNCHANGED <<history, cursor, document, broken>>

\* The newest commits since the cursor, that one included, at most a page of them, newest first.
Listed(before) ==
  LET since == IF before = 0 THEN Len(history) ELSE Len(history) - before + 1
      length == IF since < PerPage THEN since ELSE PerPage
  IN  [i \in 1..length |-> Len(history) + 1 - i]

ListCommits(s) ==
  /\ Pc(s) = "list"
  /\ LET commits == Listed(sync[s].before)
     IN  sync' = [sync EXCEPT ![s] = [@ EXCEPT
           !.pc = "fetch", !.before = 0, !.todo = commits,
           !.after = IF commits = <<>> THEN sync[s].before ELSE Head(commits)]]
  /\ UNCHANGED <<history, cursor, document, broken>>

AfterFetch(s) == IF sync[s].found = <<>> THEN "commit" ELSE "index"

\* _documents, one commit: a removed file is revoked at once, a revision that is binary, too large or
\* has secrets is not indexed.
FetchCommit(s) ==
  /\ Pc(s) = "fetch"
  /\ IF sync[s].todo = <<>>
     THEN /\ sync' = [sync EXCEPT ![s] = [@ EXCEPT !.pc = AfterFetch(s), !.todo = sync[s].found]]
          /\ UNCHANGED document
     ELSE LET c == Head(sync[s].todo)
              rest == [sync EXCEPT ![s].todo = Tail(@)]
          IN  IF history[c].status = "removed"
              THEN sync' = rest /\ document' = Revoked(FileOf(c), {})
              ELSE /\ UNCHANGED document
                   /\ \/ sync' = rest
                      \/ sync' = [rest EXCEPT ![s].found = Append(@, c)]
  /\ UNCHANGED <<history, cursor, broken>>

\* Where a call goes when the list it works through is done.
Work(s, following) ==
  sync' = IF Len(sync[s].todo) > 1 THEN [sync EXCEPT ![s].todo = Tail(@)]
          ELSE [sync EXCEPT ![s].pc = following, ![s].todo = sync[s].found]

\* add_documents: a row of the same source and content is taken as it is, whatever its status.
IndexRevision(s) ==
  /\ Pc(s) = "index"
  /\ LET c == Head(sync[s].todo)
     IN  document' = IF document[c] = "absent" THEN [document EXCEPT ![c] = "ready"] ELSE document
  /\ Work(s, "prune")
  /\ UNCHANGED <<history, cursor, broken>>

\* After all revisions are stored, each one revokes the others of its file, so two revisions of one file
\* in one sync revoke each other.
PruneOthers(s) ==
  /\ Pc(s) = "prune"
  /\ LET c == Head(sync[s].todo) IN document' = Revoked(FileOf(c), {c})
  /\ Work(s, "commit")
  /\ UNCHANGED <<history, cursor, broken>>

SaveCursor(s) ==
  /\ Pc(s) = "commit"
  /\ cursor' = sync[s].after
  /\ sync' = [sync EXCEPT ![s] = Idle]
  /\ UNCHANGED <<history, document, broken>>

\* An error, which leaves the cursor where it was, or the death of the process. Bound: one of them.
FailSync(s) ==
  /\ Pc(s) # "idle" /\ ~broken
  /\ sync' = [sync EXCEPT ![s] = Idle]
  /\ broken' = TRUE
  /\ UNCHANGED <<history, cursor, document>>

\* revoke_source, by an administrator.
RevokeGitSource(c) ==
  /\ document[c] = "ready"
  /\ document' = [document EXCEPT ![c] = "deleted"]
  /\ UNCHANGED <<history, cursor, sync, broken>>

SyncStep(s) ==
  \/ BeginSync(s) \/ ListCommits(s) \/ FetchCommit(s) \/ IndexRevision(s) \/ PruneOthers(s)
  \/ SaveCursor(s) \/ FailSync(s)

GitStep ==
  \/ \E f \in Files, status \in {"modified", "removed"} : PushCommit(f, status)
  \/ \E s \in Syncs : SyncStep(s)
  \/ \E c \in Commits : RevokeGitSource(c)

---------------------------------------------------------------------------
GitTypeOK ==
  /\ history \in Seq([file : Files, status : {"modified", "removed"}])
  /\ cursor \in 0..MaxCommits
  /\ document \in [Commits -> {"absent", "ready", "deleted"}]
  /\ \A s \in Syncs : IsInjective(sync[s].todo) /\ IsInjective(sync[s].found)

\* Retrieval never has two revisions of a file to choose from for good: only while a sync is under way,
\* or after one that failed, can more than one be ready, however many syncs run at the same time, with
\* whatever lists they have read.
OneRevisionPerFile ==
  ~broken /\ (\A s \in Syncs : Pc(s) = "idle") =>
    \A f \in Files : Cardinality({c \in Revisions(f) : document[c] = "ready"}) <= 1
=============================================================================
