--------------------------- MODULE InstanceConfig ---------------------------
(***************************************************************************)
(* The configuration of one voice agent instance on the control plane, as  *)
(* the staff edits it, publishes and rolls back revisions of it, deletes,  *)
(* restores and purges it (routes/customer_services.py, knowledge.py and   *)
(* config_revisions.py), while calls begin that use it.                    *)
(*                                                                         *)
(* Each database call is a transaction of its own.  Rows are protected by  *)
(* a version that edits and rollbacks check, and by what Postgres checks:  *)
(* the unique revision number and the foreign keys of revisions and calls, *)
(* which have no ON DELETE action.                                         *)
(*                                                                         *)
(* A content is named by the request that wrote it.  Applying the          *)
(* knowledge documents to the prompt is an edit like the others.  Not      *)
(* modelled are the other tables that refer to an instance and its move to *)
(* another tenant.                                                         *)
(***************************************************************************)
EXTENDS Naturals, FiniteSets

CONSTANTS
  Request,   \* requests of the staff and calls: the bound of the model
  Seed,      \* the content the instance begins with
  None

VARIABLES
  row,        \* the row of the instance
  revisions,  \* table instance_config_revisions
  called,     \* there are call records of the instance
  req,        \* the requests
  before,     \* history: <<p, q>> if p was over when q's handler began
  revived     \* history: a save has brought a purged instance back

vars == <<row, revisions, called, req, before, revived>>

Content == Request \cup {Seed}

Row == [version: Nat \ {0}, content: Content, deleted: BOOLEAN]

\* version is not stored with a revision: it tells what it is a snapshot of.
\* by: the request that recorded it; the first one came with the instance.
Revision == [no: Nat \ {0}, content: Content, version: Nat \ {0}, by: Content]

\* seen: the row when its author loaded it, with expected_version; was: the
\* row the handler has read, and then what it has saved; content: what it is
\* to save; no: the revision number it has picked.
Req == [kind: {"edit", "rollback", "publish", "purge", "call"},
        stage: {"new", "target", "save", "latest", "add", "calls", "remove",
                "insert", "ok", "refused", "failed"},
        seen: Row, was: Row, content: Content, no: Nat]

ASSUME ConfigAssumption ==
  Seed \notin Request /\ None \notin Request /\ None \notin Row /\ None \notin Req

TypeOK ==
  /\ row \in Row \cup {None}
  /\ revisions \subseteq Revision
  /\ called \in BOOLEAN
  /\ req \in [Request -> Req \cup {None}]
  /\ before \subseteq Content \X Request
  /\ revived \in BOOLEAN

\* An instance that was just created, with its first revision, or without it:
\* seeded, or its snapshot has failed (create_customer_service, record_snapshot).
Init ==
  /\ row = [version |-> 1, content |-> Seed, deleted |-> FALSE]
  /\ called = FALSE
  /\ req = [q \in Request |-> None]
  /\ before = {} /\ revived = FALSE
  /\ \/ revisions = {}
     \/ revisions = {[no |-> 1, content |-> Seed, version |-> 1, by |-> Seed]}

-----------------------------------------------------------------------------

At(q, stage) == req[q] # None /\ req[q].stage = stage

Over(q) == req[q] # None /\ req[q].stage \in {"ok", "refused", "failed"}

Go(q, stage) == req' = [req EXCEPT ![q].stage = stage]

\* CustomerServiceRepository.get.
Visible == row # None /\ ~row.deleted

New(q, kind, stage) ==
  [kind |-> kind, stage |-> stage, seen |-> row, was |-> row, content |-> q,
   no |-> 0]

\* Somebody loads the instance to edit it or to roll it back.
Opens(q, kind) ==
  /\ req[q] = None /\ Visible
  /\ req' = [req EXCEPT ![q] = New(q, kind, "new")]
  /\ UNCHANGED <<row, revisions, called, before, revived>>

Starts(q) == before' = before \cup ({Seed} \cup {p \in Request : Over(p)}) \X {q}

\* The handler of the change reads the instance, and refuses if it is not the
\* version its author has seen (expected_version).
Begin(q) ==
  /\ At(q, "new") /\ Starts(q)
  /\ IF Visible /\ req[q].seen.version = row.version
     THEN req' = [req EXCEPT ![q].was = row, ![q].stage =
            IF req[q].kind = "edit" THEN "save" ELSE "target"]
     ELSE Go(q, "refused")
  /\ UNCHANGED <<row, revisions, called, revived>>

\* publish_config, purge_customer_service and a call begin with the instance
\* as it is; a purge only with a deleted one.
Arrives(q, kind, stage) ==
  /\ req[q] = None /\ Starts(q)
  /\ IF kind = "purge" THEN row # None /\ row.deleted ELSE Visible
  /\ req' = [req EXCEPT ![q] = New(q, kind, stage)]
  /\ UNCHANGED <<row, revisions, called, revived>>

\* rollback_config: the revision to go back to.
FindTarget(q) ==
  /\ At(q, "target")
  /\ \/ revisions = {} /\ Go(q, "refused")
     \/ \E r \in revisions :
          req' = [req EXCEPT ![q].content = r.content, ![q].stage = "save"]
  /\ UNCHANGED <<row, revisions, called, before, revived>>

\* Slip: the row is saved whatever version it has.
SavesOverAny(q) == row # None

\* The UPDATE of save finds the row only in the version that was read ...
SavesOver(q) == row # None /\ row.version = req[q].was.version

\* ... and where there is no row at all, save inserts it.
Save(q) ==
  /\ At(q, "save")
  /\ IF row # None /\ ~SavesOver(q)
     THEN Go(q, "refused") /\ UNCHANGED <<row, revived>>
     ELSE LET new == [version |-> req[q].was.version + 1,
                      content |-> req[q].content, deleted |-> req[q].was.deleted]
          IN  /\ row' = new
              /\ revived' = (revived \/ row = None)
              /\ req' = [req EXCEPT ![q].was = new,
                   ![q].stage = IF req[q].kind = "edit" THEN "ok" ELSE "latest"]
  /\ UNCHANGED <<revisions, called, before>>

\* Slip: numbers begin at zero.
NumbersFromZero == {0} \cup {r.no + 1 : r \in revisions}

\* record_snapshot takes the highest of these.
Numbers == {1} \cup {r.no + 1 : r \in revisions}

PickNumber(q) ==
  /\ At(q, "latest")
  /\ \E n \in Numbers :
       /\ \A m \in Numbers : m =< n
       /\ req' = [req EXCEPT ![q].no = n, ![q].stage = "add"]
  /\ UNCHANGED <<row, revisions, called, before, revived>>

\* Slip: without an index a number is stored a second time.
NeverTaken(q) == FALSE

\* The unique index of the table.
Taken(q) == \E r \in revisions : r.no = req[q].no

\* ConfigRevisionRepository.add: a number that is taken, or an instance that
\* is gone, is an error nobody catches.
Add(q) ==
  /\ At(q, "add")
  /\ IF row = None \/ Taken(q)
     THEN Go(q, "failed") /\ UNCHANGED revisions
     ELSE /\ Go(q, "ok")
          /\ revisions' = revisions \cup
               {[no |-> req[q].no, content |-> req[q].was.content,
                 version |-> req[q].was.version, by |-> q]}
  /\ UNCHANGED <<row, called, before, revived>>

\* soft_delete and restore: the version stays.
SetDeleted(deleted) ==
  /\ row # None /\ row.deleted # deleted
  /\ row' = [row EXCEPT !.deleted = deleted]
  /\ UNCHANGED <<revisions, called, req, before, revived>>

\* purge_customer_service: first the calls are looked for, ...
FindCalls(q) ==
  /\ At(q, "calls")
  /\ Go(q, IF called THEN "refused" ELSE "remove")
  /\ UNCHANGED <<row, revisions, called, before, revived>>

\* ... then hard_delete runs into the foreign keys, or not.
HardDelete(q) ==
  /\ At(q, "remove")
  /\ IF row # None /\ (called \/ revisions # {})
     THEN Go(q, "failed") /\ UNCHANGED row
     ELSE Go(q, "ok") /\ row' = None
  /\ UNCHANGED <<revisions, called, before, revived>>

\* CallLifecycleService.start saves the record of a call.
RecordCall(q) ==
  /\ At(q, "insert")
  /\ IF row = None THEN Go(q, "failed") /\ UNCHANGED called
     ELSE Go(q, "ok") /\ called' = TRUE
  /\ UNCHANGED <<row, revisions, before, revived>>

Next ==
  \/ \E q \in Request :
       \/ \E kind \in {"edit", "rollback"} : Opens(q, kind)
       \/ Arrives(q, "publish", "latest") \/ Arrives(q, "purge", "calls")
       \/ Arrives(q, "call", "insert")
       \/ Begin(q) \/ FindTarget(q) \/ Save(q) \/ PickNumber(q) \/ Add(q)
       \/ FindCalls(q) \/ HardDelete(q) \/ RecordCall(q)
  \/ \E deleted \in BOOLEAN : SetDeleted(deleted)

Spec == Init /\ [][Next]_vars

-----------------------------------------------------------------------------
\* Properties.

\* Whatever two people do to an instance at once, an accepted edit or rollback
\* replaces exactly the content its author has seen, and a deleted instance
\* changes only through a request that had read it before it was deleted, or
\* by being restored (expected_version, and the UPDATE of save).  After a save
\* has inserted a purged instance again, versions no longer tell contents
\* apart and the first half is lost.
NoLostUpdate ==
  [][(row # None /\ row' # None) =>
       \/ row' = [row EXCEPT !.deleted = ~@]
       \/ \E q \in Request : /\ At(q, "save")
                             /\ revived \/ req[q].seen.content = row.content
                             /\ row' = [version |-> row.version + 1,
                                        content |-> req[q].content,
                                        deleted |-> FALSE]]_row

Overlapped(p, q) == <<p, q>> \notin before /\ <<q, p>> \notin before

\* Revisions are numbered in a row, and a higher number is an older
\* configuration only if both were recorded at the same time: reading,
\* numbering and storing are three transactions (record_snapshot).
PublishedInOrder ==
  /\ \A r \in revisions : \A n \in 1..r.no : \E s \in revisions : s.no = n
  /\ \A r, s \in revisions : r.no = s.no => r = s
  /\ ~revived =>
       \A r, s \in revisions :
         r.no < s.no /\ r.version > s.version => Overlapped(r.by, s.by)

\* What 2026-08-17-voice-agent-instance-a3-soft-delete-design.md:105 says: a
\* purge of a deleted instance without calls removes it.
PurgeRemoves ==
  [][\A q \in Request :
       At(q, "remove") /\ ~called /\ row # None /\ row.deleted
       /\ req'[q].stage # "remove" => row' = None]_vars

=============================================================================
