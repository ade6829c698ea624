------------------------------ MODULE Storage ------------------------------
(***************************************************************************)
(* Cover images on the platform: the table uploads and the bucket that holds   *)
(* the objects (routes/api.uploads.ts, storage.ts), the drafts and pages that   *)
(* refer to them (db.ts and the triggers of migrations/0002), and the hourly     *)
(* pass that removes what nothing refers to.                                     *)
(*                                                                             *)
(* The table and the bucket cannot be written together, and a request or a pass  *)
(* may die between any two of its calls.  Keys are random, so nobody names a key  *)
(* before its upload has answered.  One creator; a page belongs to its draft.     *)
(***************************************************************************)
EXTENDS Integers, FiniteSets, Sequences

CONSTANTS
  Keys,      \* keys of uploads
  Drafts,    \* drafts
  Uploads,   \* upload requests that may run at the same time
  Requests,  \* requests to delete an image
  None,      \* no cover, no key
  NoPage,    \* no page
  Quota,     \* uploads a creator may have (20)
  Limit      \* uploads one pass looks at (50)

StorageAssumption ==
  /\ Quota \in Nat \ {0} /\ Limit \in Nat \ {0} /\ None \notin Keys
  /\ NoPage \notin Keys \union {None}
  /\ IsFiniteSet(Keys)

VARIABLES
  row,      \* the state of each key's row in the table uploads
  born,     \* the keys in the order of created_at
  old,      \* the keys whose rows are older than a week
  bucket,   \* the keys with an object
  known,    \* the keys that have been answered to the creator
  upload,   \* the upload requests
  draft,    \* the table drafts
  page,     \* the cover of each draft's page, or its absence
  publish,  \* the requests that publish a draft
  remove,   \* the requests to delete an image
  pass      \* the hourly pass

vars == <<row, born, old, bucket, known, upload, draft, page, publish, remove, pass>>

Covers == Keys \union {None}

RowStates == {"unused", "pending", "ready", "deleting", "gone"}

InTable(k) == row[k] \in {"pending", "ready", "deleting"}

Idle == [at |-> "idle", key |-> None]

NoDraft == [status |-> "none", cover |-> None]

Init ==
  /\ row = [k \in Keys |-> "unused"]
  /\ born = <<>>
  /\ old = {}
  /\ bucket = {}
  /\ known = {}
  /\ upload = [u \in Uploads |-> Idle]
  /\ draft = [d \in Drafts |-> NoDraft]
  /\ page = [d \in Drafts |-> NoPage]
  /\ publish = [d \in Drafts |-> Idle]
  /\ remove = [r \in Requests |-> Idle]
  /\ pass = [at |-> "idle", key |-> None, todo |-> {}]

\* What the statements of retireUpload and expiredUploads look at.
OnPage(k) == \E d \in Drafts : page[d] = k

InDraft(k) == \E d \in Drafts : draft[d].cover = k

Referenced(k) == OnPage(k) \/ InDraft(k)

\* The trigger uploads_insert_budget: rows count in every state.
HasBudget == Cardinality({k \in Keys : InTable(k)}) < Quota

(***************************************************************************)
(* Uploading: the row is reserved, the object written, the row completed, the *)
(* key answered.                                                              *)
(***************************************************************************)
Reserve(u, k) ==
  /\ upload[u].at = "idle"
  /\ row[k] = "unused"
  /\ HasBudget
  /\ row' = [row EXCEPT ![k] = "pending"]
  /\ born' = Append(born, k)
  /\ upload' = [upload EXCEPT ![u] = [at |-> "put", key |-> k]]
  /\ UNCHANGED <<old, bucket, known, draft, page, publish, remove, pass>>

Put(u) ==
  /\ upload[u].at = "put"
  /\ bucket' = bucket \union {upload[u].key}
  /\ upload' = [upload EXCEPT ![u].at = "complete"]
  /\ UNCHANGED <<row, born, old, known, draft, page, publish, remove, pass>>

Completed(k) == row' = IF row[k] = "pending" THEN [row EXCEPT ![k] = "ready"] ELSE row

Complete(u) ==
  /\ upload[u].at = "complete"
  /\ Completed(upload[u].key)
  /\ known' = known \union {upload[u].key}
  /\ upload' = [upload EXCEPT ![u] = Idle]
  /\ UNCHANGED <<born, old, bucket, draft, page, publish, remove, pass>>

\* A call fails, with or without its effect, or the answer is lost.
UploadDies(u) ==
  /\ upload[u].at # "idle"
  /\ \/ UNCHANGED <<row, bucket>>
     \/ /\ upload[u].at = "put"
        /\ bucket' = bucket \union {upload[u].key}
        /\ UNCHANGED row
     \/ upload[u].at = "complete" /\ Completed(upload[u].key) /\ UNCHANGED bucket
  /\ upload' = [upload EXCEPT ![u] = Idle]
  /\ UNCHANGED <<born, old, known, draft, page, publish, remove, pass>>

\* A week passes; no request takes so long.
Age(k) ==
  /\ InTable(k) /\ k \notin old
  /\ \A u \in Uploads : upload[u].key # k
  /\ old' = old \union {k}
  /\ UNCHANGED <<row, born, bucket, known, upload, draft, page, publish, remove, pass>>

(***************************************************************************)
(* Drafts and pages.  The triggers refuse a cover that is not ready.           *)
(***************************************************************************)
Available(c) == c # None => row[c] = "ready"

Sendable == known \union {None}

SaveDraft(d, c) ==
  /\ draft[d].status \in {"none", "editing"}
  /\ c \in Sendable /\ Available(c)
  /\ draft' = [draft EXCEPT ![d] = [status |-> "editing", cover |-> c]]
  /\ UNCHANGED <<row, born, old, bucket, known, upload, page, publish, remove, pass>>

\* Mutant: a draft that is being launched may be discarded.
DiscardAny(d) ==
  /\ draft[d].status \in {"editing", "signing"}
  /\ draft' = [draft EXCEPT ![d] = NoDraft]
  /\ UNCHANGED <<row, born, old, bucket, known, upload, page, publish, remove, pass>>

DiscardDraft(d) ==
  /\ draft[d].status = "editing"
  /\ draft' = [draft EXCEPT ![d] = NoDraft]
  /\ UNCHANGED <<row, born, old, bucket, known, upload, page, publish, remove, pass>>

Pin(d) ==
  /\ draft[d].status = "editing"
  /\ draft' = [draft EXCEPT ![d].status = "signing"]
  /\ UNCHANGED <<row, born, old, bucket, known, upload, page, publish, remove, pass>>

\* Publishing reads the draft and the chain before it inserts the page.
ReadDraft(d) ==
  /\ publish[d].at = "idle"
  /\ draft[d].status \in {"signing", "published"} /\ page[d] = NoPage
  /\ publish' = [publish EXCEPT ![d] = [at |-> "insert", key |-> draft[d].cover]]
  /\ UNCHANGED <<row, born, old, bucket, known, upload, draft, page, remove, pass>>

InsertPage(d) ==
  /\ publish[d].at = "insert"
  /\ page[d] = NoPage /\ Available(publish[d].key)
  /\ page' = [page EXCEPT ![d] = publish[d].key]
  /\ publish' = [publish EXCEPT ![d].at = "mark"]
  /\ UNCHANGED <<row, born, old, bucket, known, upload, draft, remove, pass>>

MarkPublished(d) ==
  /\ publish[d].at = "mark"
  /\ draft' = [draft EXCEPT ![d].status = "published"]
  /\ publish' = [publish EXCEPT ![d] = Idle]
  /\ UNCHANGED <<row, born, old, bucket, known, upload, page, remove, pass>>

PublishDies(d) ==
  /\ publish[d].at # "idle"
  /\ publish' = [publish EXCEPT ![d] = Idle]
  /\ UNCHANGED <<row, born, old, bucket, known, upload, draft, page, remove, pass>>

\* The creator's form: the cover is the page's own or an upload of theirs.
UpdateDisplay(d, c) ==
  /\ page[d] # NoPage
  /\ c \in Sendable /\ Available(c)
  /\ page' = [page EXCEPT ![d] = c]
  /\ UNCHANGED <<row, born, old, bucket, known, upload, draft, publish, remove, pass>>

(***************************************************************************)
(* Deleting: the row is fenced, the object deleted, the row deleted.           *)
(***************************************************************************)
\* Mutant: drafts are not looked at.
OffPages(k) == InTable(k) /\ ~OnPage(k)

\* retireUpload: its condition.
MayRetire(k) == InTable(k) /\ ~Referenced(k)

Retired(k) == row' = [row EXCEPT ![k] = "deleting"]

RowDeleted(k) == row' = IF row[k] = "deleting" THEN [row EXCEPT ![k] = "gone"] ELSE row

Retire(r, k) ==
  /\ remove[r].at = "idle"
  /\ k \in known
  /\ MayRetire(k)
  /\ Retired(k)
  /\ remove' = [remove EXCEPT ![r] = [at |-> "object", key |-> k]]
  /\ UNCHANGED <<born, old, bucket, known, upload, draft, page, publish, pass>>

DeleteObject(r) ==
  /\ remove[r].at = "object"
  /\ bucket' = bucket \ {remove[r].key}
  /\ remove' = [remove EXCEPT ![r].at = "row"]
  /\ UNCHANGED <<row, born, old, known, upload, draft, page, publish, pass>>

DeleteRow(r) ==
  /\ remove[r].at = "row"
  /\ RowDeleted(remove[r].key)
  /\ remove' = [remove EXCEPT ![r] = Idle]
  /\ UNCHANGED <<born, old, bucket, known, upload, draft, page, publish, pass>>

\* The bucket does not answer, with or without having deleted, or the request
\* dies.
RemoveDies(r) ==
  /\ remove[r].at # "idle"
  /\ bucket' \in {bucket, IF remove[r].at = "object" THEN bucket \ {remove[r].key} ELSE bucket}
  /\ remove' = [remove EXCEPT ![r] = Idle]
  /\ UNCHANGED <<row, born, old, known, upload, draft, page, publish, pass>>

(***************************************************************************)
(* The hourly pass: it deletes drafts that have not been touched for a month,  *)
(* lists the oldest uploads that are unused, and deletes one after another.     *)
(***************************************************************************)
\* expiredUploads: its condition.
IsExpired(k) == InTable(k) /\ (row[k] = "deleting" \/ k \in old) /\ ~Referenced(k)

\* ORDER BY created_at.
Before(j, k) == \E i \in DOMAIN born, n \in DOMAIN born : i < n /\ born[i] = j /\ born[n] = k

Expired ==
  LET all == {k \in Keys : IsExpired(k)}
  IN  {k \in all : Cardinality({j \in all : Before(j, k)}) < Limit}

NoPass == [at |-> "idle", key |-> None, todo |-> {}]

StartPass(gone) ==
  /\ pass.at = "idle"
  /\ \A d \in gone : draft[d].status = "editing"
  /\ draft' = [d \in Drafts |-> IF d \in gone THEN NoDraft ELSE draft[d]]
  /\ pass' = [pass EXCEPT !.at = "list"]
  /\ UNCHANGED <<row, born, old, bucket, known, upload, page, publish, remove>>

ListUploads ==
  /\ pass.at = "list"
  /\ pass' = IF Expired = {} THEN NoPass ELSE [pass EXCEPT !.at = "retire", !.todo = Expired]
  /\ UNCHANGED <<row, born, old, bucket, known, upload, draft, page, publish, remove>>

\* The pass after one upload.
NextUpload(k) == IF pass.todo = {k} THEN NoPass
                 ELSE [at |-> "retire", key |-> None, todo |-> pass.todo \ {k}]

PassRetire(k) ==
  /\ pass.at = "retire"
  /\ k \in pass.todo /\ \A j \in pass.todo \ {k} : Before(k, j)
  /\ \/ /\ MayRetire(k)
        /\ Retired(k)
        /\ pass' = [pass EXCEPT !.at = "object", !.key = k]
     \/ /\ ~MayRetire(k)
        /\ pass' = NextUpload(k)
        /\ UNCHANGED row
  /\ UNCHANGED <<born, old, bucket, known, upload, draft, page, publish, remove>>

PassObject ==
  /\ pass.at = "object"
  /\ bucket' = bucket \ {pass.key}
  /\ pass' = [pass EXCEPT !.at = "row"]
  /\ UNCHANGED <<row, born, old, known, upload, draft, page, publish, remove>>

PassRow ==
  /\ pass.at = "row"
  /\ RowDeleted(pass.key)
  /\ pass' = NextUpload(pass.key)
  /\ UNCHANGED <<born, old, bucket, known, upload, draft, page, publish, remove>>

\* Mutant: a pass whose bucket does not answer goes on with the row.
PassGoesOn ==
  /\ pass.at # "idle"
  /\ pass' = IF pass.at = "object" THEN [pass EXCEPT !.at = "row"] ELSE NoPass
  /\ UNCHANGED <<row, born, old, bucket, known, upload, draft, page, publish, remove>>

\* The first failure ends the pass, whatever is left of its list.
PassDies ==
  /\ pass.at # "idle"
  /\ bucket' \in {bucket, bucket \ {pass.key}}
  /\ pass.at \in {"list", "retire", "row"} => UNCHANGED bucket
  /\ pass' = NoPass
  /\ UNCHANGED <<row, born, old, known, upload, draft, page, publish, remove>>

Next ==
  \/ \E u \in Uploads : \/ \E k \in Keys : Reserve(u, k)
                        \/ Put(u) \/ Complete(u) \/ UploadDies(u)
  \/ \E k \in Keys : Age(k)
  \/ \E d \in Drafts : \/ \E c \in Covers : SaveDraft(d, c) \/ UpdateDisplay(d, c)
                       \/ DiscardDraft(d) \/ Pin(d) \/ ReadDraft(d) \/ InsertPage(d)
                       \/ MarkPublished(d) \/ PublishDies(d)
  \/ \E r \in Requests : \/ \E k \in Keys : Retire(r, k)
                         \/ DeleteObject(r) \/ DeleteRow(r) \/ RemoveDies(r)
  \/ \E gone \in SUBSET Drafts : StartPass(gone)
  \/ ListUploads \/ (\E k \in Keys : PassRetire(k)) \/ PassObject \/ PassRow \/ PassDies

Spec == Init /\ [][Next]_vars

(***************************************************************************)
(* Fairness: requests end, a week passes, the pass runs every hour, and a step  *)
(* of it that is tried again and again succeeds in the end.                     *)
(***************************************************************************)
Fairness ==
  /\ \A u \in Uploads : WF_vars(Put(u) \/ Complete(u) \/ UploadDies(u))
  /\ \A k \in Keys : WF_vars(Age(k))
  /\ WF_vars(\E gone \in SUBSET Drafts : StartPass(gone))
  /\ SF_vars(ListUploads)
  /\ \A k \in Keys :
       /\ SF_vars(PassRetire(k))
       /\ SF_vars(pass.key = k /\ PassObject)
       /\ SF_vars(pass.key = k /\ PassRow)

FairSpec == Spec /\ Fairness

(***************************************************************************)
(* Properties.                                                               *)
(***************************************************************************)
TypeOK ==
  /\ row \in [Keys -> RowStates]
  /\ born \in Seq(Keys)
  /\ old \subseteq Keys /\ bucket \subseteq Keys /\ known \subseteq Keys
  /\ upload \in [Uploads -> [at : {"idle", "put", "complete"}, key : Covers]]
  /\ draft \in [Drafts -> [status : {"none", "editing", "signing", "published"}, cover : Covers]]
  /\ page \in [Drafts -> Covers \union {NoPage}]
  /\ publish \in [Drafts -> [at : {"idle", "insert", "mark"}, key : Covers]]
  /\ remove \in [Requests -> [at : {"idle", "object", "row"}, key : Covers]]
  /\ pass \in [at : {"idle", "list", "retire", "object", "row"}, key : Covers, todo : SUBSET Keys]
  /\ Cardinality({k \in Keys : InTable(k)}) <= Quota

\* A cover that a draft or a page refers to is there: its row is ready and its
\* object is in the bucket, however requests, saves and the pass interleave.
CoversAreServed ==
  \A k \in Keys : Referenced(k) => row[k] = "ready" /\ k \in bucket

\* No object lies in the bucket without a row that counts it: what the table
\* limits is what is stored.
ObjectsAreCounted == \A k \in bucket : InTable(k)

\* The cover a launch has read is still there when its page is inserted, so that
\* publishing is never refused after the treasury is live.
LaunchKeepsCover ==
  \A d \in Drafts : publish[d].at = "insert" => Available(publish[d].key)

\* What drafts, pages and launches can rely on, and what the quota limits.
StorageSound == TypeOK /\ CoversAreServed /\ ObjectsAreCounted /\ LaunchKeepsCover

\* An image that nothing uses gives its place back, whatever died while it was
\* uploaded or deleted, once drafts and pages rest.  While they change, the
\* creator can keep the pass from ever getting past the oldest images: each is
\* unused when the pass lists it and used when it comes to it.
UnusedIsRemoved ==
  <>[][FALSE]_<<draft, page>> =>
    \A k \in Keys : InTable(k) ~> row[k] = "gone" \/ Referenced(k)
=============================================================================
