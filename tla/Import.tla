------------------------------- MODULE Import -------------------------------
(***************************************************************************)
(* The import wizard, web/src/pages/Import.tsx, over the handlers of       *)
(* internal/server/imports.go and the parser of CsvImport.  One user has   *)
(* the page open in some browser tabs.  A click sends a call and the page  *)
(* goes on; the handler runs statement by statement; the answer comes back *)
(* in any order, or the page gives the call up while the server still      *)
(* carries it out.                                                         *)
(*                                                                         *)
(* A call is known by its number in the order of the clicks, and what a    *)
(* page shows by the number of the call that answered it.                  *)
(***************************************************************************)
EXTENDS Schema, Exports

CONSTANTS Tab,       \* the pages open at once
          Me,        \* their user
          StartDB,   \* the user's accounts and earlier transactions
          Sessions   \* what the user may do: files, accounts, edits, bounds

(* A cell of an upload can be a payee, and its days are days of Date. *)
UploadCell ==
  {cell \in Payee :
     /\ cell \in Cell
     /\ cell.kind = "date" => \A dayFirst \in BOOLEAN :
          ParseDate(Layout(cell.shape, dayFirst, FALSE), cell) \in Date \cup {None}}

(* A session has the tabs in use, the files and accounts that are chosen,    *)
(* the edits setMapping is called with (a field and its new value), the rows *)
(* whose boxes are clicked, whether imports are reverted, and the bounds:    *)
(* the calls sent and the calls given up.                                    *)
ASSUME ImportAssumption ==
  /\ Me \in User /\ StartDB \in Database
  /\ StartDB.batches = {}
  /\ \A t \in StartDB.transactions : t.owner = Me /\ t.id[1] = Me /\ t.batch = NULL
  /\ Blank \in Payee
  /\ \A s \in Sessions :
       /\ s.tabs \subseteq Tab /\ s.calls \in Nat /\ 1..s.calls \subseteq Request
       /\ Len(s.files) \in Nat /\ DOMAIN s.files = 1..Len(s.files)
       /\ \A k \in DOMAIN s.files : s.files[k].upload \in Seq(Seq(UploadCell))

(* What is uploaded is some bank's export. *)
ASSUME FilesAssumption ==
  \A s \in Sessions : \A k \in DOMAIN s.files : IsExport(s.files[k])

VARIABLES session, \* the member of Sessions that is played
          db,      \* the database
          landed,  \* commit calls whose batch was written, oldest first
          calls,   \* what was sent, and what became of it
          page     \* the state of each tab's ImportPage

vars == <<session, db, landed, calls, page>>

Status == {"ok", "duplicate", "duplicate_in_file", "error"}

(* Nothing chosen, nothing under way; 0 is no file and no call. *)
FreshPage == [file |-> 0, account |-> NULL, preview |-> 0, excluded |-> {},
              done |-> FALSE, previewing |-> 0, remapping |-> 0,
              committing |-> 0, reverting |-> 0]

Init ==
  /\ session \in Sessions
  /\ db = StartDB
  /\ landed = <<>>
  /\ calls = <<>>
  /\ page = [t \in Tab |-> FreshPage]

-----------------------------------------------------------------------------
(* The preview a page shows, and what can be clicked. *)

Shown(p) == calls[p.preview].answer

UploadShown(p) == ~p.done /\ (p.preview = 0 \/ p.file = 0)

ReviewShown(p) == ~p.done /\ p.preview # 0 /\ p.file # 0

Importing(p) ==
  {n \in DOMAIN Shown(p) : Shown(p)[n].status # "error" /\ n \notin p.excluded}

(* A step that is not shown any more is unmounted and forgets what it waits *)
(* for; the call goes on, and so do its callbacks.                          *)
Mounted(p) ==
  [p EXCEPT !.previewing = IF UploadShown(p) THEN @ ELSE 0,
            !.remapping  = IF ReviewShown(p) THEN @ ELSE 0,
            !.committing = IF ReviewShown(p) THEN @ ELSE 0]

Show(t, p) == page' = [page EXCEPT ![t] = Mounted(p)]

(* A call as it is sent. *)
Call(t, op) ==
  [tab |-> t, op |-> op, file |-> page[t].file, account |-> page[t].account,
   mapping |-> NULL, learnt |-> 0, known |-> {}, shown |-> page[t].preview,
   excluded |-> page[t].excluded, batch |-> NULL, stage |-> "sent",
   answer |-> NULL, client |-> "pending"]

(* A slip: the button waits for another call. *)
Sent_Next == Len(calls) + 2

Sent == Len(calls) + 1

Send(call) == Len(calls) < session.calls /\ calls' = Append(calls, call)

-----------------------------------------------------------------------------
(* UploadStep. *)

ChooseFile(t, file) ==
  /\ UploadShown(page[t])
  /\ Show(t, [page[t] EXCEPT !.file = file])
  /\ UNCHANGED <<session, db, landed, calls>>

ChooseAccount(t, account) ==
  /\ UploadShown(page[t])
  /\ Show(t, [page[t] EXCEPT !.account = account])
  /\ UNCHANGED <<session, db, landed, calls>>

ClickPreview(t) ==
  /\ UploadShown(page[t])
  /\ page[t].file # 0 /\ page[t].account # NULL /\ page[t].previewing = 0
  /\ Send(Call(t, "preview"))
  /\ Show(t, [page[t] EXCEPT !.previewing = Sent])
  /\ UNCHANGED <<session, db, landed>>

-----------------------------------------------------------------------------
(* ReviewStep. *)

(* Every edit starts from the mapping that is shown, not from the one last *)
(* asked for.                                                              *)
SetMapping(t, edit) ==
  /\ ReviewShown(page[t])
  /\ Send([Call(t, "remap") EXCEPT
             !.mapping = [calls[page[t].preview].mapping EXCEPT ![edit.field] = edit.to]])
  /\ Show(t, [page[t] EXCEPT !.remapping = Sent])
  /\ UNCHANGED <<session, db, landed>>

ToggleRow(t, n) ==
  /\ ReviewShown(page[t])
  /\ n \in DOMAIN Shown(page[t]) /\ Shown(page[t])[n].status # "error"
  /\ Show(t, [page[t] EXCEPT !.excluded = IF n \in @ THEN @ \ {n} ELSE @ \cup {n}])
  /\ UNCHANGED <<session, db, landed, calls>>

(* A slip: the button stays enabled while the import is under way. *)
CommitEnabled_Always(p) == p.remapping = 0 /\ Importing(p) # {}

CommitEnabled(p) == p.committing = 0 /\ p.remapping = 0 /\ Importing(p) # {}

ClickImport(t) ==
  /\ ReviewShown(page[t]) /\ CommitEnabled(page[t])
  /\ Send([Call(t, "commit") EXCEPT !.mapping = calls[page[t].preview].mapping])
  /\ Show(t, [page[t] EXCEPT !.committing = Sent])
  /\ UNCHANGED <<session, db, landed>>

(* "Start over" and "Import another file": all is forgotten but the account. *)
Reset(t) ==
  /\ ReviewShown(page[t]) \/ page[t].done
  /\ Show(t, [FreshPage EXCEPT !.account = page[t].account, !.reverting = page[t].reverting])
  /\ UNCHANGED <<session, db, landed, calls>>

ClickRevert(t, batch) ==
  /\ page[t].reverting = 0
  /\ Send([Call(t, "revert") EXCEPT !.batch = batch])
  /\ Show(t, [page[t] EXCEPT !.reverting = Sent])
  /\ UNCHANGED <<session, db, landed>>

-----------------------------------------------------------------------------
(* The handlers. *)

(* No preview, no batch: the answer is an error. *)
Refused == NULL

Previews == {"preview", "remap"}

File(c) == session.files[calls[c].file]

Upload(c) == File(c).upload

Owned(c) == Find(db.accounts, Me, calls[c].account) # {}

Serves(c, ops, stage) == calls[c].op \in ops /\ calls[c].stage = stage

Answer(c, call, answer) ==
  calls' = [calls EXCEPT ![c] = [call EXCEPT !.stage = "answered", !.answer = answer]]

(* LatestMapping: the commit call of the account's newest batch, or 0. *)
LatestMapping(account) ==
  LET still == {k \in DOMAIN landed : /\ calls[landed[k]].account = account
                                      /\ <<landed[k], 0>> \in Ids(db.batches)}
  IN IF still = {} THEN 0 ELSE landed[CHOOSE k \in still : \A j \in still : j <= k]

(* previewImport up to its first statement on imports: a mapping the client *)
(* sent is taken, or the account's latest if it has a date column, or a     *)
(* guess is made.                                                           *)
ChooseMapping(c) ==
  LET call == calls[c]
      last == LatestMapping(call.account)
      learnt == IF last = 0 THEN 0 ELSE IF calls[last].mapping.date = 0 THEN 0 ELSE last
  IN /\ Serves(c, Previews, "sent")
     /\ IF ~Owned(c) \/ Unparsable(Upload(c))
          THEN Answer(c, call, Refused)
          ELSE calls' = [calls EXCEPT ![c] =
                 [call EXCEPT
                    !.stage   = "mapped",
                    !.learnt  = IF call.mapping = NULL THEN learnt ELSE 0,
                    !.mapping = IF call.mapping # NULL THEN call.mapping
                                ELSE IF learnt # 0 THEN calls[learnt].mapping
                                ELSE GuessMapping(Parse(Upload(c)))]]
     /\ UNCHANGED <<session, db, landed, page>>

HashOf(row) == DedupHash(row.date, row.amount, row.payee)

(* SELECT ... WHERE user_id = $1 AND account_id = $2 AND dedup_hash = ANY($3) *)
FindByDedupHashes(user, account, hashes) ==
  {t \in TransactionsIn(db, user, account) : t.hash \in hashes}

(* A slip: rows repeated within the file are not looked for. *)
StatusOf_AgainstDatabase(rows, n, existing) ==
  IF rows[n] = None THEN "error"
  ELSE IF \E t \in existing : t.hash = HashOf(rows[n]) THEN "duplicate"
  ELSE "ok"

StatusOf(rows, n, existing) ==
  IF rows[n] = None THEN "error"
  ELSE IF \E k \in DOMAIN rows : k < n /\ rows[k] # None /\ HashOf(rows[k]) = HashOf(rows[n])
    THEN "duplicate_in_file"
  ELSE IF \E t \in existing : t.hash = HashOf(rows[n]) THEN "duplicate"
  ELSE "ok"

(* buildImportRows.  `known` records which rows the statement could see. *)
FlagRows(c) ==
  LET call == calls[c]
      rows == Normalize(Parse(Upload(c)), call.mapping)
      hashes == {HashOf(rows[n]) : n \in {k \in DOMAIN rows : rows[k] # None}}
      existing == FindByDedupHashes(Me, call.account, hashes)
  IN /\ Serves(c, Previews, "mapped")
     /\ Answer(c, [call EXCEPT !.known = Ids(TransactionsIn(db, Me, call.account))],
               [n \in DOMAIN rows |-> [status |-> StatusOf(rows, n, existing), row |-> rows[n]]])
     /\ UNCHANGED <<session, db, landed, page>>

(* A slip: no fileSha256 is sent along. *)
FileChanged_Never(c) == FALSE

(* The sha256 of an upload stands for the upload. *)
FileChanged(c) == Upload(c) # Upload(calls[c].shown)

CommitImport(c) ==
  LET call == calls[c]
      rows == Normalize(Parse(Upload(c)), call.mapping)
      kept == {n \in DOMAIN rows : rows[n] # None /\ n \notin call.excluded}
      imported(n) ==
        [id |-> <<c, n>>, owner |-> Me, account |-> call.account,
         date |-> rows[n].date, amount |-> rows[n].amount, payee |-> rows[n].payee,
         category |-> NULL, group |-> NULL, batch |-> <<c, 0>>, hash |-> HashOf(rows[n])]
  IN /\ Serves(c, {"commit"}, "sent")
     /\ IF ~Owned(c) \/ FileChanged(c) \/ kept = {}
          THEN Answer(c, call, Refused) /\ UNCHANGED <<db, landed>>
          ELSE /\ db' = [db EXCEPT
                    !.batches = @ \cup {[id |-> <<c, 0>>, owner |-> Me, account |-> call.account,
                                         count |-> Cardinality(kept)]},
                    !.transactions = @ \cup {imported(n) : n \in kept}]
               /\ landed' = Append(landed, c)
               /\ Answer(c, call, <<c, 0>>)
     /\ UNCHANGED <<session, page>>

RevertImport(c) ==
  /\ Serves(c, {"revert"}, "sent")
  /\ db' = DeleteBatch(db, Me, calls[c].batch)
  /\ Answer(c, calls[c], IF Find(db.batches, Me, calls[c].batch) = {} THEN Refused ELSE calls[c].batch)
  /\ UNCHANGED <<session, landed, page>>

-----------------------------------------------------------------------------
(* Answers. *)

(* Whatever button waits for call c waits no more. *)
Released(p, c) ==
  [p EXCEPT !.previewing = IF @ = c THEN 0 ELSE @, !.remapping = IF @ = c THEN 0 ELSE @,
            !.committing = IF @ = c THEN 0 ELSE @, !.reverting = IF @ = c THEN 0 ELSE @]

(* onSuccess: the page shows what came, whatever it shows by now. *)
Applied(p, c) ==
  IF calls[c].answer = Refused THEN p
  ELSE CASE calls[c].op = "revert" -> p
         [] calls[c].op = "commit" -> [p EXCEPT !.done = TRUE]
         [] calls[c].op \in Previews ->
              [p EXCEPT !.preview = c,
                        !.excluded = {n \in DOMAIN calls[c].answer : calls[c].answer[n].status # "ok"}]

Receive(c) ==
  LET t == calls[c].tab
  IN /\ calls[c].client = "pending" /\ calls[c].stage = "answered"
     /\ calls' = [calls EXCEPT ![c].client = "told"]
     /\ Show(t, Applied(Released(page[t], c), c))
     /\ UNCHANGED <<session, db, landed>>

(* The connection breaks: the page shows an error, and the server may or *)
(* may not have done, or still do, what it was asked.                    *)
GiveUp(c) ==
  LET t == calls[c].tab
  IN /\ calls[c].client = "pending"
     /\ Cardinality({k \in DOMAIN calls : calls[k].client = "lost"}) < session.losses
     /\ calls' = [calls EXCEPT ![c].client = "lost"]
     /\ Show(t, Released(page[t], c))
     /\ UNCHANGED <<session, db, landed>>

-----------------------------------------------------------------------------
Click(t) ==
  \/ \E file \in DOMAIN session.files : ChooseFile(t, file)
  \/ \E account \in session.accounts : ChooseAccount(t, account)
  \/ ClickPreview(t)
  \/ \E edit \in session.edits : SetMapping(t, edit)
  \/ \E n \in session.boxes : ToggleRow(t, n)
  \/ ClickImport(t)
  \/ Reset(t)
  \/ \E batch \in Ids(db.batches) : session.reverts /\ ClickRevert(t, batch)

Handle(c) == ChooseMapping(c) \/ FlagRows(c) \/ CommitImport(c) \/ RevertImport(c)

Next ==
  \/ \E t \in session.tabs : Click(t)
  \/ \E c \in DOMAIN calls : Handle(c) \/ Receive(c) \/ GiveUp(c)

Spec == Init /\ [][Next]_vars

-----------------------------------------------------------------------------
(***************************************************************************)
(* What the wizard keeps.                                                  *)
(***************************************************************************)

B == INSTANCE Books WITH db <- db

Answered(c) == calls[c].stage = "answered" /\ calls[c].answer # Refused

Readings(c) == [n \in DOMAIN calls[c].answer |-> calls[c].answer[n].row]

Guessed(c) == calls[c].op = "preview" /\ calls[c].learnt = 0

TypeOK ==
  /\ session \in Sessions
  /\ db \in Database
  /\ \A k \in DOMAIN landed : calls[landed[k]].op = "commit" /\ Answered(landed[k])
  /\ Len(calls) <= session.calls
  /\ \A c \in DOMAIN calls :
       /\ calls[c].tab \in Tab /\ calls[c].op \in Previews \cup {"commit", "revert"}
       /\ calls[c].stage \in {"sent", "mapped", "answered"}
       /\ calls[c].client \in {"pending", "told", "lost"}
       /\ calls[c].op \in Previews /\ Answered(c) =>
            \A n \in DOMAIN calls[c].answer : calls[c].answer[n].status \in Status
  /\ \A t \in Tab :
       /\ page[t].file \in 0..Len(session.files)
       /\ page[t].account \in session.accounts \cup {NULL}
       /\ {page[t].preview, page[t].previewing, page[t].remapping,
           page[t].committing, page[t].reverting} \subseteq 0..Len(calls)
       /\ page[t].done \in BOOLEAN

(* GuessMapping and guessDateFormat (guess.go): of a file in which columns,  *)
(* signs and dates can be told, the preview that comes back without an edit  *)
(* reads every entry as the bank meant it: date, cents, payee, direction.    *)
GuessReadsBack ==
  \A c \in DOMAIN calls :
    LET file == File(c)
    IN Answered(c) /\ Guessed(c) /\ Legible(file) /\ WidthTold(file) =>
         Readings(c) = file.statement

(* LatestMapping (imports.go:105) takes what was guessed from one file, and  *)
(* then imported, for the account's next file.  In the same style it makes   *)
(* of an entry no more than what the first file left open (TakenFor): with   *)
(* nothing open it reads it right or refuses it, and where the first file's  *)
(* dates were ambiguous, its money out positive or its decimals behind a     *)
(* comma, it errs in this and nothing else.  Such an error is silent: all    *)
(* that the property says is that there is no other.  Excepted are files     *)
(* whose columns cannot be told (ColumnsTold), any of which may be taken for *)
(* another, and amounts of too many digits, which wrap (InWidth).            *)
MisreadsOnlyTheUntold ==
  \A c \in DOMAIN calls :
    calls[c].op = "preview" /\ Answered(c) =>
      LET file == File(c)
          origin == IF Guessed(c) THEN c ELSE calls[calls[c].learnt].shown
          first == File(origin)
      IN Guessed(origin) /\ ColumnsTold(first) /\ first.style = file.style /\ InWidth(file) =>
           \A n \in DOMAIN Readings(c) :
             Readings(c)[n] \in {None} \cup TakenFor(first, file.statement[n])

(* What an import wrote is what its user had on the screen, ticked, when     *)
(* Import was clicked: whatever late answers replaced the preview, whatever  *)
(* file was chosen meanwhile (the fileSha256 guard, imports.go:192).         *)
ImportsWhatWasShown ==
  \A b \in db.batches :
    LET c == b.id[1]
        shown == Readings(calls[c].shown)
        ticked == {n \in DOMAIN shown : shown[n] # None /\ n \notin calls[c].excluded}
    IN /\ b.count = Cardinality(ticked)
       /\ {<<t.id[2], t.date, t.amount, t.payee>> : t \in {x \in db.transactions : x.batch = b.id}}
            = {<<n, shown[n].date, shown[n].amount, shown[n].payee>> : n \in ticked}

(* A row the account had when the preview was made, or one higher up in the  *)
(* file, comes again only because the user ticked it in spite of the warning *)
(* (imports.go:135, Import.tsx:56).  Other repeats take a second import that *)
(* landed after the preview, or another account chosen meanwhile.            *)
RepeatsAreChosen ==
  \A t, other \in db.transactions :
    t.batch # NULL /\ other # t /\ other.account = t.account /\ other.hash = t.hash =>
      LET c == t.batch[1]
          shown == calls[calls[c].shown]
          unseen == other.id \notin shown.known
          above == other.batch = t.batch /\ other.id[2] < t.id[2]
      IN \/ shown.account # t.account
         \/ unseen /\ ~above
         \/ shown.answer[t.id[2]].status # "ok"

(* One preview is imported once, whatever is clicked while the import is     *)
(* under way, unless the page was told that the first attempt had failed.    *)
OncePerPreview ==
  \A j, k \in DOMAIN landed :
    j < k /\ calls[landed[j]].shown = calls[landed[k]].shown =>
      \E c \in {landed[j], landed[k]} : calls[c].client = "lost"

(* To the rest of the program an import is one entry, and so is taking it    *)
(* back: the wizard's commits and reverts are steps of Books.                *)
KeepsBooks == B!Spec

(* Import.tsx:96: "You'll confirm the column mapping and review duplicates   *)
(* before anything is saved."  The duplicates reviewed are those of the      *)
(* account the preview was asked for.                                        *)
ReviewedForAccount ==
  \A b \in db.batches : calls[calls[b.id[1]].shown].account = b.account
=============================================================================
