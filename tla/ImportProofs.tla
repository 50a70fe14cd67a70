---------------------------- MODULE ImportProofs ----------------------------
(***************************************************************************)
(* Proofs about the import wizard, for any number of tabs, files and calls *)
(* and whatever parsing and guessing make of a file: a preview is imported *)
(* once, what is imported was on the screen, and a repeated row was chosen;*)
(* what is kept has its type and changes as Books says.  Last, with what   *)
(* CsvProofs knows of exports: what is read is right.                      *)
(*                                                                         *)
(* The argument: what was asked never changes, and neither does an answer  *)
(* (Forward), so that what a click saw can be told from the calls long     *)
(* after the page shows something else.                                    *)
(***************************************************************************)
EXTENDS Import, CsvProofs

Fields == {"tab", "op", "file", "account", "mapping", "learnt", "known", "shown",
           "excluded", "batch", "stage", "answer", "client"}

Parts == {"file", "account", "preview", "excluded", "done", "previewing",
          "remapping", "committing", "reverting"}

Formed ==
  /\ session \in Sessions
  /\ {"batches", "transactions"} \subseteq DOMAIN db
  /\ \E S : calls \in Seq(S)
  /\ \E S : landed \in Seq(S)
  /\ Len(calls) <= session.calls
  /\ \A c \in DOMAIN calls :
       /\ Fields \subseteq DOMAIN calls[c]
       /\ calls[c].tab \in Tab /\ calls[c].op \in Previews \cup {"commit", "revert"}
  /\ page = [t \in Tab |-> page[t]]
  /\ \A t \in Tab : Parts \subseteq DOMAIN page[t]

(* The columns of a call no handler writes. *)
Asked(call, new) ==
  /\ new.tab = call.tab /\ new.op = call.op /\ new.file = call.file
  /\ new.account = call.account /\ new.shown = call.shown
  /\ new.excluded = call.excluded
  /\ call.op \notin Previews => new.mapping = call.mapping

(* What is answered stays answered, and whom the client heard, too. *)
Kept(call, new) ==
  /\ call.stage = "answered" =>
       /\ new.stage = "answered" /\ new.answer = call.answer
       /\ new.mapping = call.mapping /\ new.known = call.known
  /\ call.client # "pending" => new.client = call.client

Forward ==
  /\ session' = session
  /\ DOMAIN calls \subseteq DOMAIN calls'
  /\ \A c \in DOMAIN calls : Asked(calls[c], calls'[c]) /\ Kept(calls[c], calls'[c])

(* The ways a step can go. *)

Turns(t) ==
  /\ t \in Tab /\ page' = [page EXCEPT ![t] = page'[t]] /\ Parts \subseteq DOMAIN page'[t]
  /\ UNCHANGED <<session, db, landed>>

Clicks(t, call) ==
  /\ Turns(t) /\ Send(call) /\ Fields \subseteq DOMAIN call
  /\ call.tab = t /\ call.stage = "sent" /\ call.client = "pending"

Handles(c, new) ==
  /\ c \in DOMAIN calls /\ calls' = [calls EXCEPT ![c] = new]
  /\ Fields \subseteq DOMAIN new
  /\ Asked(calls[c], new) /\ Kept(calls[c], new)
  /\ session' = session

-----------------------------------------------------------------------------
(* Sequences and records. *)

LEMMA Appending ==
  ASSUME NEW s, \E S : s \in Seq(S), NEW x
  PROVE  /\ \E S : Append(s, x) \in Seq(S)
         /\ Len(s) \in Nat /\ Len(Append(s, x)) = Len(s) + 1
         /\ DOMAIN s = 1..Len(s) /\ DOMAIN Append(s, x) = 1..(Len(s) + 1)
         /\ \A k \in 1..Len(s) : Append(s, x)[k] = s[k]
         /\ Append(s, x)[Len(s) + 1] = x
<1>1. PICK S : s \in Seq(S)
  OBVIOUS
<1>2. s \in Seq(S \cup {x})
  BY <1>1
<1>3. Append(s, x) \in Seq(S \cup {x})
  BY <1>2
<1>4. QED
  BY <1>2, <1>3

LEMMA Replacing ==
  ASSUME NEW s, \E S : s \in Seq(S), NEW x, NEW k \in DOMAIN s
  PROVE  /\ \E S : [s EXCEPT ![k] = x] \in Seq(S)
         /\ Len([s EXCEPT ![k] = x]) = Len(s)
         /\ DOMAIN [s EXCEPT ![k] = x] = DOMAIN s
         /\ [s EXCEPT ![k] = x][k] = x
         /\ \A j \in DOMAIN s : j # k => [s EXCEPT ![k] = x][j] = s[j]
<1>1. PICK S : s \in Seq(S)
  OBVIOUS
<1>2. s \in Seq(S \cup {x})
  BY <1>1
<1>3. [s EXCEPT ![k] = x] \in Seq(S \cup {x})
  BY <1>2
<1>4. QED
  BY <1>2, <1>3

LEMMA MountedPage ==
  ASSUME NEW p, Parts \subseteq DOMAIN p
  PROVE  /\ Parts \subseteq DOMAIN Mounted(p)
         /\ Mounted(p).file = p.file /\ Mounted(p).preview = p.preview
         /\ Mounted(p).excluded = p.excluded /\ Mounted(p).done = p.done
         /\ Mounted(p).committing = IF ReviewShown(p) THEN p.committing ELSE 0
         /\ ReviewShown(Mounted(p)) <=> ReviewShown(p)
BY DEF Parts, Mounted, ReviewShown, UploadShown

LEMMA ShowTurns ==
  ASSUME Formed, NEW t \in Tab, NEW p, Parts \subseteq DOMAIN p, Show(t, p)
  PROVE  /\ page' = [page EXCEPT ![t] = page'[t]] /\ page'[t] = Mounted(p)
         /\ Parts \subseteq DOMAIN page'[t]
BY MountedPage DEF Show, Formed

-----------------------------------------------------------------------------
(* Pages: what is shown was told, and only a review has an import under way. *)

Told(p, t) ==
  /\ p \in DOMAIN calls /\ calls[p].op \in Previews /\ calls[p].tab = t
  /\ calls[p].client = "told" /\ Answered(p)

PageTold(t) ==
  /\ page[t].preview # 0 => Told(page[t].preview, t)
  /\ page[t].committing # 0 => ReviewShown(page[t])

Pages == \A t \in Tab : PageTold(t)

(* A click as the other tabs, the calls and the later clicks of t see it. *)

Settled(t) == page'[t].committing # 0 => ReviewShown(page'[t])

SamePreview(t) ==
  /\ page'[t].preview = page[t].preview /\ page'[t].done = page[t].done

Browse(t) ==
  /\ Turns(t) /\ Settled(t) /\ calls' = calls
  /\ \/ SamePreview(t) /\ page'[t].committing = page[t].committing
     \/ page'[t].preview = 0

Ask(t) ==
  /\ Settled(t) /\ SamePreview(t) /\ page'[t].committing = page[t].committing
  /\ \E call : Clicks(t, call) /\ call.op \in Previews \cup {"revert"}

Confirm(t) ==
  /\ Settled(t) /\ SamePreview(t) /\ page'[t].committing = Sent
  /\ ReviewShown(page[t]) /\ page[t].committing = 0
  /\ \E call :
       /\ Clicks(t, call) /\ call.op = "commit"
       /\ call.shown = page[t].preview
       /\ call.mapping = calls[page[t].preview].mapping

LEMMA CallFields ==
  ASSUME NEW t, NEW op
  PROVE  /\ Fields \subseteq DOMAIN Call(t, op)
         /\ Call(t, op).tab = t /\ Call(t, op).op = op
         /\ Call(t, op).stage = "sent" /\ Call(t, op).client = "pending"
         /\ Call(t, op).shown = page[t].preview
BY DEF Fields, Call

LEMMA TurnOf ==
  ASSUME Formed, NEW t \in Tab, NEW p, Parts \subseteq DOMAIN p, Show(t, p),
         UNCHANGED <<session, db, landed>>
  PROVE  /\ Turns(t) /\ Settled(t)
         /\ page'[t].preview = p.preview /\ page'[t].done = p.done
         /\ page'[t].committing = IF ReviewShown(p) THEN p.committing ELSE 0
BY ShowTurns, MountedPage DEF Turns, Settled

(* An edit of the page that leaves the preview and what waits for a commit. *)
LEMMA CalmTurn ==
  ASSUME Formed, Pages, NEW t \in Tab, NEW p, Parts \subseteq DOMAIN p, Show(t, p),
         UNCHANGED <<session, db, landed>>,
         p.preview = page[t].preview, p.done = page[t].done,
         p.committing = page[t].committing,
         p.file = page[t].file \/ UploadShown(page[t])
  PROVE  /\ Turns(t) /\ Settled(t) /\ SamePreview(t)
         /\ page'[t].committing = page[t].committing
<1>1. page[t].committing # 0 => ReviewShown(page[t]) /\ ~UploadShown(page[t])
  BY DEF Pages, PageTold, ReviewShown, UploadShown
<1>2. page[t].committing # 0 => ReviewShown(p)
  BY <1>1 DEF ReviewShown
<1>3. QED
  BY <1>2, TurnOf DEF SamePreview

LEMMA ClickKinds ==
  ASSUME Formed, Pages, NEW t \in Tab, Click(t)
  PROVE  Browse(t) \/ Ask(t) \/ Confirm(t)
<1> DEFINE P == page[t]
<1>0. Parts \subseteq DOMAIN P
  BY DEF Formed
<1>1. ASSUME NEW file, ChooseFile(t, file) PROVE Browse(t)
  <2>1. LET p == [P EXCEPT !.file = file]
        IN /\ Parts \subseteq DOMAIN p /\ p.preview = P.preview /\ p.done = P.done
           /\ p.committing = P.committing
    BY <1>0 DEF Parts
  <2>2. QED
    BY <1>1, <2>1, CalmTurn DEF ChooseFile, Browse
<1>2. ASSUME NEW account, ChooseAccount(t, account) PROVE Browse(t)
  <2>1. LET p == [P EXCEPT !.account = account]
        IN /\ Parts \subseteq DOMAIN p /\ p.preview = P.preview /\ p.done = P.done
           /\ p.committing = P.committing
    BY <1>0 DEF Parts
  <2>2. QED
    BY <1>2, <2>1, CalmTurn DEF ChooseAccount, Browse
<1>3. ASSUME ClickPreview(t) PROVE Ask(t)
  <2>1. LET p == [P EXCEPT !.previewing = Sent]
        IN /\ Parts \subseteq DOMAIN p /\ p.preview = P.preview /\ p.done = P.done
           /\ p.committing = P.committing /\ p.file = P.file
    BY <1>0 DEF Parts
  <2>2. /\ Turns(t) /\ Settled(t) /\ SamePreview(t)
        /\ page'[t].committing = P.committing
    BY <1>3, <2>1, CalmTurn DEF ClickPreview
  <2> DEFINE call == Call(t, "preview")
  <2>3. Clicks(t, call) /\ call.op = "preview"
    BY <1>3, <2>2, CallFields DEF ClickPreview, Clicks
  <2> HIDE DEF call
  <2>4. QED
    BY <2>2, <2>3 DEF Ask, Previews
<1>4. ASSUME NEW edit, SetMapping(t, edit) PROVE Ask(t)
  <2>1. LET p == [P EXCEPT !.remapping = Sent]
        IN /\ Parts \subseteq DOMAIN p /\ p.preview = P.preview /\ p.done = P.done
           /\ p.committing = P.committing /\ p.file = P.file
    BY <1>0 DEF Parts
  <2>2. PICK m : Send([Call(t, "remap") EXCEPT !.mapping = m])
    BY <1>4 DEF SetMapping
  <2>3. /\ Turns(t) /\ Settled(t) /\ SamePreview(t)
        /\ page'[t].committing = P.committing
    BY <1>4, <2>1, CalmTurn DEF SetMapping
  <2> DEFINE call == [Call(t, "remap") EXCEPT !.mapping = m]
  <2>4. /\ Fields \subseteq DOMAIN call /\ call.tab = t /\ call.op = "remap"
        /\ call.stage = "sent" /\ call.client = "pending"
    BY CallFields DEF Fields
  <2> HIDE DEF call
  <2>5. Clicks(t, call)
    BY <2>2, <2>3, <2>4 DEF call, Clicks
  <2>6. QED
    BY <2>3, <2>4, <2>5 DEF Ask, Previews
<1>5. ASSUME NEW n, ToggleRow(t, n) PROVE Browse(t)
  <2>1. PICK excluded : Show(t, [P EXCEPT !.excluded = excluded])
    BY <1>5 DEF ToggleRow
  <2>2. LET p == [P EXCEPT !.excluded = excluded]
        IN /\ Parts \subseteq DOMAIN p /\ p.preview = P.preview /\ p.done = P.done
           /\ p.committing = P.committing /\ p.file = P.file
    BY <1>0 DEF Parts
  <2>3. QED
    BY <1>5, <2>1, <2>2, CalmTurn DEF ToggleRow, Browse
<1>6. ASSUME ClickImport(t) PROVE Confirm(t)
  <2>1. LET p == [P EXCEPT !.committing = Sent]
        IN /\ Parts \subseteq DOMAIN p /\ p.preview = P.preview /\ p.done = P.done
           /\ p.committing = Sent /\ p.file = P.file
    BY <1>0 DEF Parts
  <2>2. ReviewShown([P EXCEPT !.committing = Sent])
    BY <1>6, <2>1 DEF ClickImport, ReviewShown
  <2>3. /\ Turns(t) /\ Settled(t) /\ SamePreview(t) /\ page'[t].committing = Sent
    BY <1>6, <2>1, <2>2, TurnOf DEF ClickImport, SamePreview
  <2> DEFINE call == [Call(t, "commit") EXCEPT !.mapping = calls[P.preview].mapping]
  <2>4. /\ Fields \subseteq DOMAIN call /\ call.tab = t /\ call.op = "commit"
        /\ call.stage = "sent" /\ call.client = "pending" /\ call.shown = P.preview
        /\ call.mapping = calls[P.preview].mapping
    BY CallFields DEF Fields
  <2>5. Send(call)
    BY <1>6 DEF ClickImport
  <2> HIDE DEF call
  <2>6. Clicks(t, call)
    BY <2>3, <2>4, <2>5 DEF Clicks
  <2>7. ReviewShown(P) /\ P.committing = 0
    BY <1>6 DEF ClickImport, CommitEnabled
  <2>8. QED
    BY <2>3, <2>4, <2>6, <2>7 DEF Confirm
<1>7. ASSUME Reset(t) PROVE Browse(t)
  <2> DEFINE p == [FreshPage EXCEPT !.account = P.account, !.reverting = P.reverting]
  <2>1. Parts \subseteq DOMAIN p /\ p.preview = 0
    BY DEF Parts, FreshPage
  <2>2. QED
    BY <1>7, <2>1, TurnOf DEF Reset, Browse
<1>8. ASSUME NEW batch, ClickRevert(t, batch) PROVE Ask(t)
  <2>1. LET p == [P EXCEPT !.reverting = Sent]
        IN /\ Parts \subseteq DOMAIN p /\ p.preview = P.preview /\ p.done = P.done
           /\ p.committing = P.committing /\ p.file = P.file
    BY <1>0 DEF Parts
  <2>2. /\ Turns(t) /\ Settled(t) /\ SamePreview(t)
        /\ page'[t].committing = P.committing
    BY <1>8, <2>1, CalmTurn DEF ClickRevert
  <2> DEFINE call == [Call(t, "revert") EXCEPT !.batch = batch]
  <2>3. /\ Fields \subseteq DOMAIN call /\ call.tab = t /\ call.op = "revert"
        /\ call.stage = "sent" /\ call.client = "pending"
    BY CallFields DEF Fields
  <2>4. Send(call)
    BY <1>8 DEF ClickRevert
  <2> HIDE DEF call
  <2>5. Clicks(t, call)
    BY <2>2, <2>3, <2>4 DEF Clicks
  <2>6. QED
    BY <2>2, <2>3, <2>5 DEF Ask
<1>9. QED
  BY <1>1, <1>2, <1>3, <1>4, <1>5, <1>6, <1>7, <1>8 DEF Click

-----------------------------------------------------------------------------
(* Calls: what handlers and answers make of them. *)

(* A handler is at work on c. *)
Serving(c) ==
  /\ page' = page /\ calls[c].stage # "answered"
  /\ Handles(c, calls'[c]) /\ calls'[c].client = calls[c].client

(* The page of c hears of it, or gives it up. *)
Hearing(c) ==
  LET t == calls[c].tab
  IN /\ Turns(t) /\ Settled(t)
     /\ calls[c].client = "pending" /\ calls'[c].client \in {"told", "lost"}
     /\ Handles(c, calls'[c])
     /\ calls'[c].stage = calls[c].stage /\ calls'[c].answer = calls[c].answer
     /\ \/ /\ SamePreview(t)
           /\ \/ page'[t].committing = page[t].committing
              \/ /\ page[t].committing = c
                 /\ calls[c].op = "commit" /\ calls'[c].client = "told" =>
                      calls[c].stage = "answered" /\ calls[c].answer = Refused
        \/ page'[t].preview = page[t].preview /\ page'[t].done
        \/ page'[t].preview = c /\ calls[c].op \in Previews
           /\ calls'[c].client = "told" /\ Answered(c)

LEMMA ServesCall ==
  ASSUME Formed, NEW c \in DOMAIN calls, calls[c].stage # "answered", page' = page,
         session' = session, NEW new, calls' = [calls EXCEPT ![c] = new],
         Fields \subseteq DOMAIN new, Asked(calls[c], new), new.client = calls[c].client
  PROVE  Serving(c) /\ calls'[c] = new
<1>1. calls'[c] = new
  BY Replacing DEF Formed
<1>2. Kept(calls[c], new)
  BY DEF Kept
<1>3. QED
  BY <1>1, <1>2 DEF Serving, Handles

LEMMA AnswersCall ==
  ASSUME Formed, NEW c \in DOMAIN calls, calls[c].stage # "answered", page' = page,
         session' = session, NEW call, NEW answer, Answer(c, call, answer),
         Fields \subseteq DOMAIN call, Asked(calls[c], call), call.client = calls[c].client
  PROVE  /\ Serving(c)
         /\ calls'[c].stage = "answered" /\ calls'[c].answer = answer
         /\ calls'[c].mapping = call.mapping /\ calls'[c].known = call.known
<1> DEFINE new == [call EXCEPT !.stage = "answered", !.answer = answer]
<1>1. /\ Fields \subseteq DOMAIN new /\ Asked(calls[c], new) /\ new.client = calls[c].client
      /\ new.stage = "answered" /\ new.answer = answer
      /\ new.mapping = call.mapping /\ new.known = call.known
  BY DEF Fields, Asked
<1>2. calls' = [calls EXCEPT ![c] = new]
  BY DEF Answer
<1> HIDE DEF new
<1>3. QED
  BY <1>1, <1>2, ServesCall

LEMMA SameCall == ASSUME NEW call PROVE Asked(call, call) /\ Kept(call, call)
BY DEF Asked, Kept

LEMMA ChooseMappingServes ==
  ASSUME Formed, NEW c \in DOMAIN calls, ChooseMapping(c)
  PROVE  /\ Serving(c) /\ calls[c].op \in Previews /\ UNCHANGED <<db, landed>>
         /\ \/ calls'[c].stage = "mapped" /\ ~Unparsable(Upload(c))
            \/ calls'[c].stage = "answered" /\ calls'[c].answer = Refused
<1>1. Fields \subseteq DOMAIN calls[c]
  BY DEF Formed
<1>2. /\ calls[c].op \in Previews /\ calls[c].stage # "answered"
      /\ UNCHANGED <<session, db, landed, page>>
  BY DEF ChooseMapping, Serves
<1>3. CASE Answer(c, calls[c], Refused)
  BY <1>1, <1>2, <1>3, AnswersCall, SameCall
<1>4. CASE ~Answer(c, calls[c], Refused)
  <2>1. ~Unparsable(Upload(c))
        /\ \E learnt, mapping : calls' = [calls EXCEPT ![c] =
             [calls[c] EXCEPT !.stage = "mapped", !.learnt = learnt, !.mapping = mapping]]
    BY <1>4 DEF ChooseMapping
  <2> PICK learnt, mapping : calls' = [calls EXCEPT ![c] =
            [calls[c] EXCEPT !.stage = "mapped", !.learnt = learnt, !.mapping = mapping]]
    BY <2>1
  <2> DEFINE new == [calls[c] EXCEPT !.stage = "mapped", !.learnt = learnt, !.mapping = mapping]
  <2>2. /\ Fields \subseteq DOMAIN new /\ Asked(calls[c], new) /\ new.client = calls[c].client
        /\ new.stage = "mapped"
    BY <1>1, <1>2 DEF Fields, Asked
  <2> HIDE DEF new
  <2>3. QED
    BY <1>2, <2>1, <2>2, ServesCall DEF new
<1>5. QED
  BY <1>3, <1>4

Rows(c) == Normalize(Parse(Upload(c)), calls[c].mapping)

Hashes(rows) == {HashOf(rows[n]) : n \in {k \in DOMAIN rows : rows[k] # None}}

Flags(c) ==
  [n \in DOMAIN Rows(c) |->
     [status |-> StatusOf(Rows(c), n, FindByDedupHashes(Me, calls[c].account, Hashes(Rows(c)))),
      row |-> Rows(c)[n]]]

LEMMA FlagRowsServes ==
  ASSUME Formed, NEW c \in DOMAIN calls, FlagRows(c)
  PROVE  /\ Serving(c) /\ UNCHANGED <<db, landed>> /\ calls[c].op \in Previews
         /\ calls'[c].stage = "answered" /\ calls'[c].answer = Flags(c)
         /\ calls'[c].mapping = calls[c].mapping
         /\ calls'[c].known = Ids(TransactionsIn(db, Me, calls[c].account))
<1> DEFINE call == [calls[c] EXCEPT !.known = Ids(TransactionsIn(db, Me, calls[c].account))]
<1>1. Fields \subseteq DOMAIN calls[c]
  BY DEF Formed
<1>2. /\ Fields \subseteq DOMAIN call /\ Asked(calls[c], call) /\ call.client = calls[c].client
      /\ call.mapping = calls[c].mapping
      /\ call.known = Ids(TransactionsIn(db, Me, calls[c].account))
  BY <1>1 DEF Fields, Asked
<1>3. Answer(c, call, Flags(c))
  BY DEF FlagRows, Flags, Rows, Hashes
<1>4. calls[c].op \in Previews /\ calls[c].stage # "answered" /\ UNCHANGED <<session, db, landed, page>>
  BY DEF FlagRows, Serves
<1> HIDE DEF call
<1>5. QED
  BY <1>2, <1>3, <1>4, AnswersCall

Ticked(c) == {n \in DOMAIN Rows(c) : Rows(c)[n] # None /\ n \notin calls[c].excluded}

Imported(c, n) ==
  [id |-> <<c, n>>, owner |-> Me, account |-> calls[c].account,
   date |-> Rows(c)[n].date, amount |-> Rows(c)[n].amount, payee |-> Rows(c)[n].payee,
   category |-> NULL, group |-> NULL, batch |-> <<c, 0>>, hash |-> HashOf(Rows(c)[n])]

NewBatch(c) ==
  [id |-> <<c, 0>>, owner |-> Me, account |-> calls[c].account, count |-> Cardinality(Ticked(c))]

LEMMA CommitServes ==
  ASSUME Formed, NEW c \in DOMAIN calls, CommitImport(c)
  PROVE  /\ Serving(c) /\ calls[c].op = "commit" /\ calls'[c].stage = "answered"
         /\ calls'[c].mapping = calls[c].mapping
         /\ \/ calls'[c].answer = Refused /\ UNCHANGED <<db, landed>>
            \/ /\ calls'[c].answer = <<c, 0>> /\ ~FileChanged(c)
               /\ landed' = Append(landed, c)
               /\ db' = [db EXCEPT !.batches = @ \cup {NewBatch(c)},
                           !.transactions = @ \cup {Imported(c, n) : n \in Ticked(c)}]
<1>1. Fields \subseteq DOMAIN calls[c]
  BY DEF Formed
<1>2. /\ calls[c].op = "commit" /\ calls[c].stage # "answered" /\ session' = session /\ page' = page
  BY DEF CommitImport, Serves
<1>3. \/ Answer(c, calls[c], Refused) /\ UNCHANGED <<db, landed>>
      \/ /\ Answer(c, calls[c], <<c, 0>>) /\ ~FileChanged(c) /\ landed' = Append(landed, c)
         /\ db' = [db EXCEPT !.batches = @ \cup {NewBatch(c)},
                     !.transactions = @ \cup {Imported(c, n) : n \in Ticked(c)}]
  BY DEF CommitImport, NewBatch, Imported, Ticked, Rows
<1>4. QED
  BY <1>1, <1>2, <1>3, AnswersCall, SameCall

LEMMA RevertServes ==
  ASSUME Formed, NEW c \in DOMAIN calls, RevertImport(c)
  PROVE  /\ Serving(c) /\ calls[c].op = "revert" /\ landed' = landed
         /\ db' = DeleteBatch(db, Me, calls[c].batch)
BY AnswersCall, SameCall DEF RevertImport, Serves, Formed

LEMMA ReleasedPage ==
  ASSUME NEW p, Parts \subseteq DOMAIN p, NEW c
  PROVE  /\ Parts \subseteq DOMAIN Released(p, c)
         /\ Released(p, c).preview = p.preview /\ Released(p, c).done = p.done
         /\ Released(p, c).file = p.file
         /\ Released(p, c).committing = IF p.committing = c THEN 0 ELSE p.committing
BY DEF Parts, Released

(* The client of c is told, or not. *)
LEMMA ClientHears ==
  ASSUME Formed, NEW c \in DOMAIN calls, calls[c].client = "pending", session' = session,
         NEW v, calls' = [calls EXCEPT ![c].client = v]
  PROVE  /\ Handles(c, calls'[c]) /\ calls'[c].client = v
         /\ calls'[c].stage = calls[c].stage /\ calls'[c].answer = calls[c].answer
<1> DEFINE new == [calls[c] EXCEPT !.client = v]
<1>1. /\ Fields \subseteq DOMAIN new /\ Asked(calls[c], new) /\ Kept(calls[c], new)
      /\ new.client = v /\ new.stage = calls[c].stage /\ new.answer = calls[c].answer
  BY DEF Formed, Fields, Asked, Kept
<1>2. calls' = [calls EXCEPT ![c] = new]
  OBVIOUS
<1> HIDE DEF new
<1>3. calls'[c] = new
  BY <1>2, Replacing DEF Formed
<1>4. QED
  BY <1>1, <1>2, <1>3 DEF Handles

LEMMA GiveUpHears ==
  ASSUME Formed, Pages, NEW c \in DOMAIN calls, GiveUp(c)
  PROVE  Hearing(c)
<1> DEFINE t == calls[c].tab
           p == Released(page[t], c)
<1>1. t \in Tab /\ Parts \subseteq DOMAIN page[t]
  BY DEF Formed
<1>2. /\ Parts \subseteq DOMAIN p /\ p.preview = page[t].preview /\ p.done = page[t].done
      /\ p.file = page[t].file
      /\ p.committing = IF page[t].committing = c THEN 0 ELSE page[t].committing
  BY <1>1, ReleasedPage
<1>3. /\ Show(t, p) /\ UNCHANGED <<session, db, landed>> /\ calls[c].client = "pending"
      /\ calls' = [calls EXCEPT ![c].client = "lost"]
  BY DEF GiveUp
<1>4. /\ Turns(t) /\ Settled(t) /\ page'[t].preview = p.preview /\ page'[t].done = p.done
      /\ page'[t].committing = IF ReviewShown(p) THEN p.committing ELSE 0
  BY <1>1, <1>2, <1>3, TurnOf
<1>5. page[t].committing # 0 => ReviewShown(p)
  BY <1>1, <1>2 DEF Pages, PageTold, ReviewShown
<1>6. page'[t].committing = page[t].committing \/ page[t].committing = c
  BY <1>2, <1>4, <1>5
<1>7. /\ Handles(c, calls'[c]) /\ calls'[c].client = "lost"
      /\ calls'[c].stage = calls[c].stage /\ calls'[c].answer = calls[c].answer
  BY <1>3, ClientHears
<1>8. QED
  BY <1>2, <1>3, <1>4, <1>6, <1>7 DEF Hearing, SamePreview

LEMMA ReceiveHears ==
  ASSUME Formed, Pages, NEW c \in DOMAIN calls, Receive(c)
  PROVE  Hearing(c)
<1> DEFINE t == calls[c].tab
           q == Released(page[t], c)
           p == Applied(q, c)
<1>1. t \in Tab /\ Parts \subseteq DOMAIN page[t]
      /\ calls[c].op \in Previews \cup {"commit", "revert"}
  BY DEF Formed
<1>2. /\ Parts \subseteq DOMAIN q /\ q.preview = page[t].preview /\ q.done = page[t].done
      /\ q.file = page[t].file
      /\ q.committing = IF page[t].committing = c THEN 0 ELSE page[t].committing
  BY <1>1, ReleasedPage
<1>3. /\ Show(t, p) /\ UNCHANGED <<session, db, landed>> /\ calls[c].client = "pending"
      /\ calls[c].stage = "answered" /\ calls' = [calls EXCEPT ![c].client = "told"]
  BY DEF Receive
<1>4. /\ Handles(c, calls'[c]) /\ calls'[c].client = "told"
      /\ calls'[c].stage = calls[c].stage /\ calls'[c].answer = calls[c].answer
  BY <1>3, ClientHears
<1> HIDE DEF q
<1>5. ASSUME p = q, calls[c].op = "commit" => calls[c].answer = Refused PROVE Hearing(c)
  <2>1. /\ Turns(t) /\ Settled(t) /\ page'[t].preview = q.preview /\ page'[t].done = q.done
        /\ page'[t].committing = IF ReviewShown(q) THEN q.committing ELSE 0
    BY <1>1, <1>2, <1>3, <1>5, TurnOf
  <2>2. page[t].committing # 0 => ReviewShown(q)
    BY <1>1, <1>2 DEF Pages, PageTold, ReviewShown
  <2>3. page'[t].committing = page[t].committing \/ page[t].committing = c
    BY <1>2, <2>1, <2>2
  <2>4. QED
    BY <1>2, <1>3, <1>4, <1>5, <2>1, <2>3 DEF Hearing, SamePreview
<1>6. CASE calls[c].answer = Refused
  <2>1. p = q
    BY <1>6 DEF Applied
  <2>2. QED
    BY <1>5, <1>6, <2>1
<1>7. CASE calls[c].answer # Refused /\ calls[c].op \in Previews
  <2> DEFINE excluded == {n \in DOMAIN calls[c].answer : calls[c].answer[n].status # "ok"}
  <2>1. p = [q EXCEPT !.preview = c, !.excluded = excluded]
    BY <1>7 DEF Applied
  <2>2. Parts \subseteq DOMAIN p /\ p.preview = c
    BY <1>2, <2>1 DEF Parts
  <2> HIDE DEF p
  <2>3. Turns(t) /\ Settled(t) /\ page'[t].preview = c
    BY <1>1, <1>3, <2>2, TurnOf
  <2>4. QED
    BY <1>3, <1>4, <1>7, <2>3 DEF Hearing, Answered
<1>8. CASE calls[c].answer # Refused /\ calls[c].op = "commit"
  <2>1. p = [q EXCEPT !.done = TRUE]
    BY <1>8 DEF Applied, Previews
  <2>2. Parts \subseteq DOMAIN p /\ p.preview = q.preview /\ p.done
    BY <1>2, <2>1 DEF Parts
  <2> HIDE DEF p
  <2>3. Turns(t) /\ Settled(t) /\ page'[t].preview = page[t].preview /\ page'[t].done
    BY <1>1, <1>2, <1>3, <2>2, TurnOf
  <2>4. QED
    BY <1>3, <1>4, <2>3 DEF Hearing
<1>9. CASE calls[c].answer # Refused /\ calls[c].op = "revert"
  <2>1. p = q
    BY <1>9 DEF Applied, Previews
  <2>2. QED
    BY <1>5, <1>9, <2>1
<1>10. QED
  BY <1>1, <1>6, <1>7, <1>8, <1>9

-----------------------------------------------------------------------------
(* Every step is one of these. *)

LEMMA StepKinds ==
  ASSUME Formed, Pages, [Next]_vars
  PROVE  \/ \E t \in Tab : Browse(t) \/ Ask(t) \/ Confirm(t)
         \/ \E c \in DOMAIN calls : Serving(c) \/ Hearing(c)
         \/ UNCHANGED vars
<1>1. ASSUME NEW t \in session.tabs, Click(t) PROVE t \in Tab /\ (Browse(t) \/ Ask(t) \/ Confirm(t))
  BY <1>1, ClickKinds, ImportAssumption DEF Formed
<1>2. ASSUME NEW c \in DOMAIN calls, Handle(c) \/ Receive(c) \/ GiveUp(c)
      PROVE  Serving(c) \/ Hearing(c)
  BY <1>2, ChooseMappingServes, FlagRowsServes, CommitServes, RevertServes, ReceiveHears,
     GiveUpHears DEF Handle
<1>3. CASE Next
  BY <1>1, <1>2, <1>3 DEF Next
<1>4. QED
  BY <1>3

(* A call that is sent comes after all others. *)
LEMMA SendingOne ==
  ASSUME Formed, NEW t, NEW call, Clicks(t, call)
  PROVE  /\ Sent \notin DOMAIN calls /\ DOMAIN calls' = DOMAIN calls \cup {Sent}
         /\ Len(calls') = Len(calls) + 1 /\ Len(calls) < session.calls
         /\ \E S : calls' \in Seq(S)
         /\ calls'[Sent] = call /\ \A c \in DOMAIN calls : calls'[c] = calls[c] /\ c < Sent
         /\ Forward
<1>1. calls' = Append(calls, call) /\ Len(calls) < session.calls /\ session' = session
  BY DEF Clicks, Send, Turns
<1>2. /\ Sent \notin DOMAIN calls /\ DOMAIN calls' = DOMAIN calls \cup {Sent}
      /\ Len(calls') = Len(calls) + 1 /\ \E S : calls' \in Seq(S)
      /\ calls'[Sent] = call /\ \A c \in DOMAIN calls : calls'[c] = calls[c] /\ c < Sent
  <2>1. \E S : calls \in Seq(S)
    BY DEF Formed
  <2>2. /\ \E S : calls' \in Seq(S)
        /\ Len(calls) \in Nat /\ Len(calls') = Len(calls) + 1
        /\ DOMAIN calls = 1..Len(calls) /\ DOMAIN calls' = 1..(Len(calls) + 1)
        /\ \A k \in 1..Len(calls) : calls'[k] = calls[k]
        /\ calls'[Len(calls) + 1] = call
    <3> DEFINE longer == Append(calls, call)
    <3>1. /\ \E S : longer \in Seq(S)
          /\ Len(calls) \in Nat /\ Len(longer) = Len(calls) + 1
          /\ DOMAIN calls = 1..Len(calls) /\ DOMAIN longer = 1..(Len(calls) + 1)
          /\ \A k \in 1..Len(calls) : longer[k] = calls[k]
          /\ longer[Len(calls) + 1] = call
      BY <2>1, Appending
    <3> HIDE DEF longer
    <3>2. calls' = longer
      BY <1>1 DEF longer
    <3>3. QED
      BY <3>1, <3>2
  <2>3. Sent \notin DOMAIN calls /\ DOMAIN calls' = DOMAIN calls \cup {Sent}
    BY <2>2 DEF Sent
  <2>4. \A c \in DOMAIN calls : calls'[c] = calls[c] /\ c < Sent
    BY <2>2 DEF Sent
  <2>5. QED
    BY <2>2, <2>3, <2>4 DEF Sent
<1>3. \A c \in DOMAIN calls : Asked(calls[c], calls'[c]) /\ Kept(calls[c], calls'[c])
  <2> TAKE c \in DOMAIN calls
  <2>1. calls'[c] = calls[c]
    BY <1>2
  <2>2. QED
    BY <2>1, SameCall
<1>4. Forward
  BY <1>1, <1>2, <1>3 DEF Forward
<1>5. QED
  BY <1>1, <1>2, <1>4

LEMMA HandlingOne ==
  ASSUME Formed, NEW c, NEW new, Handles(c, new)
  PROVE  /\ DOMAIN calls' = DOMAIN calls /\ Len(calls') = Len(calls)
         /\ \E S : calls' \in Seq(S)
         /\ calls'[c] = new /\ \A d \in DOMAIN calls : d # c => calls'[d] = calls[d]
         /\ Forward
<1>1. /\ DOMAIN calls' = DOMAIN calls /\ Len(calls') = Len(calls)
      /\ \E S : calls' \in Seq(S)
      /\ calls'[c] = new /\ \A d \in DOMAIN calls : d # c => calls'[d] = calls[d]
  <2> DEFINE changed == [calls EXCEPT ![c] = new]
  <2>1. calls' = changed /\ c \in DOMAIN calls /\ \E S : calls \in Seq(S)
    BY DEF Formed, Handles
  <2>2. /\ DOMAIN changed = DOMAIN calls /\ Len(changed) = Len(calls)
        /\ \E S : changed \in Seq(S)
        /\ changed[c] = new /\ \A d \in DOMAIN calls : d # c => changed[d] = calls[d]
    BY <2>1, Replacing
  <2> HIDE DEF changed
  <2>3. QED
    BY <2>1, <2>2
<1>2. \A d \in DOMAIN calls : Asked(calls[d], calls'[d]) /\ Kept(calls[d], calls'[d])
  <2> TAKE d \in DOMAIN calls
  <2>1. CASE d = c
    BY <1>1, <2>1 DEF Handles
  <2>2. CASE d # c
    <3>1. calls'[d] = calls[d]
      BY <1>1, <2>2
    <3>2. QED
      BY <3>1, SameCall
  <2>3. QED
    BY <2>1, <2>2
<1>3. Forward
  BY <1>1, <1>2 DEF Forward, Handles
<1>4. QED
  BY <1>1, <1>3

LEMMA NextForward ==
  ASSUME Formed, Pages, [Next]_vars
  PROVE  Forward
<1>1. ASSUME NEW t \in Tab, Browse(t) PROVE Forward
  BY <1>1 DEF Browse, Turns, Forward, Asked, Kept
<1>2. ASSUME NEW t \in Tab, Ask(t) \/ Confirm(t) PROVE Forward
  BY <1>2, SendingOne DEF Ask, Confirm
<1>3. ASSUME NEW c \in DOMAIN calls, Serving(c) \/ Hearing(c) PROVE Forward
  BY <1>3, HandlingOne DEF Serving, Hearing
<1>4. CASE UNCHANGED vars
  BY <1>4 DEF vars, Forward, Asked, Kept
<1>5. QED
  BY <1>1, <1>2, <1>3, <1>4, StepKinds

-----------------------------------------------------------------------------
(* The shape of the state. *)

CallsFormed ==
  /\ \E S : calls \in Seq(S)
  /\ Len(calls) <= session.calls
  /\ \A c \in DOMAIN calls :
       /\ Fields \subseteq DOMAIN calls[c]
       /\ calls[c].tab \in Tab /\ calls[c].op \in Previews \cup {"commit", "revert"}

PageFormed ==
  /\ page = [t \in Tab |-> page[t]]
  /\ \A t \in Tab : Parts \subseteq DOMAIN page[t]

TablesFormed ==
  /\ {"batches", "transactions"} \subseteq DOMAIN db
  /\ \E S : landed \in Seq(S)

LEMMA FormedParts ==
  Formed <=> session \in Sessions /\ TablesFormed /\ CallsFormed /\ PageFormed
BY DEF Formed, TablesFormed, CallsFormed, PageFormed

LEMMA FormedNext ==
  ASSUME session' \in Sessions, TablesFormed', CallsFormed', PageFormed'
  PROVE  Formed'
BY DEF Formed, TablesFormed, CallsFormed, PageFormed

LEMMA InitFormed ==
  ASSUME Init
  PROVE  Formed
<1>1. <<>> \in Seq({})
  OBVIOUS
<1>2. session \in Sessions /\ session.calls \in Nat
  BY ImportAssumption DEF Init
<1>3. CallsFormed
  BY <1>1, <1>2 DEF Init, CallsFormed
<1>4. {"batches", "transactions"} \subseteq DOMAIN StartDB
  BY ImportAssumption DEF Database
<1>5. TablesFormed
  BY <1>1, <1>4 DEF Init, TablesFormed
<1>6. PageFormed
  BY DEF Init, PageFormed, FreshPage, Parts
<1>7. QED
  BY <1>2, <1>3, <1>5, <1>6, FormedParts

LEMMA TurnFormed ==
  ASSUME Formed, NEW t, Turns(t)
  PROVE  PageFormed' /\ TablesFormed' /\ session' \in Sessions
<1>1. PageFormed'
  BY DEF Formed, Turns, PageFormed
<1>2. QED
  BY <1>1 DEF Formed, Turns, TablesFormed

LEMMA SendingFormed ==
  ASSUME Formed, NEW t, NEW call, Clicks(t, call),
         call.op \in Previews \cup {"commit", "revert"}
  PROVE  CallsFormed'
<1>1. session' = session /\ session.calls \in Nat /\ Len(calls) \in Nat
  BY ImportAssumption, Appending DEF Clicks, Turns, Formed
<1>2. Fields \subseteq DOMAIN call /\ call.tab \in Tab
  BY DEF Clicks, Turns
<1>3. QED
  BY <1>1, <1>2, SendingOne DEF Formed, CallsFormed

LEMMA HandlingFormed ==
  ASSUME Formed, NEW c, NEW new, Handles(c, new)
  PROVE  CallsFormed'
BY HandlingOne DEF Handles, Asked, Formed, CallsFormed

LEMMA HandleTables ==
  ASSUME Formed, NEW c \in DOMAIN calls, Handle(c)
  PROVE  TablesFormed'
<1>1. CASE UNCHANGED <<db, landed>>
  BY <1>1 DEF Formed, TablesFormed
<1>2. CASE CommitImport(c)
  <2>1. \/ UNCHANGED <<db, landed>>
        \/ /\ landed' = Append(landed, c)
           /\ {"batches", "transactions"} \subseteq DOMAIN db'
    BY <1>2, CommitServes DEF Formed
  <2>2. \E S : landed \in Seq(S)
    BY DEF Formed
  <2>3. \E S : Append(landed, c) \in Seq(S)
    BY <2>2, Appending
  <2>4. QED
    BY <1>1, <2>1, <2>3 DEF TablesFormed
<1>3. CASE RevertImport(c)
  BY <1>3, RevertServes DEF DeleteBatch, Formed, TablesFormed
<1>4. QED
  BY <1>1, <1>2, <1>3, ChooseMappingServes, FlagRowsServes DEF Handle

LEMMA NextFormed ==
  ASSUME Formed, Pages, [Next]_vars
  PROVE  Formed'
<1>1. ASSUME NEW t \in Tab, Browse(t) PROVE Formed'
  <2>1. CallsFormed'
    BY <1>1 DEF Browse, Turns, Formed, CallsFormed
  <2>2. QED
    BY <1>1, <2>1, TurnFormed, FormedNext DEF Browse
<1>2. ASSUME NEW t \in Tab, Ask(t) \/ Confirm(t) PROVE Formed'
  <2>1. PICK call : Clicks(t, call) /\ call.op \in Previews \cup {"commit", "revert"}
    BY <1>2 DEF Ask, Confirm
  <2>2. CallsFormed'
    BY <2>1, SendingFormed
  <2>3. PageFormed' /\ TablesFormed' /\ session' \in Sessions
    BY <2>1, TurnFormed DEF Clicks
  <2>4. QED
    BY <2>2, <2>3, FormedNext
<1>3. ASSUME NEW c \in DOMAIN calls, Handle(c) PROVE Formed'
  <2>1. Serving(c)
    BY <1>3, ChooseMappingServes, FlagRowsServes, CommitServes, RevertServes DEF Handle
  <2>2. PageFormed' /\ session' \in Sessions
    BY <2>1 DEF Serving, Handles, Formed, PageFormed
  <2>3. CallsFormed' /\ TablesFormed'
    BY <1>3, <2>1, HandlingFormed, HandleTables DEF Serving
  <2>4. QED
    BY <2>2, <2>3, FormedNext
<1>4. ASSUME NEW c \in DOMAIN calls, Receive(c) \/ GiveUp(c) PROVE Formed'
  <2>1. Hearing(c)
    BY <1>4, ReceiveHears, GiveUpHears
  <2>2. CallsFormed' /\ PageFormed' /\ TablesFormed' /\ session' \in Sessions
    BY <2>1, HandlingFormed, TurnFormed DEF Hearing
  <2>3. QED
    BY <2>2, FormedNext
<1>5. ASSUME NEW t \in session.tabs, Click(t) PROVE Formed'
  BY <1>1, <1>2, <1>5, ClickKinds, ImportAssumption DEF Formed
<1>6. CASE UNCHANGED vars
  BY <1>6 DEF vars, Formed
<1>7. CASE Next
  BY <1>3, <1>4, <1>5, <1>7 DEF Next
<1>8. QED
  BY <1>6, <1>7

-----------------------------------------------------------------------------
(* What a call is about, and what became of it, stays. *)

LEMMA ToldStays ==
  ASSUME Forward, NEW p, NEW t, Told(p, t)
  PROVE  Told(p, t)' /\ calls'[p].mapping = calls[p].mapping
<1>1. p \in DOMAIN calls' /\ Asked(calls[p], calls'[p]) /\ Kept(calls[p], calls'[p])
  BY DEF Forward, Told
<1>2. QED
  BY <1>1 DEF Asked, Kept, Told, Answered

LEMMA OtherTabs ==
  ASSUME Formed, NEW t, Turns(t)
  PROVE  \A q \in Tab : q # t => page'[q] = page[q]
BY DEF Formed, Turns

LEMMA NextPages ==
  ASSUME Formed, Pages, [Next]_vars
  PROVE  Pages'
<1>0. Forward
  BY NextForward
<1>1. ASSUME NEW q \in Tab, page'[q] = page[q]
      PROVE  PageTold(q)'
  <2>1. PageTold(q)
    BY DEF Pages
  <2>2. ASSUME NEW p, Told(p, q) PROVE Told(p, q)'
    BY <1>0, <2>2, ToldStays
  <2>3. QED
    BY <1>1, <2>1, <2>2 DEF PageTold, ReviewShown
<1>2. ASSUME NEW t \in Tab, Turns(t), Settled(t),
             page'[t].preview \in {0, page[t].preview} \/ (Told(page[t].preview, t))'
      PROVE  Pages'
  <2>1. PageTold(t)
    BY DEF Pages
  <2>2. ASSUME NEW p, Told(p, t) PROVE Told(p, t)'
    BY <1>0, <2>2, ToldStays
  <2>3. PageTold(t)'
    BY <1>2, <2>1, <2>2 DEF PageTold, Settled, ReviewShown
  <2>4. QED
    BY <1>1, <1>2, <2>3, OtherTabs DEF Pages
<1>3. ASSUME NEW t \in Tab, Browse(t) \/ Ask(t) \/ Confirm(t) PROVE Pages'
  BY <1>2, <1>3 DEF Browse, Ask, Confirm, Clicks, SamePreview
<1>4. ASSUME NEW c \in DOMAIN calls, Serving(c) PROVE Pages'
  BY <1>1, <1>4 DEF Serving, Pages
<1>5. ASSUME NEW c \in DOMAIN calls, Hearing(c) PROVE Pages'
  <2>0. PICK t \in Tab : t = calls[c].tab
    BY DEF Formed
  <2>1. /\ Turns(t) /\ Settled(t)
        /\ \/ page'[t].preview = page[t].preview
           \/ /\ page'[t].preview = c /\ calls[c].op \in Previews /\ Answered(c)
              /\ calls'[c].client = "told"
    BY <1>5, <2>0 DEF Hearing, SamePreview
  <2>2. /\ c \in DOMAIN calls' /\ Asked(calls[c], calls'[c]) /\ Kept(calls[c], calls'[c])
    BY <1>0 DEF Forward
  <2>3. calls[c].op \in Previews /\ Answered(c) /\ calls'[c].client = "told" => Told(c, t)'
    BY <2>0, <2>2 DEF Asked, Kept, Told, Answered
  <2>4. QED
    BY <1>2, <2>1, <2>3
<1>6. CASE UNCHANGED vars
  BY <1>1, <1>6 DEF vars, Pages
<1>7. QED
  BY <1>3, <1>4, <1>5, <1>6, StepKinds

-----------------------------------------------------------------------------
(* Attempts to import what a preview shows. *)

Failed(c) ==
  \/ calls[c].client = "lost"
  \/ calls[c].stage = "answered" /\ calls[c].answer = Refused

(* Until it has failed, the page waits for the call, or is done, or shows *)
(* something else, and never again what the call was about.               *)
Pending(c) ==
  LET p == page[calls[c].tab]
  IN p.preview # calls[c].shown \/ p.committing = c \/ p.done

Attempt(c) ==
  /\ Told(calls[c].shown, calls[c].tab)
  /\ calls[c].mapping = calls[calls[c].shown].mapping
  /\ Failed(c) \/ Pending(c)

Attempts == \A c \in DOMAIN calls : calls[c].op = "commit" => Attempt(c)

Once ==
  \A c, d \in DOMAIN calls :
    calls[c].op = "commit" /\ calls[d].op = "commit" /\ c < d /\ calls[c].shown = calls[d].shown =>
      Failed(c)

LEMMA FailedStays ==
  ASSUME Forward, NEW c \in DOMAIN calls, Failed(c)
  PROVE  Failed(c)'
BY DEF Forward, Kept, Failed

(* What the page does not show, it will not show: a call is told once. *)
LEMMA AttemptStays ==
  ASSUME Forward, NEW c \in DOMAIN calls, calls[c].op = "commit", Attempt(c),
         Pending(c) => Pending(c)' \/ Failed(c)'
  PROVE  Attempt(c)'
<1>1. PICK s, t, m : s = calls[c].shown /\ t = calls[c].tab /\ m = calls[c].mapping
  OBVIOUS
<1>2. s = calls'[c].shown /\ t = calls'[c].tab /\ m = calls'[c].mapping
  BY <1>1 DEF Forward, Asked, Previews
<1>3. Told(s, t)' /\ calls'[s].mapping = m
  BY <1>1, ToldStays DEF Attempt
<1>4. Failed(c)' \/ Pending(c)'
  BY FailedStays DEF Attempt
<1>5. QED
  BY <1>2, <1>3, <1>4 DEF Attempt

(* Nothing a step does to a page makes an attempt look undone. *)
LEMMA PendingStays ==
  ASSUME Formed, Pages, [Next]_vars, NEW c \in DOMAIN calls, calls[c].op = "commit",
         Attempt(c), Pending(c)
  PROVE  Pending(c)' \/ Failed(c)'
<1>0. PICK t \in Tab : t = calls[c].tab
  BY DEF Formed
<1>1. PICK s \in DOMAIN calls : s = calls[c].shown /\ Told(s, t)
  BY <1>0 DEF Attempt, Told
<1>2. c # 0 /\ s # 0
  <2>1. \E S : calls \in Seq(S)
    BY DEF Formed
  <2>2. QED
    BY <2>1, Appending
<1>3. Forward
  BY NextForward
<1>4. c \in DOMAIN calls' /\ t = calls'[c].tab /\ s = calls'[c].shown
  BY <1>0, <1>1, <1>3 DEF Forward, Asked
<1>5. page[t].preview # s \/ page[t].committing = c \/ page[t].done
  BY <1>0, <1>1 DEF Pending
<1>6. Pending(c)' <=> (page'[t].preview # s \/ page'[t].committing = c \/ page'[t].done)
  BY <1>4 DEF Pending
<1>7. ASSUME page'[t] = page[t] PROVE Pending(c)'
  BY <1>5, <1>6, <1>7
<1>8. ASSUME NEW q \in Tab, Browse(q) \/ Ask(q) \/ Confirm(q) PROVE Pending(c)'
  <2>1. Turns(q)
    BY <1>8 DEF Browse, Ask, Confirm, Clicks
  <2>2. CASE q # t
    BY <2>1, <2>2, <1>7, OtherTabs
  <2>3. CASE q = t
    BY <1>2, <1>5, <1>6, <1>8, <2>3 DEF Browse, Ask, Confirm, SamePreview
  <2>4. QED
    BY <2>2, <2>3
<1>9. ASSUME NEW d \in DOMAIN calls, Serving(d) PROVE Pending(c)'
  BY <1>7, <1>9 DEF Serving
<1>10. ASSUME NEW d \in DOMAIN calls, Hearing(d) PROVE Pending(c)' \/ Failed(c)'
  <2>1. PICK q \in Tab : q = calls[d].tab
    BY DEF Formed
  <2>2. CASE q # t
    BY <1>7, <1>10, <2>1, <2>2, OtherTabs DEF Hearing
  <2>3. CASE q = t /\ d # c
    <3>1. s # d
      BY <1>1, <1>10 DEF Told, Hearing
    <3>2. \/ SamePreview(t) /\ page'[t].committing = page[t].committing
          \/ SamePreview(t) /\ page[t].committing = d
          \/ page'[t].done
          \/ page'[t].preview = d
      BY <1>10, <2>1, <2>3 DEF Hearing
    <3>3. QED
      BY <1>5, <1>6, <2>3, <3>1, <3>2 DEF SamePreview
  <2>4. CASE q = t /\ d = c
    <3>1. s # c
      BY <1>1, <1>10, <2>4 DEF Told, Hearing
    <3>2. \/ SamePreview(t) /\ page'[t].committing = page[t].committing
          \/ calls'[c].client = "lost"
          \/ calls'[c].stage = "answered" /\ calls'[c].answer = Refused
          \/ page'[t].done
          \/ page'[t].preview = c
      BY <1>10, <2>1, <2>4 DEF Hearing
    <3>3. CASE calls'[c].client = "lost" \/ (calls'[c].stage = "answered" /\ calls'[c].answer = Refused)
      BY <3>3 DEF Failed
    <3>4. QED
      BY <1>5, <1>6, <3>1, <3>2, <3>3 DEF SamePreview
  <2>5. QED
    BY <2>2, <2>3, <2>4
<1>11. CASE UNCHANGED vars
  BY <1>7, <1>11 DEF vars
<1>12. QED
  BY <1>8, <1>9, <1>10, <1>11, StepKinds

(* The calls after a step are those before and, if Import was clicked, an *)
(* attempt at what the page then showed.                                  *)
LEMMA NewCommit ==
  ASSUME Formed, Pages, [Next]_vars, NEW d \in DOMAIN calls', d \notin DOMAIN calls,
         calls'[d].op = "commit"
  PROVE  \E t \in Tab :
           /\ Confirm(t) /\ d = Sent /\ calls'[d].tab = t /\ calls'[d].shown = page[t].preview
           /\ calls'[d].mapping = calls[page[t].preview].mapping
           /\ \A c \in DOMAIN calls : c < d
<1>1. ASSUME NEW t \in Tab, Browse(t) PROVE FALSE
  BY <1>1 DEF Browse
<1>2. ASSUME NEW t \in Tab, Ask(t) PROVE FALSE
  <2>1. PICK call : Clicks(t, call) /\ call.op \in Previews \cup {"revert"}
    BY <1>2 DEF Ask
  <2>2. d = Sent /\ calls'[d] = call
    BY <2>1, SendingOne
  <2>3. QED
    BY <2>1, <2>2 DEF Previews
<1>3. ASSUME NEW c \in DOMAIN calls, Serving(c) \/ Hearing(c) PROVE FALSE
  BY <1>3, HandlingOne DEF Serving, Hearing
<1>4. CASE UNCHANGED vars
  BY <1>4 DEF vars
<1>5. PICK t \in Tab : Confirm(t)
  BY <1>1, <1>2, <1>3, <1>4, StepKinds
<1>6. PICK call : /\ Clicks(t, call) /\ call.op = "commit" /\ call.shown = page[t].preview
                  /\ call.mapping = calls[page[t].preview].mapping
  BY <1>5 DEF Confirm
<1>7. d = Sent /\ calls'[d] = call /\ \A c \in DOMAIN calls : c < Sent
  BY <1>6, SendingOne
<1>8. call.tab = t
  BY <1>6 DEF Clicks
<1>9. QED
  BY <1>5, <1>6, <1>7, <1>8

LEMMA NextAttempts ==
  ASSUME Formed, Pages, Attempts, [Next]_vars
  PROVE  Attempts'
<1>0. Forward
  BY NextForward
<1>1. ASSUME NEW c \in DOMAIN calls, calls'[c].op = "commit" PROVE Attempt(c)'
  <2>1. calls[c].op = "commit"
    BY <1>0, <1>1 DEF Forward, Asked
  <2>2. Attempt(c)
    BY <2>1 DEF Attempts
  <2>3. QED
    BY <1>0, <2>1, <2>2, PendingStays, AttemptStays
<1>2. ASSUME NEW c \in DOMAIN calls', c \notin DOMAIN calls, calls'[c].op = "commit"
      PROVE  Attempt(c)'
  <2>1. PICK t \in Tab :
          /\ Confirm(t) /\ c = Sent /\ calls'[c].tab = t /\ calls'[c].shown = page[t].preview
          /\ calls'[c].mapping = calls[page[t].preview].mapping
    BY <1>2, NewCommit
  <2>2. PICK s : s = page[t].preview
    OBVIOUS
  <2>3. Told(s, t)
    BY <2>1, <2>2 DEF Pages, PageTold, Confirm, ReviewShown
  <2>4. Told(s, t)' /\ calls'[s].mapping = calls[s].mapping
    BY <1>0, <2>3, ToldStays
  <2>5. page'[t].committing = c
    BY <2>1 DEF Confirm
  <2>6. Pending(c)'
    BY <2>1, <2>5 DEF Pending
  <2>7. QED
    BY <2>1, <2>2, <2>4, <2>6 DEF Attempt
<1>3. QED
  BY <1>1, <1>2 DEF Attempts

LEMMA NextOnce ==
  ASSUME Formed, Pages, Attempts, Once, [Next]_vars
  PROVE  Once'
<1> SUFFICES ASSUME NEW c \in DOMAIN calls', NEW d \in DOMAIN calls',
                    calls'[c].op = "commit", calls'[d].op = "commit", c < d,
                    calls'[c].shown = calls'[d].shown
             PROVE  Failed(c)'
  BY DEF Once
<1>0. Forward
  BY NextForward
<1>1. c \in DOMAIN calls
  <2>1. CASE c \notin DOMAIN calls
    <3>1. c = Sent /\ \A k \in DOMAIN calls : k < c
      BY <2>1, NewCommit
    <3>2. d \notin DOMAIN calls => d = Sent
      BY NewCommit
    <3>3. Len(calls) \in Nat /\ DOMAIN calls = 1..Len(calls)
      <4>1. \E S : calls \in Seq(S)
        BY DEF Formed
      <4>2. QED
        BY <4>1, Appending
    <3>4. QED
      BY <3>1, <3>2, <3>3 DEF Sent
  <2>2. QED
    BY <2>1
<1>2. calls[c].op = "commit" /\ calls[c].shown = calls'[c].shown /\ calls[c].tab = calls'[c].tab
  BY <1>0, <1>1 DEF Forward, Asked
<1>3. CASE d \in DOMAIN calls
  <2>1. calls[d].op = "commit" /\ calls[d].shown = calls'[d].shown
    BY <1>0, <1>3 DEF Forward, Asked
  <2>2. Failed(c)
    BY <1>1, <1>2, <1>3, <2>1 DEF Once
  <2>3. QED
    BY <1>0, <1>1, <2>2, FailedStays
<1>4. CASE d \notin DOMAIN calls
  <2>1. PICK t \in Tab : Confirm(t) /\ calls'[d].shown = page[t].preview
    BY <1>4, NewCommit
  <2>2. Told(page[t].preview, t) /\ page[t].committing = 0 /\ ~page[t].done
    BY <2>1 DEF Pages, PageTold, Confirm, ReviewShown
  <2>3. Attempt(c)
    BY <1>1, <1>2 DEF Attempts
  <2>4. calls[c].shown = page[t].preview /\ calls[c].tab = t
    BY <1>2, <2>1, <2>2, <2>3 DEF Attempt, Told
  <2>5. c # 0
    <3>1. \E S : calls \in Seq(S)
      BY DEF Formed
    <3>2. QED
      BY <1>1, <3>1, Appending
  <2>6. Failed(c)
    BY <2>2, <2>3, <2>4, <2>5 DEF Attempt, Pending
  <2>7. QED
    BY <1>0, <1>1, <2>6, FailedStays
<1>5. QED
  BY <1>3, <1>4

-----------------------------------------------------------------------------
(* The batches that landed. *)

Landings ==
  /\ \A k \in DOMAIN landed :
       /\ landed[k] \in DOMAIN calls /\ calls[landed[k]].op = "commit"
       /\ calls[landed[k]].stage = "answered" /\ calls[landed[k]].answer = <<landed[k], 0>>
  /\ \A j, k \in DOMAIN landed : landed[j] = landed[k] => j = k

LEMMA NextLandings ==
  ASSUME Formed, Pages, Landings, [Next]_vars
  PROVE  Landings'
<1>0. Forward
  BY NextForward
<1>1. ASSUME NEW c \in DOMAIN calls, calls[c].op = "commit", calls[c].stage = "answered",
             calls[c].answer = <<c, 0>>
      PROVE  /\ c \in DOMAIN calls' /\ calls'[c].op = "commit" /\ calls'[c].stage = "answered"
             /\ calls'[c].answer = <<c, 0>>
  BY <1>0, <1>1 DEF Forward, Asked, Kept
<1>2. CASE landed' = landed
  BY <1>1, <1>2 DEF Landings
<1>3. ASSUME NEW c \in DOMAIN calls, CommitImport(c), landed' # landed PROVE Landings'
  <2>1. /\ landed' = Append(landed, c) /\ calls'[c].stage = "answered"
        /\ calls'[c].answer = <<c, 0>> /\ calls[c].op = "commit" /\ calls[c].stage # "answered"
    BY <1>3, CommitServes DEF Serving
  <2> DEFINE longer == Append(landed, c)
  <2>2. \E S : landed \in Seq(S)
    BY DEF Formed
  <2>3. /\ Len(landed) \in Nat
        /\ DOMAIN landed = 1..Len(landed) /\ DOMAIN longer = 1..(Len(landed) + 1)
        /\ \A k \in 1..Len(landed) : longer[k] = landed[k]
        /\ longer[Len(landed) + 1] = c
    BY <2>2, Appending
  <2> HIDE DEF longer
  <2>4. landed' = longer
    BY <2>1 DEF longer
  <2>5. c \in DOMAIN calls' /\ calls'[c].op = "commit"
    BY <1>0, <2>1 DEF Forward, Asked
  <2>6. \A k \in DOMAIN landed : landed[k] # c
    BY <2>1 DEF Landings
  <2>7. \A k \in DOMAIN longer :
          /\ longer[k] \in DOMAIN calls' /\ calls'[longer[k]].op = "commit"
          /\ calls'[longer[k]].stage = "answered" /\ calls'[longer[k]].answer = <<longer[k], 0>>
    <3> TAKE k \in DOMAIN longer
    <3>1. CASE k = Len(landed) + 1
      BY <2>1, <2>3, <2>5, <3>1
    <3>2. CASE k \in DOMAIN landed
      BY <1>1, <2>3, <3>2 DEF Landings
    <3>3. QED
      BY <2>3, <3>1, <3>2
  <2>8. \A j, k \in DOMAIN longer : longer[j] = longer[k] => j = k
    BY <2>3, <2>6 DEF Landings
  <2>9. QED
    BY <2>4, <2>7, <2>8 DEF Landings
<1>4. ASSUME NEW c \in DOMAIN calls, Handle(c) PROVE landed' = landed \/ CommitImport(c)
  BY <1>4, ChooseMappingServes, FlagRowsServes, RevertServes DEF Handle
<1>5. ASSUME NEW c \in DOMAIN calls, Receive(c) \/ GiveUp(c) PROVE landed' = landed
  BY <1>5 DEF Receive, GiveUp
<1>6. ASSUME NEW t \in session.tabs, Click(t) PROVE landed' = landed
  BY <1>6, ClickKinds, ImportAssumption DEF Formed, Browse, Ask, Confirm, Clicks, Turns
<1>7. CASE Next
  BY <1>2, <1>3, <1>4, <1>5, <1>6, <1>7 DEF Next
<1>8. CASE UNCHANGED vars
  BY <1>2, <1>8 DEF vars
<1>9. QED
  BY <1>7, <1>8

-----------------------------------------------------------------------------
(* One preview, one import. *)

Basis == Formed /\ Pages /\ Attempts /\ Once /\ Landings

LEMMA InitBasis ==
  ASSUME Init
  PROVE  Basis
<1>1. Formed
  BY InitFormed
<1>2. Pages
  BY DEF Init, Pages, PageTold, FreshPage
<1>3. DOMAIN calls = {} /\ DOMAIN landed = {}
  BY DEF Init
<1>4. Attempts /\ Once /\ Landings
  BY <1>3 DEF Attempts, Once, Landings
<1>5. QED
  BY <1>1, <1>2, <1>4 DEF Basis

LEMMA NextBasis ==
  ASSUME Basis, [Next]_vars
  PROVE  Basis'
BY NextFormed, NextPages, NextAttempts, NextOnce, NextLandings DEF Basis

LEMMA BasisOnce ==
  ASSUME Basis
  PROVE  OncePerPreview
<1> SUFFICES ASSUME NEW j \in DOMAIN landed, NEW k \in DOMAIN landed, j < k,
                    calls[landed[j]].shown = calls[landed[k]].shown
             PROVE  \E c \in {landed[j], landed[k]} : calls[c].client = "lost"
  BY DEF OncePerPreview
<1> DEFINE c == landed[j]
           d == landed[k]
<1>1. /\ c \in DOMAIN calls /\ calls[c].op = "commit" /\ calls[c].stage = "answered"
      /\ calls[c].answer = <<c, 0>>
      /\ d \in DOMAIN calls /\ calls[d].op = "commit" /\ calls[d].stage = "answered"
      /\ calls[d].answer = <<d, 0>>
  BY DEF Basis, Landings
<1>2. j \in Nat /\ k \in Nat /\ DOMAIN calls \subseteq Request /\ DOMAIN calls \subseteq Nat
  <2>1. (\E S : calls \in Seq(S)) /\ (\E S : landed \in Seq(S))
    BY DEF Basis, Formed
  <2>2. /\ DOMAIN calls = 1..Len(calls) /\ DOMAIN landed = 1..Len(landed)
        /\ Len(calls) \in Nat /\ Len(landed) \in Nat
    BY <2>1, Appending
  <2>3. Len(calls) <= session.calls /\ session.calls \in Nat /\ 1..session.calls \subseteq Request
    BY ImportAssumption DEF Basis, Formed
  <2>4. QED
    BY <2>2, <2>3
<1>3. <<c, 0>> # NULL /\ <<d, 0>> # NULL
  BY <1>1, <1>2, NullAssumption DEF Id
<1>4. c # d
  BY <1>2 DEF Basis, Landings
<1>5. CASE c < d
  BY <1>1, <1>3, <1>5 DEF Basis, Once, Failed, Refused
<1>6. CASE d < c
  BY <1>1, <1>3, <1>6 DEF Basis, Once, Failed, Refused
<1>7. QED
  BY <1>1, <1>2, <1>4, <1>5, <1>6

LEMMA AlwaysBasis == Spec => []Basis
<1>1. Init => Basis
  BY InitBasis
<1>2. Basis /\ [Next]_vars => Basis'
  BY NextBasis
<1>3. QED
  BY <1>1, <1>2, PTL DEF Spec

(* One preview is imported once, whatever is clicked while the import is   *)
(* under way, unless the page was told that the first attempt had failed.  *)
THEOREM ImportsOnce == Spec => []OncePerPreview
<1>1. Basis => OncePerPreview
  BY BasisOnce
<1>2. QED
  BY <1>1, AlwaysBasis, PTL

-----------------------------------------------------------------------------
(* What is in the database was there before, or is a row of a commit call. *)

Landed(c) ==
  /\ c \in DOMAIN calls /\ calls[c].op = "commit" /\ calls[c].stage = "answered"
  /\ ~FileChanged(c)

Whole(b) ==
  \E c \in DOMAIN calls :
    /\ Landed(c) /\ b = NewBatch(c)
    /\ \A n \in Ticked(c) : Imported(c, n) \in db.transactions

FromFile(x) == \E c \in DOMAIN calls : Landed(c) /\ \E n \in Ticked(c) : x = Imported(c, n)

Written ==
  /\ \A b \in db.batches : Whole(b)
  /\ \A x \in db.transactions : x \in StartDB.transactions \/ FromFile(x)

LEMMA RowsStay ==
  ASSUME Forward, NEW c \in DOMAIN calls
  PROVE  /\ Upload(c)' = Upload(c)
         /\ calls'[c].mapping = calls[c].mapping =>
              /\ Rows(c)' = Rows(c) /\ Ticked(c)' = Ticked(c) /\ NewBatch(c)' = NewBatch(c)
              /\ \A n : Imported(c, n)' = Imported(c, n)
<1>1. /\ session' = session /\ calls'[c].file = calls[c].file
      /\ calls'[c].account = calls[c].account /\ calls'[c].excluded = calls[c].excluded
  BY DEF Forward, Asked
<1>2. Upload(c)' = Upload(c)
  BY <1>1 DEF Upload, File
<1>3. ASSUME calls'[c].mapping = calls[c].mapping
      PROVE  /\ Rows(c)' = Rows(c) /\ Ticked(c)' = Ticked(c) /\ NewBatch(c)' = NewBatch(c)
             /\ \A n : Imported(c, n)' = Imported(c, n)
  <2>1. Rows(c)' = Rows(c)
    BY <1>2, <1>3 DEF Rows
  <2>2. Ticked(c)' = Ticked(c)
    BY <1>1, <2>1 DEF Ticked
  <2>3. NewBatch(c)' = NewBatch(c)
    BY <1>1, <2>2 DEF NewBatch
  <2>4. \A n : Imported(c, n)' = Imported(c, n)
    BY <1>1, <2>1 DEF Imported, HashOf
  <2>5. QED
    BY <2>1, <2>2, <2>3, <2>4
<1>4. QED
  BY <1>2, <1>3

LEMMA LandedStays ==
  ASSUME Forward, Attempts, NEW c, Landed(c)
  PROVE  /\ Landed(c)' /\ Ticked(c)' = Ticked(c) /\ NewBatch(c)' = NewBatch(c)
         /\ \A n : Imported(c, n)' = Imported(c, n)
<1>1. PICK s \in DOMAIN calls : s = calls[c].shown
  BY DEF Attempts, Attempt, Told, Landed
<1>2. /\ c \in DOMAIN calls' /\ calls'[c].op = "commit" /\ calls'[c].stage = "answered"
      /\ calls'[c].mapping = calls[c].mapping /\ calls'[c].shown = s
  BY <1>1 DEF Forward, Asked, Kept, Landed
<1>3. Upload(c)' = Upload(c) /\ Upload(s)' = Upload(s)
  BY <1>1, RowsStay DEF Landed
<1>4. ~FileChanged(c)'
  BY <1>1, <1>2, <1>3 DEF Landed, FileChanged
<1>5. QED
  BY <1>2, <1>4, RowsStay DEF Landed

LEMMA TableKinds ==
  ASSUME Formed, Pages, [Next]_vars
  PROVE  \/ db' = db
         \/ \E c \in DOMAIN calls : CommitImport(c)
         \/ \E c \in DOMAIN calls : RevertImport(c)
<1>1. ASSUME NEW c \in DOMAIN calls, Handle(c) PROVE db' = db \/ CommitImport(c) \/ RevertImport(c)
  BY <1>1, ChooseMappingServes, FlagRowsServes DEF Handle
<1>2. ASSUME NEW c \in DOMAIN calls, Receive(c) \/ GiveUp(c) PROVE db' = db
  BY <1>2 DEF Receive, GiveUp
<1>3. ASSUME NEW t \in session.tabs, Click(t) PROVE db' = db
  BY <1>3, ClickKinds, ImportAssumption DEF Formed, Browse, Ask, Confirm, Clicks, Turns
<1>4. CASE Next
  BY <1>1, <1>2, <1>3, <1>4 DEF Next
<1>5. CASE UNCHANGED vars
  BY <1>5 DEF vars
<1>6. QED
  BY <1>4, <1>5

LEMMA NextWritten ==
  ASSUME Basis, Written, [Next]_vars
  PROVE  Written'
<1>0. Forward /\ Attempts /\ Formed /\ Pages
  BY NextForward DEF Basis
<1>1. ASSUME NEW c, Landed(c)
      PROVE  /\ c \in DOMAIN calls' /\ Landed(c)' /\ Ticked(c)' = Ticked(c)
             /\ NewBatch(c)' = NewBatch(c) /\ \A n : Imported(c, n)' = Imported(c, n)
  BY <1>0, <1>1, LandedStays DEF Landed
<1>2. ASSUME NEW b, Whole(b), \A x \in db.transactions : x.batch = b.id => x \in db'.transactions
      PROVE  Whole(b)'
  <2>1. PICK c \in DOMAIN calls : /\ Landed(c) /\ b = NewBatch(c)
                                  /\ \A n \in Ticked(c) : Imported(c, n) \in db.transactions
    BY <1>2 DEF Whole
  <2>2. \A n \in Ticked(c) : Imported(c, n).batch = b.id
    BY <2>1 DEF Imported, NewBatch
  <2>3. \A n \in Ticked(c) : Imported(c, n) \in db'.transactions
    BY <1>2, <2>1, <2>2
  <2>4. QED
    BY <1>1, <2>1, <2>3 DEF Whole
<1>3. ASSUME NEW x, FromFile(x) PROVE FromFile(x)'
  BY <1>1, <1>3 DEF FromFile
<1>4. CASE db' = db
  BY <1>2, <1>3, <1>4 DEF Written
<1>5. ASSUME NEW c \in DOMAIN calls, CommitImport(c), db' # db PROVE Written'
  <2>1. /\ calls[c].op = "commit" /\ calls'[c].stage = "answered"
        /\ calls'[c].mapping = calls[c].mapping /\ ~FileChanged(c)
        /\ db' = [db EXCEPT !.batches = @ \cup {NewBatch(c)},
                    !.transactions = @ \cup {Imported(c, n) : n \in Ticked(c)}]
    BY <1>0, <1>5, CommitServes
  <2>2. db'.batches = db.batches \cup {NewBatch(c)}
        /\ db'.transactions = db.transactions \cup {Imported(c, n) : n \in Ticked(c)}
    BY <1>0, <2>1 DEF Formed
  <2>3. PICK s \in DOMAIN calls : s = calls[c].shown
    BY <1>0, <2>1 DEF Attempts, Attempt, Told
  <2>4. /\ c \in DOMAIN calls' /\ calls'[c].op = "commit" /\ calls'[c].shown = s
        /\ Upload(c)' = Upload(c) /\ Upload(s)' = Upload(s)
    BY <1>0, <2>1, <2>3, RowsStay DEF Forward, Asked
  <2>5. Landed(c)'
    BY <2>1, <2>3, <2>4 DEF Landed, FileChanged
  <2>6. /\ Ticked(c)' = Ticked(c) /\ NewBatch(c)' = NewBatch(c)
        /\ \A n : Imported(c, n)' = Imported(c, n)
    BY <1>0, <2>1, RowsStay
  <2>7. \A n \in Ticked(c) : Imported(c, n) \in db'.transactions
    BY <2>2
  <2>8. Whole(NewBatch(c))'
    BY <2>4, <2>5, <2>6, <2>7 DEF Whole
  <2>9. \A b \in db'.batches : Whole(b)'
    BY <1>2, <2>2, <2>6, <2>8 DEF Written
  <2>10. \A x \in db'.transactions : x \in StartDB.transactions \/ FromFile(x)'
    <3> TAKE x \in db'.transactions
    <3>1. CASE x \in db.transactions
      BY <1>3, <3>1 DEF Written
    <3>2. ASSUME NEW n \in Ticked(c), x = Imported(c, n) PROVE FromFile(x)'
      BY <2>4, <2>5, <2>6, <3>2 DEF FromFile
    <3>3. QED
      BY <2>2, <3>1, <3>2
  <2>11. QED
    BY <2>9, <2>10 DEF Written
<1>6. ASSUME NEW c \in DOMAIN calls, RevertImport(c) PROVE Written'
  <2> DEFINE id == calls[c].batch
             gone == Ids(Find(db.batches, Me, id))
  <2>1. db' = DeleteBatch(db, Me, id)
    BY <1>0, <1>6, RevertServes
  <2>2. /\ db'.batches = {b \in db.batches : ~(b.id = id /\ b.owner = Me)}
        /\ db'.transactions = {t \in db.transactions : t.batch \notin gone}
    BY <1>0, <2>1 DEF DeleteBatch, Formed
  <2>3. \A b \in gone : b = id
    BY DEF Ids, Find
  <2>4. ASSUME NEW b \in db'.batches PROVE Whole(b)'
    <3>1. b \in db.batches /\ Whole(b)
      BY <2>2 DEF Written
    <3>2. b.owner = Me
      BY <3>1 DEF Whole, NewBatch
    <3>3. b.id # id
      BY <2>2, <3>2
    <3>4. \A x \in db.transactions : x.batch = b.id => x \in db'.transactions
      BY <2>2, <2>3, <3>3
    <3>5. QED
      BY <1>2, <3>1, <3>4
  <2>5. \A x \in db'.transactions : x \in StartDB.transactions \/ FromFile(x)'
    BY <1>3, <2>2 DEF Written
  <2>6. QED
    BY <2>4, <2>5 DEF Written
<1>7. QED
  BY <1>0, <1>4, <1>5, <1>6, TableKinds

-----------------------------------------------------------------------------
(* What an answered preview says of its file and of the account. *)

(* A row that is not flagged repeats none above it and none that was seen. *)
Unflagged(p, n) ==
  /\ \A k \in DOMAIN Rows(p) :
       k < n /\ Rows(p)[k] # None => HashOf(Rows(p)[k]) # HashOf(Rows(p)[n])
  /\ \A x \in db.transactions :
       x.id \in calls[p].known /\ x.account = calls[p].account =>
         x.hash # HashOf(Rows(p)[n])

Seen(id) ==
  id[1] \in User \/ (id[1] \in DOMAIN calls /\ calls[id[1]].stage = "answered")

Reads(p) ==
  /\ DOMAIN calls[p].answer = DOMAIN Rows(p)
  /\ \A n \in DOMAIN Rows(p) :
       /\ calls[p].answer[n].row = Rows(p)[n]
       /\ Rows(p)[n] # None /\ calls[p].answer[n].status = "ok" => Unflagged(p, n)
  /\ \A id \in calls[p].known : Seen(id)

AllRead == \A p \in DOMAIN calls : calls[p].op \in Previews /\ Answered(p) => Reads(p)

(* Only calls are numbered like requests, and no user is. *)
LEMMA CallNumbers ==
  ASSUME Formed
  PROVE  DOMAIN calls \subseteq Nat \ {0} /\ DOMAIN calls \subseteq Request
         /\ \A c \in DOMAIN calls : c \notin User /\ <<c, 0>> # NULL
<1>1. \E S : calls \in Seq(S)
  BY DEF Formed
<1>2. DOMAIN calls = 1..Len(calls) /\ Len(calls) \in Nat
  BY <1>1, Appending
<1>3. Len(calls) <= session.calls /\ session.calls \in Nat /\ 1..session.calls \subseteq Request
  BY ImportAssumption DEF Formed
<1>4. DOMAIN calls \subseteq Nat \ {0} /\ DOMAIN calls \subseteq Request
  BY <1>2, <1>3
<1>5. QED
  BY <1>4, SchemaAssumption, NullAssumption DEF Id

LEMMA SeenStays ==
  ASSUME Forward, NEW id, Seen(id)
  PROVE  Seen(id)'
BY DEF Forward, Kept, Seen

(* The rows a step adds have not been seen by any preview. *)
LEMMA NewRowsUnseen ==
  ASSUME Basis, [Next]_vars, NEW x \in db'.transactions, x \notin db.transactions
  PROVE  ~Seen(x.id)
<1>1. Formed /\ Pages
  BY DEF Basis
<1>2. PICK c \in DOMAIN calls : CommitImport(c) \/ RevertImport(c)
  BY <1>1, TableKinds
<1>3. CASE RevertImport(c)
  BY <1>1, <1>3, RevertServes DEF DeleteBatch, Formed
<1>4. CASE CommitImport(c)
  <2>1. db'.transactions = db.transactions \cup {Imported(c, n) : n \in Ticked(c)}
    <3>1. db' = [db EXCEPT !.batches = @ \cup {NewBatch(c)},
                   !.transactions = @ \cup {Imported(c, n) : n \in Ticked(c)}]
      BY <1>1, <1>4, CommitServes
    <3>2. QED
      BY <1>1, <3>1 DEF Formed
  <2>2. PICK n : x.id = <<c, n>>
    BY <2>1 DEF Imported
  <2>3. calls[c].stage # "answered" /\ c \notin User
    BY <1>1, <1>4, CommitServes, CallNumbers DEF Serving
  <2>4. QED
    BY <2>2, <2>3 DEF Seen
<1>5. QED
  BY <1>2, <1>3, <1>4

LEMMA ReadsStay ==
  ASSUME Basis, [Next]_vars, NEW p \in DOMAIN calls, Answered(p), Reads(p)
  PROVE  Reads(p)'
<1>0. Forward
  BY NextForward DEF Basis
<1>1. /\ calls'[p].mapping = calls[p].mapping /\ calls'[p].known = calls[p].known
      /\ calls'[p].answer = calls[p].answer /\ calls'[p].account = calls[p].account
  BY <1>0 DEF Forward, Asked, Kept, Answered
<1>2. Rows(p)' = Rows(p)
  BY <1>0, <1>1, RowsStay
<1>3. \A id \in calls[p].known : Seen(id) /\ Seen(id)'
  BY <1>0, SeenStays DEF Reads
<1>4. ASSUME NEW n \in DOMAIN Rows(p), Unflagged(p, n) PROVE Unflagged(p, n)'
  <2>1. \A x \in db'.transactions : x.id \in calls[p].known => x \in db.transactions
    BY <1>3, NewRowsUnseen
  <2>2. QED
    BY <1>1, <1>2, <1>4, <2>1 DEF Unflagged, HashOf
<1>5. QED
  BY <1>1, <1>2, <1>3, <1>4 DEF Reads

(* Every row of the books is of the wizard's user. *)
LEMMA AllOwned ==
  ASSUME Written, NEW x \in db.transactions
  PROVE  x.owner = Me /\ (x.id[1] = Me \/ \E c \in DOMAIN calls : Landed(c) /\ x.id[1] = c)
BY ImportAssumption DEF Written, FromFile, Imported

LEMMA FlaggedReads ==
  ASSUME Basis, Written, [Next]_vars, NEW p \in DOMAIN calls, FlagRows(p)
  PROVE  Reads(p)'
<1> DEFINE account == calls[p].account
           existing == FindByDedupHashes(Me, account, Hashes(Rows(p)))
<1>0. Forward /\ Formed
  BY NextForward DEF Basis
<1>1. /\ calls'[p].answer = Flags(p) /\ db' = db
      /\ calls'[p].known = Ids(TransactionsIn(db, Me, account))
      /\ Rows(p)' = Rows(p) /\ calls'[p].account = account
  BY <1>0, FlagRowsServes, RowsStay DEF Forward, Asked
<1>2. /\ DOMAIN Flags(p) = DOMAIN Rows(p)
      /\ \A n \in DOMAIN Rows(p) :
           Flags(p)[n].row = Rows(p)[n] /\ Flags(p)[n].status = StatusOf(Rows(p), n, existing)
  BY DEF Flags
<1>3. ASSUME NEW n \in DOMAIN Rows(p), Rows(p)[n] # None, StatusOf(Rows(p), n, existing) = "ok"
      PROVE  Unflagged(p, n)'
  <2>1. \A k \in DOMAIN Rows(p) :
          k < n /\ Rows(p)[k] # None => HashOf(Rows(p)[k]) # HashOf(Rows(p)[n])
    BY <1>3 DEF StatusOf
  <2>2. \A x \in existing : x.hash # HashOf(Rows(p)[n])
    BY <1>3 DEF StatusOf
  <2>3. \A x \in db.transactions :
          x.account = account /\ x.hash = HashOf(Rows(p)[n]) => x \in existing
    <3>1. HashOf(Rows(p)[n]) \in Hashes(Rows(p))
      BY <1>3 DEF Hashes
    <3>2. \A x \in db.transactions : x.owner = Me
      BY AllOwned
    <3>3. QED
      BY <3>1, <3>2 DEF FindByDedupHashes, TransactionsIn
  <2>4. \A x \in db'.transactions : x.account = account => x.hash # HashOf(Rows(p)[n])
    BY <1>1, <2>2, <2>3
  <2> HIDE DEF existing
  <2>5. QED
    BY <1>1, <2>1, <2>4 DEF Unflagged, HashOf
<1>4. ASSUME NEW id \in Ids(TransactionsIn(db, Me, account)) PROVE Seen(id)'
  <2>1. PICK x \in db.transactions : id = x.id
    BY DEF Ids, TransactionsIn
  <2>2. Seen(id)
    BY <2>1, AllOwned, ImportAssumption DEF Seen, Landed
  <2>3. QED
    BY <1>0, <2>2, SeenStays
<1> HIDE DEF existing, account
<1>5. QED
  BY <1>1, <1>2, <1>3, <1>4 DEF Reads

LEMMA NextAllRead ==
  ASSUME Basis, Written, AllRead, [Next]_vars
  PROVE  AllRead'
<1>0. Forward /\ Formed /\ Pages
  BY NextForward DEF Basis
<1> SUFFICES ASSUME NEW p \in DOMAIN calls', calls'[p].op \in Previews, Answered(p)'
             PROVE  Reads(p)'
  BY DEF AllRead
<1>1. CASE p \in DOMAIN calls /\ Answered(p)
  <2>1. calls[p].op \in Previews
    BY <1>0, <1>1 DEF Forward, Asked
  <2>2. QED
    BY <1>1, <2>1, ReadsStay DEF AllRead
<1>2. CASE ~(p \in DOMAIN calls /\ Answered(p))
  <2>1. ASSUME NEW t \in Tab, Browse(t) \/ Ask(t) \/ Confirm(t) PROVE FALSE
    <3>1. CASE Browse(t)
      BY <1>2, <3>1 DEF Browse, Answered
    <3>2. ASSUME NEW call, Clicks(t, call) PROVE FALSE
      <4>1. DOMAIN calls' = DOMAIN calls \cup {Sent} /\ calls'[Sent] = call
            /\ \A c \in DOMAIN calls : calls'[c] = calls[c]
        BY <1>0, <3>2, SendingOne
      <4>2. CASE p = Sent
        BY <3>2, <4>1, <4>2 DEF Clicks, Answered
      <4>3. CASE p \in DOMAIN calls
        BY <1>2, <4>1, <4>3 DEF Answered
      <4>4. QED
        BY <4>1, <4>2, <4>3
    <3>3. QED
      BY <2>1, <3>1, <3>2 DEF Ask, Confirm
  <2>2. ASSUME NEW c \in DOMAIN calls, Receive(c) \/ GiveUp(c) PROVE FALSE
    <3>1. Hearing(c)
      BY <1>0, <2>2, ReceiveHears, GiveUpHears
    <3>2. /\ DOMAIN calls' = DOMAIN calls
          /\ \A d \in DOMAIN calls : calls'[d].stage = calls[d].stage /\ calls'[d].answer = calls[d].answer
      BY <1>0, <3>1, HandlingOne DEF Hearing
    <3>3. QED
      BY <1>2, <3>2 DEF Answered
  <2>3. ASSUME NEW c \in DOMAIN calls, Serving(c) PROVE c = p
    <3>1. DOMAIN calls' = DOMAIN calls /\ \A d \in DOMAIN calls : d # c => calls'[d] = calls[d]
      BY <1>0, <2>3, HandlingOne DEF Serving
    <3>2. QED
      BY <1>2, <3>1 DEF Answered
  <2>4. ASSUME NEW c \in DOMAIN calls, Handle(c) PROVE FlagRows(p)
    <3>1. Serving(c)
      BY <1>0, <2>4, ChooseMappingServes, FlagRowsServes, CommitServes, RevertServes DEF Handle
    <3>2. c = p
      BY <2>3, <3>1
    <3>3. calls[c].op \in Previews
      BY <1>0, <3>2 DEF Forward, Asked
    <3>4. ~CommitImport(c) /\ ~RevertImport(c)
      BY <1>0, <3>3, CommitServes, RevertServes DEF Previews
    <3>5. ~ChooseMapping(c)
      BY <1>0, <3>2, ChooseMappingServes DEF Answered
    <3>6. QED
      BY <2>4, <3>2, <3>4, <3>5 DEF Handle
  <2>5. ASSUME NEW t \in session.tabs, Click(t) PROVE FALSE
    BY <1>0, <2>1, <2>5, ClickKinds, ImportAssumption DEF Formed
  <2>6. ~UNCHANGED vars
    BY <1>2 DEF vars, Answered
  <2>7. p \in DOMAIN calls /\ FlagRows(p)
    <3>1. PICK c \in DOMAIN calls : Handle(c)
      BY <2>2, <2>5, <2>6 DEF Next
    <3>2. Serving(c)
      BY <1>0, <3>1, ChooseMappingServes, FlagRowsServes, CommitServes, RevertServes DEF Handle
    <3>3. QED
      BY <2>3, <2>4, <3>1, <3>2
  <2>8. QED
    BY <2>7, FlaggedReads
<1>3. QED
  BY <1>1, <1>2

-----------------------------------------------------------------------------
(* What was imported was shown, and what was repeated was chosen. *)

Inv == Basis /\ Written /\ AllRead

LEMMA AlwaysInv == Spec => []Inv
<1>1. Init => Inv
  <2> SUFFICES ASSUME Init PROVE Inv
    OBVIOUS
  <2>1. DOMAIN calls = {} /\ db = StartDB
    BY DEF Init
  <2>2. Written /\ AllRead
    BY <2>1, ImportAssumption DEF Written, AllRead
  <2>3. QED
    BY <2>2, InitBasis DEF Inv
<1>2. Inv /\ [Next]_vars => Inv'
  BY NextBasis, NextWritten, NextAllRead DEF Inv
<1>3. QED
  BY <1>1, <1>2, PTL DEF Spec

(* A commit call reads its file as the preview it was clicked on did. *)
LEMMA SameReading ==
  ASSUME Inv, NEW c, Landed(c)
  PROVE  LET s == calls[c].shown
         IN /\ s \in DOMAIN calls /\ Rows(s) = Rows(c)
            /\ calls[s].op \in Previews /\ Answered(s) /\ Reads(s)
<1> DEFINE s == calls[c].shown
<1>1. Told(s, calls[c].tab) /\ calls[c].mapping = calls[s].mapping
  BY DEF Inv, Basis, Attempts, Attempt, Landed
<1>2. Upload(c) = Upload(s)
  BY DEF Landed, FileChanged
<1>3. Rows(s) = Rows(c)
  BY <1>1, <1>2 DEF Rows
<1>4. QED
  BY <1>1, <1>3 DEF Told, Inv, AllRead

LEMMA InvShown ==
  ASSUME Inv
  PROVE  ImportsWhatWasShown
<1> SUFFICES ASSUME NEW b \in db.batches
             PROVE  LET c == b.id[1]
                        shown == Readings(calls[c].shown)
                        ticked == {n \in DOMAIN shown : shown[n] # None /\ n \notin calls[c].excluded}
                    IN /\ b.count = Cardinality(ticked)
                       /\ {<<t.id[2], t.date, t.amount, t.payee>> : t \in {x \in db.transactions : x.batch = b.id}}
                            = {<<n, shown[n].date, shown[n].amount, shown[n].payee>> : n \in ticked}
  BY DEF ImportsWhatWasShown
<1>1. PICK c \in DOMAIN calls : /\ Landed(c) /\ b = NewBatch(c)
                                /\ \A n \in Ticked(c) : Imported(c, n) \in db.transactions
  BY DEF Inv, Written, Whole
<1>2. b.id = <<c, 0>> /\ b.id[1] = c /\ b.count = Cardinality(Ticked(c))
  BY <1>1 DEF NewBatch
<1> DEFINE shown == Readings(calls[c].shown)
           ticked == {n \in DOMAIN shown : shown[n] # None /\ n \notin calls[c].excluded}
<1>3. DOMAIN shown = DOMAIN Rows(c) /\ \A n \in DOMAIN Rows(c) : shown[n] = Rows(c)[n]
  BY <1>1, SameReading DEF Reads, Readings
<1> HIDE DEF shown
<1>4. ticked = Ticked(c)
  BY <1>3 DEF Ticked
<1> HIDE DEF ticked
<1>5. \A n \in Ticked(c) :
        <<Imported(c, n).id[2], Imported(c, n).date, Imported(c, n).amount, Imported(c, n).payee>>
          = <<n, shown[n].date, shown[n].amount, shown[n].payee>>
  BY <1>3 DEF Imported, Ticked
<1>6. \A x \in db.transactions : x.batch = b.id => \E n \in Ticked(c) : x = Imported(c, n)
  <2> SUFFICES ASSUME NEW x \in db.transactions, x.batch = <<c, 0>>
               PROVE  \E n \in Ticked(c) : x = Imported(c, n)
    BY <1>2
  <2>1. x \notin StartDB.transactions
    BY CallNumbers, ImportAssumption DEF Inv, Basis
  <2>2. PICK d \in DOMAIN calls : \E n \in Ticked(d) : x = Imported(d, n)
    BY <2>1 DEF Inv, Written, FromFile
  <2>3. d = c
    BY <2>2 DEF Imported
  <2>4. QED
    BY <2>2, <2>3
<1>7. \A n \in Ticked(c) : Imported(c, n) \in {x \in db.transactions : x.batch = b.id}
  BY <1>1, <1>2 DEF Imported
<1>8. {<<t.id[2], t.date, t.amount, t.payee>> : t \in {x \in db.transactions : x.batch = b.id}}
        = {<<n, shown[n].date, shown[n].amount, shown[n].payee>> : n \in Ticked(c)}
  <2> DEFINE Row(t) == <<t.id[2], t.date, t.amount, t.payee>>
             Entered(n) == <<n, shown[n].date, shown[n].amount, shown[n].payee>>
             Batch1 == {x \in db.transactions : x.batch = b.id}
  <2>1. \A n \in Ticked(c) : Row(Imported(c, n)) = Entered(n)
    BY <1>5
  <2>2. \A x \in Batch1 : \E n \in Ticked(c) : x = Imported(c, n)
    BY <1>6
  <2>3. \A n \in Ticked(c) : Imported(c, n) \in Batch1
    BY <1>7
  <2> HIDE DEF Row, Entered, Batch1
  <2>4. {Row(x) : x \in Batch1} = {Entered(n) : n \in Ticked(c)}
    BY <2>1, <2>2, <2>3
  <2>5. QED
    BY <2>4 DEF Row, Entered, Batch1
<1>9. QED
  BY <1>2, <1>4, <1>8 DEF ticked, shown

LEMMA InvChosen ==
  ASSUME Inv
  PROVE  RepeatsAreChosen
<1> SUFFICES ASSUME NEW t \in db.transactions, NEW other \in db.transactions,
                    t.batch # NULL, other # t, other.account = t.account, other.hash = t.hash
             PROVE  LET c == t.batch[1]
                        shown == calls[calls[c].shown]
                        unseen == other.id \notin shown.known
                        above == other.batch = t.batch /\ other.id[2] < t.id[2]
                    IN \/ shown.account # t.account
                       \/ unseen /\ ~above
                       \/ shown.answer[t.id[2]].status # "ok"
  BY DEF RepeatsAreChosen
<1>1. t \notin StartDB.transactions
  BY ImportAssumption
<1>2. PICK c \in DOMAIN calls : Landed(c) /\ \E n \in Ticked(c) : t = Imported(c, n)
  BY <1>1 DEF Inv, Written, FromFile
<1>3. PICK n \in Ticked(c) : t = Imported(c, n)
  BY <1>2
<1>4. /\ t.batch = <<c, 0>> /\ t.batch[1] = c /\ t.id[2] = n
      /\ t.hash = HashOf(Rows(c)[n]) /\ n \in DOMAIN Rows(c) /\ Rows(c)[n] # None
  BY <1>3 DEF Imported, Ticked
<1> DEFINE s == calls[c].shown
<1>5. s \in DOMAIN calls /\ Rows(s) = Rows(c) /\ Reads(s)
  BY <1>2, SameReading
<1> HIDE DEF s
<1>6. ASSUME calls[s].account = t.account, calls[s].answer[n].status = "ok"
      PROVE  other.id \notin calls[s].known /\ ~(other.batch = t.batch /\ other.id[2] < n)
  <2>1. Unflagged(s, n)
    BY <1>4, <1>5, <1>6 DEF Reads
  <2>2. other.id \notin calls[s].known
    BY <1>4, <1>5, <1>6, <2>1 DEF Unflagged
  <2>3. ASSUME other.batch = t.batch, other.id[2] < n PROVE FALSE
    <3>1. other \notin StartDB.transactions
      BY <2>3, ImportAssumption
    <3>2. PICK d \in DOMAIN calls : \E k \in Ticked(d) : other = Imported(d, k)
      BY <3>1 DEF Inv, Written, FromFile
    <3>3. PICK k \in Ticked(d) : other = Imported(d, k)
      BY <3>2
    <3>4. /\ other.batch = <<d, 0>> /\ other.id[2] = k /\ other.hash = HashOf(Rows(d)[k])
          /\ k \in DOMAIN Rows(d) /\ Rows(d)[k] # None
      BY <3>3 DEF Imported, Ticked
    <3>5. d = c
      BY <1>4, <2>3, <3>4
    <3>6. QED
      BY <1>4, <1>5, <2>1, <2>3, <3>4, <3>5 DEF Unflagged
  <2>4. QED
    BY <2>2, <2>3
<1>7. QED
  BY SMTT(60), <1>4, <1>6 DEF s

(* What an import wrote is what its user had on the screen, ticked, when    *)
(* Import was clicked, whatever late answers and other clicks did meanwhile.*)
THEOREM ImportsAreShown == Spec => []ImportsWhatWasShown
<1>1. Inv => ImportsWhatWasShown
  BY InvShown
<1>2. QED
  BY <1>1, AlwaysInv, PTL

(* A row the preview could see, or one higher up in its file, is repeated  *)
(* only because the user ticked it in spite of the warning.                *)
THEOREM RepeatsWereChosen == Spec => []RepeatsAreChosen
<1>1. Inv => RepeatsAreChosen
  BY InvChosen
<1>2. QED
  BY <1>1, AlwaysInv, PTL

-----------------------------------------------------------------------------
(* What a file is read to. *)

(* A file that can be parsed has records of the cells of its upload. *)
LEMMA ParsedKeeps ==
  ASSUME NEW S, NEW upload \in Seq(Seq(S)), ~Unparsable(upload)
  PROVE  Parse(upload).records \in Seq(Seq(S))
<1>1. Filled(upload) \in Seq(Seq(S)) /\ Filled(upload) # <<>>
  <2> DEFINE R == Seq(S)
             L == Len(upload)
  <2>1. upload \in Seq(R) /\ L \in 0..L
    OBVIOUS
  <2> HIDE DEF R, L
  <2>2. PICK f \in [0..L -> Seq(R)] : Filled(upload) = f[L]
    BY <2>1, FilledIs DEF L
  <2>3. Filled(upload) \in Seq(R)
    BY <2>1, <2>2
  <2> QED
    BY <2>3 DEF Unparsable, R
<1>2. Tail(Filled(upload)) \in Seq(Seq(S))
  <2> DEFINE R == Seq(S)
  <2> HIDE DEF R
  <2>1. Filled(upload) \in Seq(R)
    BY <1>1 DEF R
  <2>2. Tail(Filled(upload)) \in Seq(R)
    BY <1>1, <2>1
  <2> QED
    BY <2>2 DEF R
<1> QED
  BY <1>1, <1>2 DEF Parse

(* What is read of a record is a row of the books. *)
LEMMA RowsTyped ==
  ASSUME NEW record \in Seq(UploadCell), NEW mapping, NEW row,
         row = NormalizeRow(record, mapping), row # None
  PROVE  row.date \in Date /\ row.amount \in Int \ {0} /\ row.payee \in Payee
<1> DEFINE cell(role) == CellAt(record, mapping[role])
           date == IF mapping.format = None THEN None ELSE ParseDate(mapping.format, cell("date"))
           amount == IF mapping.split
                       THEN SplitAmount(ParseAmount(cell("debit")), ParseAmount(cell("credit")))
                       ELSE SignedAmount(ParseAmount(cell("amount")), mapping.invert)
<1>1. \A role : cell(role) \in Cell /\ cell(role) \in Payee
                /\ (cell(role).kind = "date" => cell(role) \in UploadCell)
  <2> TAKE role
  <2>1. CASE mapping[role] \in DOMAIN record
    <3>1. cell(role) \in UploadCell
      BY <2>1 DEF CellAt
    <3> QED
      BY <3>1 DEF UploadCell
  <2>2. CASE mapping[role] \notin DOMAIN record
    <3>1. cell(role) = Blank
      BY <2>2 DEF CellAt
    <3> QED
      BY <3>1, ImportAssumption DEF Cell, Blank
  <2> QED
    BY <2>1, <2>2
<1>2. date # None /\ amount # None /\ row = [date |-> date, amount |-> amount, payee |-> cell("payee")]
  BY DEF NormalizeRow
<1> HIDE DEF cell
<1>3. date \in Date
  <2> DEFINE c == cell("date")
             layout == mapping.format
             month == IF layout.dayFirst THEN c.second ELSE c.first
             day == IF layout.dayFirst THEN c.first ELSE c.second
  <2>1. date = ParseDate(layout, c)
    BY <1>2
  <2> HIDE DEF date, c, layout
  <2>2. /\ c.kind = "date" /\ month \in 1..12 /\ day \in 1..DaysIn(c.year, month)
        /\ date = <<c.year, month, day>>
    BY <1>2, <2>1 DEF ParseDate
  <2>3. \A dayFirst \in BOOLEAN :
          ParseDate(Layout(c.shape, dayFirst, FALSE), c) \in Date \cup {None}
    BY <1>1, <2>2 DEF UploadCell, c
  <2>4. \E dayFirst \in BOOLEAN : date = ParseDate(Layout(c.shape, dayFirst, FALSE), c)
    <3>1. CASE layout.dayFirst
      <4>1. date = ParseDate(Layout(c.shape, TRUE, FALSE), c)
        BY <2>2, <3>1 DEF ParseDate, Layout
      <4> QED
        BY <4>1
    <3>2. CASE ~layout.dayFirst
      <4>1. date = ParseDate(Layout(c.shape, FALSE, FALSE), c)
        BY <2>2, <3>2 DEF ParseDate, Layout
      <4> QED
        BY <4>1
    <3> QED
      BY <3>1, <3>2
  <2> QED
    BY <1>2, <2>3, <2>4
<1> HIDE DEF date
<1>4. amount \in Int \ {0}
  <2>1. \A role : ParseAmount(cell(role)) # None => Within(ParseAmount(cell(role)))
    BY <1>1, AmountWithin
  <2>2. CASE mapping.split
    <3> DEFINE debit == ParseAmount(cell("debit"))
               credit == ParseAmount(cell("credit"))
    <3>1. amount = SplitAmount(debit, credit)
      BY <2>2
    <3>2. (debit # None => Within(debit)) /\ (credit # None => Within(credit))
      BY <2>1
    <3> HIDE DEF debit, credit, amount
    <3>3. CASE debit \notin {None, 0}
      <4>1. Within(Abs64(debit)) /\ Abs64(debit) # 0
        BY <3>2, <3>3, AbsWithin
      <4> QED
        BY <3>1, <3>3, <4>1, NegatedWithin DEF SplitAmount
    <3>4. CASE debit \in {None, 0}
      <4>1. credit \notin {None, 0} /\ amount = Abs64(credit)
        BY <1>2, <3>1, <3>4 DEF SplitAmount
      <4> QED
        BY <3>2, <4>1, AbsWithin DEF Within
    <3> QED
      BY <3>3, <3>4
  <2>3. CASE ~mapping.split
    <3> DEFINE read == ParseAmount(cell("amount"))
    <3>1. amount = SignedAmount(read, mapping.invert)
      BY <2>3
    <3>2. read # None => Within(read)
      BY <2>1
    <3> HIDE DEF read, amount
    <3>3. read \notin {None, 0} /\ (amount = read \/ amount = Wrap(-read))
      BY <1>2, <3>1 DEF SignedAmount
    <3> QED
      BY <3>2, <3>3, NegatedWithin DEF Within
  <2> QED
    BY <2>2, <2>3
<1> HIDE DEF amount
<1> QED
  BY <1>1, <1>2, <1>3, <1>4

-----------------------------------------------------------------------------
(* Types. *)

CallTyped(c) ==
  /\ calls[c].stage \in {"sent", "mapped", "answered"}
  /\ calls[c].client \in {"pending", "told", "lost"}
  /\ calls[c].op # "revert" => calls[c].file \in DOMAIN session.files
  /\ calls[c].op \in Previews /\ (calls[c].stage = "mapped" \/ Answered(c)) =>
       ~Unparsable(Upload(c))
  /\ calls[c].op \in Previews /\ Answered(c) =>
       \A n \in DOMAIN calls[c].answer : calls[c].answer[n].status \in Status

PageOK(p, last) ==
  /\ p.file \in 0..Len(session.files)
  /\ p.account \in session.accounts \cup {NULL}
  /\ {p.preview, p.previewing, p.remapping, p.committing, p.reverting} \subseteq 0..last
  /\ p.done \in BOOLEAN

Typed ==
  /\ db \in Database
  /\ \A c \in DOMAIN calls : CallTyped(c)
  /\ \A t \in Tab : PageOK(page[t], Len(calls))

(* The rows of a file that can be parsed. *)
LEMMA RowsAre ==
  ASSUME session \in Sessions, NEW c, calls[c].file \in DOMAIN session.files,
         ~Unparsable(Upload(c))
  PROVE  /\ IsFiniteSet(Ticked(c)) /\ DOMAIN Rows(c) \subseteq Nat
         /\ \A n \in DOMAIN Rows(c) : Rows(c)[n] # None =>
              /\ Rows(c)[n].date \in Date /\ Rows(c)[n].amount \in Int \ {0}
              /\ Rows(c)[n].payee \in Payee
<1> DEFINE records == Parse(Upload(c)).records
<1>1. Upload(c) \in Seq(Seq(UploadCell))
  BY ImportAssumption DEF Upload, File
<1>2. records \in Seq(Seq(UploadCell))
  BY <1>1, ParsedKeeps
<1>3. Rows(c) = [n \in DOMAIN records |-> NormalizeRow(records[n], calls[c].mapping)]
  BY DEF Rows, Normalize
<1> HIDE DEF records
<1>4. DOMAIN Rows(c) = 1..Len(records) /\ Len(records) \in Nat
  BY <1>2, <1>3
<1>5. Ticked(c) \subseteq 1..Len(records)
  BY <1>4 DEF Ticked
<1>6. IsFiniteSet(Ticked(c))
  <2> DEFINE last == Len(records)
  <2>1. last \in Int /\ Ticked(c) \subseteq 1..last
    BY <1>4, <1>5
  <2> HIDE DEF last
  <2>2. IsFiniteSet(1..last)
    BY <2>1, FS_Interval
  <2> QED
    BY <2>1, <2>2, FS_Subset
<1>7. \A n \in DOMAIN Rows(c) :
        records[n] \in Seq(UploadCell) /\ Rows(c)[n] = NormalizeRow(records[n], calls[c].mapping)
  BY <1>2, <1>3, <1>4
<1> QED
  BY <1>4, <1>6, <1>7, RowsTyped

LEMMA UploadStays ==
  ASSUME Forward, NEW c \in DOMAIN calls
  PROVE  Upload(c)' = Upload(c) /\ c \in DOMAIN calls'
         /\ calls'[c].op = calls[c].op /\ calls'[c].file = calls[c].file /\ session' = session
BY RowsStay DEF Forward, Asked

(* A commit call that imports read what a page was shown, of the user's own account. *)
LEMMA CommitReads ==
  ASSUME Inv, Typed, NEW c \in DOMAIN calls, CommitImport(c), db' # db
  PROVE  /\ calls[c].op = "commit" /\ calls[c].stage = "sent" /\ Owned(c)
         /\ session \in Sessions
         /\ calls[c].file \in DOMAIN session.files /\ ~Unparsable(Upload(c))
         /\ db' = [db EXCEPT !.batches = @ \cup {NewBatch(c)},
                     !.transactions = @ \cup {Imported(c, n) : n \in Ticked(c)}]
<1>1. Formed /\ Attempts /\ CallTyped(c)
  BY DEF Inv, Basis, Typed
<1>2. /\ ~FileChanged(c)
      /\ db' = [db EXCEPT !.batches = @ \cup {NewBatch(c)},
                  !.transactions = @ \cup {Imported(c, n) : n \in Ticked(c)}]
  BY <1>1, CommitServes
<1>3. calls[c].op = "commit" /\ calls[c].stage = "sent" /\ Owned(c)
  BY DEF CommitImport, Serves
<1>4. PICK s \in DOMAIN calls : s = calls[c].shown /\ calls[s].op \in Previews /\ Answered(s)
  BY <1>1, <1>3 DEF Attempts, Attempt, Told
<1>5. Upload(c) = Upload(s) /\ ~Unparsable(Upload(s))
  BY <1>2, <1>4 DEF FileChanged, Typed, CallTyped
<1>6. calls[c].file \in DOMAIN session.files
  BY <1>1, <1>3 DEF CallTyped
<1> QED
  BY <1>1, <1>2, <1>3, <1>5, <1>6 DEF Formed

LEMMA ImportedTyped ==
  ASSUME Inv, Typed, NEW c \in DOMAIN calls, calls[c].file \in DOMAIN session.files,
         ~Unparsable(Upload(c)), Owned(c)
  PROVE  NewBatch(c) \in Batch /\ \A n \in Ticked(c) : Imported(c, n) \in Transaction
<1>1. Formed /\ session \in Sessions /\ c \in Request
  BY CallNumbers DEF Inv, Basis, Formed
<1>2. calls[c].account \in Id
  BY DEF Owned, Find, Typed, Database, Account
<1>3. Me \in User /\ <<c, 0>> \in Id
  BY <1>1, ImportAssumption DEF Id
<1>4. IsFiniteSet(Ticked(c)) /\ DOMAIN Rows(c) \subseteq Nat
  BY <1>1, RowsAre
<1>5. NewBatch(c) \in Batch
  BY <1>2, <1>3, <1>4, FS_CardinalityType DEF NewBatch, Batch
<1>6. ASSUME NEW n \in Ticked(c) PROVE Imported(c, n) \in Transaction
  <2>1. /\ Rows(c)[n].date \in Date /\ Rows(c)[n].amount \in Int \ {0}
        /\ Rows(c)[n].payee \in Payee /\ n \in Nat
    BY <1>1, <1>4, <1>6, RowsAre DEF Ticked
  <2>2. <<c, n>> \in Id
    BY <1>1, <2>1 DEF Id
  <2>3. HashOf(Rows(c)[n]) \in Fingerprint
    BY <2>1, SchemaAssumption DEF HashOf, DedupHash, Fingerprint
  <2> QED
    BY <1>2, <1>3, <2>1, <2>2, <2>3 DEF Imported, Transaction
<1> QED
  BY <1>5, <1>6

LEMMA NextDatabase ==
  ASSUME Inv, Typed, [Next]_vars
  PROVE  db' \in Database
<1>1. Formed /\ Pages /\ db \in Database
  BY DEF Inv, Basis, Typed
<1>2. ASSUME NEW c \in DOMAIN calls, CommitImport(c), db' # db PROVE db' \in Database
  <2>1. NewBatch(c) \in Batch /\ {Imported(c, n) : n \in Ticked(c)} \subseteq Transaction
    BY <1>2, CommitReads, ImportedTyped
  <2>2. db' = [db EXCEPT !.batches = @ \cup {NewBatch(c)},
                 !.transactions = @ \cup {Imported(c, n) : n \in Ticked(c)}]
    BY <1>2, CommitReads
  <2> QED
    BY <1>1, <2>1, <2>2 DEF Database
<1>3. ASSUME NEW c \in DOMAIN calls, RevertImport(c) PROVE db' \in Database
  <2>1. db' = DeleteBatch(db, Me, calls[c].batch)
    BY <1>1, <1>3, RevertServes
  <2> QED
    BY <1>1, <2>1 DEF DeleteBatch, Database
<1> QED
  BY <1>1, <1>2, <1>3, TableKinds

(* What a click sends names a file, unless it takes an import back. *)
LEMMA ClickSends ==
  ASSUME NEW t, Click(t)
  PROVE  \/ calls' = calls
         \/ \E call : /\ Send(call)
                      /\ call.op # "revert" => call.file = page[t].file /\ page[t].file # 0
<1>1. ASSUME NEW op, NEW m, Send([Call(t, op) EXCEPT !.mapping = m]), page[t].file # 0
      PROVE  \E call : /\ Send(call)
                       /\ call.op # "revert" => call.file = page[t].file /\ page[t].file # 0
  <2> DEFINE call == [Call(t, op) EXCEPT !.mapping = m]
  <2>1. call.file = page[t].file
    BY DEF Call
  <2>2. Send(call)
    BY <1>1
  <2> HIDE DEF call
  <2> QED
    BY <1>1, <2>1, <2>2
<1>2. ASSUME ClickPreview(t)
      PROVE  \E call : /\ Send(call)
                       /\ call.op # "revert" => call.file = page[t].file /\ page[t].file # 0
  <2>1. Send(Call(t, "preview")) /\ page[t].file # 0
    BY <1>2 DEF ClickPreview
  <2>2. Call(t, "preview").file = page[t].file
    BY DEF Call
  <2> QED
    BY <2>1, <2>2
<1>3. ASSUME NEW edit, SetMapping(t, edit)
      PROVE  \E call : /\ Send(call)
                       /\ call.op # "revert" => call.file = page[t].file /\ page[t].file # 0
  <2>1. PICK m : Send([Call(t, "remap") EXCEPT !.mapping = m])
    BY <1>3 DEF SetMapping
  <2>2. page[t].file # 0
    BY <1>3 DEF SetMapping, ReviewShown
  <2> QED
    BY <1>1, <2>1, <2>2, Zenon
<1>4. ASSUME ClickImport(t)
      PROVE  \E call : /\ Send(call)
                       /\ call.op # "revert" => call.file = page[t].file /\ page[t].file # 0
  <2>1. Send([Call(t, "commit") EXCEPT !.mapping = calls[page[t].preview].mapping])
        /\ page[t].file # 0
    BY <1>4 DEF ClickImport, ReviewShown
  <2> QED
    BY <1>1, <2>1, Zenon
<1>5. ASSUME NEW batch, ClickRevert(t, batch)
      PROVE  \E call : /\ Send(call)
                       /\ call.op # "revert" => call.file = page[t].file /\ page[t].file # 0
  <2>1. Send([Call(t, "revert") EXCEPT !.batch = batch])
    BY <1>5 DEF ClickRevert
  <2>2. [Call(t, "revert") EXCEPT !.batch = batch].op = "revert"
    BY DEF Call
  <2> QED
    BY <2>1, <2>2
<1>6. ASSUME \/ \E file : ChooseFile(t, file) \/ ChooseAccount(t, file) \/ ToggleRow(t, file)
             \/ Reset(t)
      PROVE  calls' = calls
  BY <1>6 DEF ChooseFile, ChooseAccount, ToggleRow, Reset
<1> QED
  BY <1>2, <1>3, <1>4, <1>5, <1>6 DEF Click

LEMMA SentTyped ==
  ASSUME Inv, Typed, NEW t \in Tab, Click(t), NEW call, Clicks(t, call), NEW c, c = Sent
  PROVE  CallTyped(c)'
<1>1. Formed
  BY DEF Inv, Basis
<1>2. /\ c \notin DOMAIN calls /\ c \in DOMAIN calls' /\ calls'[c] = call
      /\ session' = session /\ call.stage = "sent" /\ call.client = "pending"
  BY <1>1, SendingOne DEF Clicks, Turns
<1>3. calls' # calls
  BY <1>2
<1>4. PICK other : Send(other)
                   /\ (other.op # "revert" => other.file = page[t].file /\ page[t].file # 0)
  BY <1>3, ClickSends
<1>5. other = call
  <2>1. \E S : calls \in Seq(S)
    BY <1>1 DEF Formed
  <2> DEFINE longer == Append(calls, other)
  <2>2. longer[Len(calls) + 1] = other
    BY <2>1, Appending
  <2> HIDE DEF longer
  <2>3. calls' = longer
    BY <1>4 DEF Send, longer
  <2> QED
    BY <1>2, <2>2, <2>3 DEF Sent
<1>6. page[t].file \in 0..Len(session.files) /\ Len(session.files) \in Nat
      /\ DOMAIN session.files = 1..Len(session.files)
  BY <1>1, ImportAssumption DEF Typed, PageOK, Formed
<1>7. call.op # "revert" => call.file \in DOMAIN session.files
  BY <1>4, <1>5, <1>6
<1> QED
  BY <1>2, <1>7 DEF CallTyped, Answered

LEMMA StatusIs ==
  ASSUME NEW rows, NEW n, NEW existing
  PROVE  StatusOf(rows, n, existing) \in Status
BY DEF StatusOf, Status

LEMMA HandledTyped ==
  ASSUME Inv, Typed, NEW c \in DOMAIN calls, Handle(c)
  PROVE  CallTyped(c)' /\ Serving(c)
<1>1. Formed /\ CallTyped(c)
  BY DEF Inv, Basis, Typed
<1>2. Serving(c)
  BY <1>1, ChooseMappingServes, FlagRowsServes, CommitServes, RevertServes DEF Handle
<1>3. Forward
  BY <1>1, <1>2, HandlingOne DEF Serving
<1>4. /\ Upload(c)' = Upload(c) /\ c \in DOMAIN calls' /\ calls'[c].op = calls[c].op
      /\ calls'[c].file = calls[c].file /\ session' = session
      /\ calls'[c].client = calls[c].client
  BY <1>2, <1>3, UploadStays DEF Serving
<1>5. CASE ChooseMapping(c)
  <2>1. \/ calls'[c].stage = "mapped" /\ ~Unparsable(Upload(c))
        \/ calls'[c].stage = "answered" /\ calls'[c].answer = Refused
    BY <1>1, <1>5, ChooseMappingServes
  <2> QED
    BY <1>1, <1>2, <1>4, <2>1 DEF CallTyped, Answered
<1>6. CASE FlagRows(c)
  <2>1. calls[c].stage = "mapped" /\ calls[c].op \in Previews
    BY <1>6 DEF FlagRows, Serves
  <2>2. calls'[c].stage = "answered" /\ calls'[c].answer = Flags(c)
    BY <1>1, <1>6, FlagRowsServes
  <2>3. \A n \in DOMAIN Flags(c) : Flags(c)[n].status \in Status
    BY StatusIs DEF Flags
  <2>4. ~Unparsable(Upload(c))
    BY <1>1, <2>1 DEF CallTyped
  <2> QED
    BY <1>1, <1>2, <1>4, <2>2, <2>3, <2>4 DEF CallTyped
<1>7. CASE CommitImport(c) \/ RevertImport(c)
  <2>1. calls[c].op \in {"commit", "revert"}
    BY <1>7 DEF CommitImport, RevertImport, Serves
  <2>2. calls'[c].stage = "answered"
    BY <1>1, <1>7, CommitServes, AnswersCall, SameCall DEF RevertImport, Serves, Formed
  <2>3. calls[c].op \notin Previews
    BY <2>1 DEF Previews
  <2> QED
    BY <1>1, <1>2, <1>4, <2>2, <2>3 DEF CallTyped
<1> QED
  BY <1>2, <1>5, <1>6, <1>7 DEF Handle

LEMMA HeardTyped ==
  ASSUME Inv, Typed, NEW c \in DOMAIN calls, Hearing(c)
  PROVE  CallTyped(c)'
<1>1. Formed /\ CallTyped(c)
  BY DEF Inv, Basis, Typed
<1>2. Forward
  BY <1>1, HandlingOne DEF Hearing
<1>3. /\ Upload(c)' = Upload(c) /\ c \in DOMAIN calls' /\ calls'[c].op = calls[c].op
      /\ calls'[c].file = calls[c].file /\ session' = session
  BY <1>2, UploadStays
<1>4. /\ calls'[c].client \in {"told", "lost"}
      /\ calls'[c].stage = calls[c].stage /\ calls'[c].answer = calls[c].answer
  BY DEF Hearing
<1> QED
  BY <1>1, <1>3, <1>4 DEF CallTyped, Answered

LEMMA UntouchedTyped ==
  ASSUME Inv, Typed, Forward, NEW d \in DOMAIN calls, calls'[d] = calls[d]
  PROVE  CallTyped(d)'
<1>1. Upload(d)' = Upload(d) /\ session' = session
  BY UploadStays
<1>2. CallTyped(d)
  BY DEF Typed
<1> QED
  BY <1>1, <1>2 DEF CallTyped, Answered

LEMMA NextCalls ==
  ASSUME Inv, Typed, [Next]_vars
  PROVE  \A d \in DOMAIN calls' : CallTyped(d)'
<1>0. Formed /\ Pages /\ Forward
  BY NextForward DEF Inv, Basis
<1>1. ASSUME NEW t \in session.tabs, Click(t) PROVE \A d \in DOMAIN calls' : CallTyped(d)'
  <2>1. t \in Tab
    BY <1>0, ImportAssumption DEF Formed
  <2>2. Browse(t) \/ Ask(t) \/ Confirm(t)
    BY <1>0, <1>1, <2>1, ClickKinds
  <2>3. CASE Browse(t)
    BY <1>0, <2>3, UntouchedTyped DEF Browse
  <2>4. CASE Ask(t) \/ Confirm(t)
    <3>1. PICK call : Clicks(t, call)
      BY <2>4 DEF Ask, Confirm
    <3>2. /\ DOMAIN calls' = DOMAIN calls \cup {Sent}
          /\ \A d \in DOMAIN calls : calls'[d] = calls[d]
      BY <1>0, <3>1, SendingOne
    <3>3. ASSUME NEW d, d = Sent PROVE CallTyped(d)'
      BY <1>1, <2>1, <3>1, <3>3, SentTyped
    <3>4. \A d \in DOMAIN calls : CallTyped(d)'
      BY <1>0, <3>2, UntouchedTyped
    <3> TAKE d \in DOMAIN calls'
    <3>5. CASE d \in DOMAIN calls
      BY <3>4, <3>5
    <3>6. CASE d \notin DOMAIN calls
      <4>1. d = Sent
        BY <3>2, <3>6
      <4> QED
        BY <3>3, <4>1
    <3> QED
      BY <3>5, <3>6
  <2> QED
    BY <2>2, <2>3, <2>4
<1>2. ASSUME NEW c \in DOMAIN calls, Handle(c) \/ Receive(c) \/ GiveUp(c)
      PROVE  \A d \in DOMAIN calls' : CallTyped(d)'
  <2>1. CallTyped(c)' /\ Handles(c, calls'[c])
    BY <1>0, <1>2, HandledTyped, HeardTyped, ReceiveHears, GiveUpHears DEF Serving, Hearing
  <2>2. DOMAIN calls' = DOMAIN calls /\ \A d \in DOMAIN calls : d # c => calls'[d] = calls[d]
    BY <1>0, <2>1, HandlingOne
  <2> TAKE d \in DOMAIN calls'
  <2>3. CASE d = c
    BY <2>1, <2>3
  <2>4. CASE d # c
    BY <1>0, <2>2, <2>4, UntouchedTyped
  <2> QED
    BY <2>3, <2>4
<1>3. CASE UNCHANGED vars
  BY <1>0, <1>3, UntouchedTyped DEF vars
<1> QED
  BY <1>1, <1>2, <1>3 DEF Next

LEMMA MountedOK ==
  ASSUME NEW p, Parts \subseteq DOMAIN p, NEW last \in Nat, PageOK(p, last)
  PROVE  PageOK(Mounted(p), last)
<1> DEFINE q == Mounted(p)
<1>1. /\ q.file = p.file /\ q.account = p.account /\ q.preview = p.preview
      /\ q.reverting = p.reverting /\ q.done = p.done
      /\ q.previewing \in {0, p.previewing} /\ q.remapping \in {0, p.remapping}
      /\ q.committing \in {0, p.committing}
  BY DEF Mounted, Parts
<1> HIDE DEF q
<1>2. PageOK(q, last)
  BY <1>1 DEF PageOK
<1> QED
  BY <1>2 DEF q

(* A page that is shown is well-typed, and no other page changes. *)
LEMMA ShownOK ==
  ASSUME Inv, Typed, session' = session, Len(calls') \in Nat, Len(calls) <= Len(calls'),
         NEW t \in Tab, NEW p, Parts \subseteq DOMAIN p, Show(t, p), PageOK(p, Len(calls'))
  PROVE  \A q \in Tab : PageOK(page[q], Len(calls))'
<1>1. Formed /\ Len(calls) \in Nat
  BY Appending DEF Inv, Basis, Formed
<1>2. PageOK(Mounted(p), Len(calls'))
  BY MountedOK
<1>3. page'[t] = Mounted(p) /\ \A q \in Tab : q # t => page'[q] = page[q]
  BY <1>1 DEF Show, Formed
<1>4. ASSUME NEW q \in Tab, q # t PROVE PageOK(page[q], Len(calls))'
  <2>1. PageOK(page[q], Len(calls)) /\ page'[q] = page[q]
    BY <1>3, <1>4 DEF Typed
  <2>2. 0..Len(calls) \subseteq 0..Len(calls')
    BY <1>1
  <2> QED
    BY <2>1, <2>2 DEF PageOK
<1>5. PageOK(page[t], Len(calls))'
  BY <1>2, <1>3 DEF PageOK
<1> QED
  BY <1>4, <1>5

LEMMA ClickPageOK ==
  ASSUME Inv, Typed, NEW t \in session.tabs, Click(t)
  PROVE  \A q \in Tab : PageOK(page[q], Len(calls))'
<1> DEFINE P == page[t]
           L == Len(calls)
<1>0. /\ Formed /\ t \in Tab /\ Parts \subseteq DOMAIN P /\ L \in Nat /\ PageOK(P, L)
      /\ Len(session.files) \in Nat /\ DOMAIN session.files = 1..Len(session.files)
  BY Appending, ImportAssumption DEF Inv, Basis, Formed, Typed
<1>1. session' = session
  BY <1>0, ClickKinds DEF Browse, Ask, Confirm, Clicks, Turns, Inv, Basis
<1>2. Len(calls') \in {L, L + 1}
  <2>1. CASE calls' = calls
    BY <2>1
  <2>2. ASSUME NEW call, Send(call) PROVE Len(calls') = L + 1
    <3>1. \E S : calls \in Seq(S)
      BY <1>0 DEF Formed
    <3> QED
      BY <2>2, <3>1, Appending DEF Send
  <2> QED
    BY <2>1, <2>2, ClickSends
<1> DEFINE M == Len(calls')
<1>3. M \in Nat /\ L <= M
  BY <1>0, <1>2
<1>4. PageOK(P, M)
  <2>1. 0..L \subseteq 0..M
    BY <1>0, <1>3
  <2> QED
    BY <1>0, <2>1 DEF PageOK
<1>5. ASSUME NEW call, Send(call) PROVE Sent \in 0..M
  <2>1. \E S : calls \in Seq(S)
    BY <1>0 DEF Formed
  <2> QED
    BY <1>0, <1>5, <2>1, Appending DEF Send, Sent
<1>6. ASSUME NEW file \in DOMAIN session.files, ChooseFile(t, file)
      PROVE  \A q \in Tab : PageOK(page[q], Len(calls))'
  <2> DEFINE p == [P EXCEPT !.file = file]
  <2>1. Parts \subseteq DOMAIN p /\ PageOK(p, M)
    BY <1>0, <1>4, <1>6 DEF PageOK, Parts
  <2>2. Show(t, p)
    BY <1>6 DEF ChooseFile
  <2> HIDE DEF p
  <2> QED
    BY <1>0, <1>1, <1>3, <2>1, <2>2, ShownOK
<1>7. ASSUME NEW account \in session.accounts, ChooseAccount(t, account)
      PROVE  \A q \in Tab : PageOK(page[q], Len(calls))'
  <2> DEFINE p == [P EXCEPT !.account = account]
  <2>1. Parts \subseteq DOMAIN p /\ PageOK(p, M)
    BY <1>0, <1>4, <1>7 DEF PageOK, Parts
  <2>2. Show(t, p)
    BY <1>7 DEF ChooseAccount
  <2> HIDE DEF p
  <2> QED
    BY <1>0, <1>1, <1>3, <2>1, <2>2, ShownOK
<1>8. CASE ClickPreview(t)
  <2> DEFINE p == [P EXCEPT !.previewing = Sent]
  <2>1. Sent \in 0..M
    BY <1>5, <1>8 DEF ClickPreview
  <2>2. Parts \subseteq DOMAIN p /\ PageOK(p, M)
    BY <1>0, <1>4, <2>1 DEF PageOK, Parts
  <2>3. Show(t, p)
    BY <1>8 DEF ClickPreview
  <2> HIDE DEF p
  <2> QED
    BY <1>0, <1>1, <1>3, <2>2, <2>3, ShownOK
<1>9. ASSUME NEW edit, SetMapping(t, edit)
      PROVE  \A q \in Tab : PageOK(page[q], Len(calls))'
  <2> DEFINE p == [P EXCEPT !.remapping = Sent]
  <2>1. Sent \in 0..M
    BY <1>5, <1>9 DEF SetMapping
  <2>2. Parts \subseteq DOMAIN p /\ PageOK(p, M)
    BY <1>0, <1>4, <2>1 DEF PageOK, Parts
  <2>3. Show(t, p)
    BY <1>9 DEF SetMapping
  <2> HIDE DEF p
  <2> QED
    BY <1>0, <1>1, <1>3, <2>2, <2>3, ShownOK
<1>10. ASSUME NEW n, ToggleRow(t, n)
       PROVE  \A q \in Tab : PageOK(page[q], Len(calls))'
  <2>1. PICK excluded : Show(t, [P EXCEPT !.excluded = excluded])
    BY <1>10 DEF ToggleRow
  <2> DEFINE p == [P EXCEPT !.excluded = excluded]
  <2>2. Parts \subseteq DOMAIN p /\ PageOK(p, M)
    BY <1>0, <1>4 DEF PageOK, Parts
  <2>3. Show(t, p)
    BY <2>1
  <2> HIDE DEF p
  <2> QED
    BY <1>0, <1>1, <1>3, <2>2, <2>3, ShownOK
<1>11. CASE ClickImport(t)
  <2> DEFINE p == [P EXCEPT !.committing = Sent]
  <2>1. Sent \in 0..M
    BY <1>5, <1>11 DEF ClickImport
  <2>2. Parts \subseteq DOMAIN p /\ PageOK(p, M)
    BY <1>0, <1>4, <2>1 DEF PageOK, Parts
  <2>3. Show(t, p)
    BY <1>11 DEF ClickImport
  <2> HIDE DEF p
  <2> QED
    BY <1>0, <1>1, <1>3, <2>2, <2>3, ShownOK
<1>12. CASE Reset(t)
  <2> DEFINE p == [FreshPage EXCEPT !.account = P.account, !.reverting = P.reverting]
  <2>1. Parts \subseteq DOMAIN p /\ PageOK(p, M)
    BY <1>0, <1>3, <1>4 DEF PageOK, Parts, FreshPage
  <2>2. Show(t, p)
    BY <1>12 DEF Reset
  <2> HIDE DEF p
  <2> QED
    BY <1>0, <1>1, <1>3, <2>1, <2>2, ShownOK
<1>13. ASSUME NEW batch, ClickRevert(t, batch)
       PROVE  \A q \in Tab : PageOK(page[q], Len(calls))'
  <2> DEFINE p == [P EXCEPT !.reverting = Sent]
  <2>1. Sent \in 0..M
    BY <1>5, <1>13 DEF ClickRevert
  <2>2. Parts \subseteq DOMAIN p /\ PageOK(p, M)
    BY <1>0, <1>4, <2>1 DEF PageOK, Parts
  <2>3. Show(t, p)
    BY <1>13 DEF ClickRevert
  <2> HIDE DEF p
  <2> QED
    BY <1>0, <1>1, <1>3, <2>2, <2>3, ShownOK
<1> QED
  BY <1>6, <1>7, <1>8, <1>9, <1>10, <1>11, <1>12, <1>13 DEF Click

LEMMA AnswerPageOK ==
  ASSUME Inv, Typed, NEW c \in DOMAIN calls, Receive(c) \/ GiveUp(c)
  PROVE  \A q \in Tab : PageOK(page[q], Len(calls))'
<1> DEFINE t == calls[c].tab
           L == Len(calls)
           r == Released(page[t], c)
           p == Applied(r, c)
<1>1. /\ Formed /\ t \in Tab /\ Parts \subseteq DOMAIN page[t] /\ PageOK(page[t], L)
      /\ L \in Nat /\ DOMAIN calls = 1..L
      /\ calls[c].op \in Previews \cup {"commit", "revert"}
  BY Appending DEF Inv, Basis, Formed, Typed
<1>2. Len(calls') = L /\ session' = session
  <2>1. Handles(c, calls'[c])
    BY <1>1, ReceiveHears, GiveUpHears DEF Hearing, Inv, Basis
  <2> QED
    BY <1>1, <2>1, HandlingOne DEF Handles
<1>3. Parts \subseteq DOMAIN r /\ PageOK(r, L)
  <2>1. /\ Parts \subseteq DOMAIN r /\ r.file = page[t].file /\ r.account = page[t].account
        /\ r.preview = page[t].preview /\ r.done = page[t].done
        /\ r.previewing \in {0, page[t].previewing} /\ r.remapping \in {0, page[t].remapping}
        /\ r.committing \in {0, page[t].committing} /\ r.reverting \in {0, page[t].reverting}
    BY <1>1 DEF Released, Parts
  <2> HIDE DEF r
  <2> QED
    BY <1>1, <2>1 DEF PageOK
<1> HIDE DEF r
<1>4. Parts \subseteq DOMAIN p /\ PageOK(p, L)
  <2>1. c \in 0..L
    BY <1>1
  <2>2. \/ p = r \/ p = [r EXCEPT !.done = TRUE]
        \/ \E excluded : p = [r EXCEPT !.preview = c, !.excluded = excluded]
    BY <1>1 DEF Applied, Previews
  <2>3. CASE p = r
    BY <1>3, <2>3
  <2>4. CASE p = [r EXCEPT !.done = TRUE]
    <3> DEFINE new == [r EXCEPT !.done = TRUE]
    <3>1. Parts \subseteq DOMAIN new /\ PageOK(new, L)
      BY <1>3 DEF PageOK, Parts
    <3> QED
      BY <2>4, <3>1
  <2>5. ASSUME NEW excluded, p = [r EXCEPT !.preview = c, !.excluded = excluded]
        PROVE  Parts \subseteq DOMAIN p /\ PageOK(p, L)
    <3> DEFINE new == [r EXCEPT !.preview = c, !.excluded = excluded]
    <3>1. Parts \subseteq DOMAIN new /\ PageOK(new, L)
      BY <1>3, <2>1 DEF PageOK, Parts
    <3> QED
      BY <2>5, <3>1
  <2> QED
    BY <2>2, <2>3, <2>4, <2>5
<1> HIDE DEF p
<1>5. Show(t, p) \/ Show(t, r)
  BY DEF Receive, GiveUp, p, r
<1> HIDE DEF t, L
<1>6. PageOK(p, Len(calls')) /\ PageOK(r, Len(calls')) /\ Len(calls') \in Nat /\ Len(calls) <= Len(calls')
  BY <1>1, <1>2, <1>3, <1>4 DEF L
<1> QED
  BY <1>1, <1>2, <1>3, <1>4, <1>5, <1>6, ShownOK

LEMMA NextPageOK ==
  ASSUME Inv, Typed, [Next]_vars
  PROVE  \A q \in Tab : PageOK(page[q], Len(calls))'
<1>1. ASSUME NEW c \in DOMAIN calls, Handle(c)
      PROVE  \A q \in Tab : PageOK(page[q], Len(calls))'
  <2>1. Serving(c) /\ Formed
    BY <1>1, HandledTyped DEF Inv, Basis
  <2>2. page' = page /\ session' = session /\ Len(calls') = Len(calls)
    BY <2>1, HandlingOne DEF Serving, Handles
  <2> QED
    BY <2>2 DEF Typed, PageOK
<1>2. CASE UNCHANGED vars
  BY <1>2 DEF vars, Typed, PageOK
<1> QED
  BY <1>1, <1>2, ClickPageOK, AnswerPageOK DEF Next

LEMMA InitTyped ==
  ASSUME Init
  PROVE  Typed
<1>1. /\ session \in Sessions /\ db \in Database /\ DOMAIN calls = {} /\ Len(calls) = 0
      /\ page = [t \in Tab |-> FreshPage]
  BY ImportAssumption DEF Init
<1>2. Len(session.files) \in Nat
  BY <1>1, ImportAssumption
<1>3. PageOK(FreshPage, 0)
  BY <1>2 DEF PageOK, FreshPage
<1> QED
  BY <1>1, <1>3 DEF Typed

LEMMA TypedOK ==
  ASSUME Inv, Typed
  PROVE  TypeOK
<1>1. Formed /\ Landings
  BY DEF Inv, Basis
<1>2. \A k \in DOMAIN landed : calls[landed[k]].op = "commit" /\ Answered(landed[k])
  BY <1>1, CallNumbers DEF Landings, Answered, Refused
<1>3. \A t \in Tab :
        /\ page[t].file \in 0..Len(session.files)
        /\ page[t].account \in session.accounts \cup {NULL}
        /\ {page[t].preview, page[t].previewing, page[t].remapping,
            page[t].committing, page[t].reverting} \subseteq 0..Len(calls)
        /\ page[t].done \in BOOLEAN
  BY DEF Typed, PageOK
<1>4. \A c \in DOMAIN calls :
        /\ calls[c].tab \in Tab /\ calls[c].op \in Previews \cup {"commit", "revert"}
        /\ calls[c].stage \in {"sent", "mapped", "answered"}
        /\ calls[c].client \in {"pending", "told", "lost"}
        /\ calls[c].op \in Previews /\ Answered(c) =>
             \A n \in DOMAIN calls[c].answer : calls[c].answer[n].status \in Status
  BY <1>1 DEF Typed, CallTyped, Formed
<1>5. session \in Sessions /\ db \in Database /\ Len(calls) <= session.calls
  BY <1>1 DEF Typed, Formed
<1> QED
  BY <1>2, <1>3, <1>4, <1>5 DEF TypeOK

LEMMA AlwaysTyped == Spec => [](Inv /\ Typed)
<1>1. Init => Typed
  BY InitTyped
<1>2. Inv /\ Typed /\ [Next]_vars => Typed'
  BY NextDatabase, NextCalls, NextPageOK DEF Typed
<1>3. QED
  BY <1>1, <1>2, AlwaysInv, PTL DEF Spec

-----------------------------------------------------------------------------
(* The wizard implements Books. *)

(* The words of Schema mean the same in Books. *)
LEMMA SameWords ==
  /\ \A table : B!Ids(table) = Ids(table)
  /\ \A table, u, id : B!Find(table, u, id) = Find(table, u, id)
  /\ \A date, amount, payee : B!DedupHash(date, amount, payee) = DedupHash(date, amount, payee)
  /\ \A S : B!Cardinality(S) = Cardinality(S)
  /\ B!Database = Database
  BY DEF B!Ids, Ids, B!Find, Find, B!DedupHash, DedupHash, B!Cardinality, Cardinality,
         B!Database, Database,
         B!Account, B!Category, B!Batch, B!Transaction, B!Snapshot, B!Fingerprint, B!Id,
         Account, Category, Batch, Transaction, Snapshot, Fingerprint, Id

LEMMA CommitIsNew ==
  ASSUME Inv, NEW c \in DOMAIN calls, calls[c].stage = "sent"
  PROVE  /\ \A b \in db.batches : b.id # <<c, 0>>
         /\ \A t \in db.transactions : t.batch # <<c, 0>> /\ \A n : t.id # <<c, n>>
<1>1. c \notin User /\ <<c, 0>> # NULL
  BY CallNumbers DEF Inv, Basis
<1>2. \A d \in DOMAIN calls : Landed(d) => d # c
  BY DEF Landed
<1>3. \A b \in db.batches : b.id # <<c, 0>>
  BY <1>2 DEF Inv, Written, Whole, NewBatch
<1>4. ASSUME NEW t \in db.transactions
      PROVE  t.batch # <<c, 0>> /\ \A n : t.id # <<c, n>>
  <2>1. CASE t \in StartDB.transactions
    <3>1. t.id[1] = Me /\ t.batch = NULL /\ Me \in User
      BY <2>1, ImportAssumption
    <3>2. \A n : <<c, n>>[1] = c
      OBVIOUS
    <3> QED
      BY <1>1, <3>1, <3>2
  <2>2. CASE FromFile(t)
    BY <1>2, <2>2 DEF FromFile, Imported
  <2> QED
    BY <2>1, <2>2 DEF Inv, Written
<1> QED
  BY <1>3, <1>4

(* An import that succeeds is one entry of Books. *)
LEMMA CommitLands ==
  ASSUME Inv, Typed, NEW c \in DOMAIN calls, CommitImport(c), db' # db
  PROVE  B!Land(Me)
<1> DEFINE b == NewBatch(c)
           rows == {Imported(c, n) : n \in Ticked(c)}
<1>1. /\ calls[c].stage = "sent" /\ Owned(c) /\ session \in Sessions
      /\ calls[c].file \in DOMAIN session.files /\ ~Unparsable(Upload(c))
      /\ db' = [db EXCEPT !.batches = @ \cup {b}, !.transactions = @ \cup rows]
      /\ db \in Database
  BY CommitReads DEF Typed
<1>2. /\ \A x \in db.batches : x.id # <<c, 0>>
      /\ \A t \in db.transactions : t.batch # <<c, 0>> /\ \A n : t.id # <<c, n>>
  BY <1>1, CommitIsNew
<1>3. b.id = <<c, 0>> /\ b.owner = Me /\ b.account = calls[c].account
      /\ b.count = Cardinality(Ticked(c))
  BY DEF NewBatch
<1>4. \A n \in Ticked(c) :
        /\ Imported(c, n).id = <<c, n>> /\ Imported(c, n).owner = Me
        /\ Imported(c, n).account = calls[c].account /\ Imported(c, n).batch = <<c, 0>>
        /\ Imported(c, n).category = NULL /\ Imported(c, n).group = NULL
        /\ Imported(c, n).hash =
             DedupHash(Imported(c, n).date, Imported(c, n).amount, Imported(c, n).payee)
  BY DEF Imported, HashOf
<1>5. Cardinality(rows) = Cardinality(Ticked(c))
  <2> DEFINE f == [n \in Ticked(c) |-> Imported(c, n)]
  <2>1. IsFiniteSet(Ticked(c))
    BY <1>1, RowsAre
  <2>2. /\ f \in [Ticked(c) -> rows] /\ DOMAIN f = Ticked(c)
        /\ \A r \in rows : \E n \in Ticked(c) : f[n] = r
    OBVIOUS
  <2>3. \A m, n \in Ticked(c) : f[m] = f[n] => m = n
    BY <1>4
  <2> HIDE DEF f, rows
  <2>4. f \in Bijection(Ticked(c), rows)
    BY <2>2, <2>3 DEF Bijection, Injection, Surjection, IsInjective
  <2>5. ExistsBijection(Ticked(c), rows)
    BY <2>4 DEF ExistsBijection
  <2> QED
    BY <2>1, <2>5, FS_Bijection
<1> HIDE DEF b
<1>6. /\ db'.batches = db.batches \cup {b} /\ db'.transactions = db.transactions \cup rows
      /\ \A table \in {"accounts", "categories", "snapshots"} : db'[table] = db[table]
  BY <1>1 DEF Database
<1>7. B!Came("batches") = {b} /\ B!Gone("batches") = {} /\ B!Gone("transactions") = {}
  BY <1>2, <1>3, <1>6 DEF B!Came, B!Gone
<1>8. B!Came("transactions") = rows
  BY <1>2, <1>4, <1>6 DEF B!Came
<1>9. B!Only({"batches", "transactions"})
  BY <1>6 DEF B!Only, B!Table
<1>10. b.id \notin Ids(db.batches) /\ \A t \in db.transactions : t.batch # b.id
  BY <1>2, <1>3 DEF Ids
<1>11. ASSUME NEW t \in rows
       PROVE  /\ B!New(t) /\ B!Filed(Me, t) /\ B!Current(t)
              /\ t.account = b.account /\ t.batch = b.id
              /\ t.category = NULL /\ t.group = NULL
  <2>1. PICK n \in Ticked(c) : t = Imported(c, n)
    OBVIOUS
  <2>2. B!New(t)
    BY <1>2, <1>4, <2>1, SameWords DEF B!New, Ids
  <2>3. B!Filed(Me, t)
    BY <1>1, <1>4, <2>1, SameWords DEF B!Filed, Owned
  <2> QED
    BY <1>3, <1>4, <2>1, <2>2, <2>3, SameWords DEF B!Current
<1>12. \A t, other \in rows : t.id = other.id => t = other
  BY <1>4
<1> HIDE DEF rows
<1> QED
  BY <1>3, <1>5, <1>7, <1>8, <1>9, <1>10, <1>11, <1>12, SameWords DEF B!Land

(* Taking an import back is one entry, too, or nothing. *)
LEMMA RevertTakesBack ==
  ASSUME Inv, Typed, NEW c \in DOMAIN calls, RevertImport(c)
  PROVE  db' = db \/ B!TakeBack(Me)
<1> DEFINE id == calls[c].batch
           gone == Ids(Find(db.batches, Me, id))
<1>1. db' = DeleteBatch(db, Me, id) /\ db \in Database
  BY RevertServes DEF Inv, Basis, Typed
<1>2. /\ db'.batches = {b \in db.batches : ~(b.id = id /\ b.owner = Me)}
      /\ db'.transactions = {t \in db.transactions : t.batch \notin gone}
      /\ \A table \in {"accounts", "categories", "snapshots"} : db'[table] = db[table]
  BY <1>1 DEF DeleteBatch, Database
<1>3. CASE Find(db.batches, Me, id) = {}
  <2>1. gone = {} /\ \A b \in db.batches : ~(b.id = id /\ b.owner = Me)
    BY <1>3 DEF Ids, Find
  <2>2. db'.batches = db.batches /\ db'.transactions = db.transactions
    BY <1>2, <2>1
  <2>3. db' = [db EXCEPT !.batches = db'.batches, !.transactions = db'.transactions]
    BY <1>1 DEF DeleteBatch, Database
  <2> QED
    BY <1>1, <2>2, <2>3 DEF Database
<1>4. CASE Find(db.batches, Me, id) # {}
  <2>1. PICK b \in db.batches : b.id = id /\ b.owner = Me
    BY <1>4 DEF Find
  <2>2. gone = {id}
    BY <2>1 DEF Ids, Find
  <2>3. \A x, y \in db.batches : x.id = y.id => x = y
    BY DEF Inv, Written, Whole, NewBatch
  <2> HIDE DEF gone
  <2>4. B!Gone("batches") = {b} /\ B!Came("batches") = {}
    BY <1>2, <2>1, <2>3 DEF B!Gone, B!Came
  <2>5. /\ B!Gone("transactions") = {t \in db.transactions : t.batch = b.id}
        /\ B!Came("transactions") = {}
    BY <1>2, <2>1, <2>2 DEF B!Gone, B!Came
  <2>6. B!Only({"batches", "transactions"})
    BY <1>2 DEF B!Only, B!Table
  <2> QED
    BY <2>1, <2>4, <2>5, <2>6 DEF B!TakeBack
<1> QED
  BY <1>3, <1>4

(* Whatever is uploaded and clicked, in however many tabs, and whichever    *)
(* calls overlap or are given up: what is kept, sent, answered and shown    *)
(* has its type; the amounts of a preview are those a file can hold.        *)
THEOREM ImportTypes == Spec => []TypeOK
<1>1. Inv /\ Typed => TypeOK
  BY TypedOK
<1>2. QED
  BY <1>1, AlwaysTyped, PTL

(* The handlers of server/imports.go implement Books: for any number of     *)
(* tabs and calls, what a session does to the database is whole entries of  *)
(* its user, an import that lands and one that is taken back.               *)
THEOREM ImportKeepsBooks == Spec => KeepsBooks
<1>1. Init => B!Init
  BY ImportAssumption, SameWords DEF Init, B!Init
<1>2. Inv /\ Typed /\ [Next]_vars => [B!Next]_db
  <2> SUFFICES ASSUME Inv, Typed, [Next]_vars, db' # db PROVE B!Next
    OBVIOUS
  <2>1. PICK c \in DOMAIN calls : CommitImport(c) \/ RevertImport(c)
    BY TableKinds DEF Inv, Basis
  <2>2. B!Land(Me) \/ B!TakeBack(Me)
    BY <2>1, CommitLands, RevertTakesBack
  <2> QED
    BY <2>2, ImportAssumption DEF B!Next
<1> QED
  BY <1>1, <1>2, AlwaysTyped, PTL DEF Spec, KeepsBooks, B!Spec

(* What an import writes refers to the account its user was found to own,   *)
(* and what it takes back leaves nothing behind.                            *)
LEMMA CommitConsistent ==
  ASSUME Inv, Typed, Consistent(db), NEW c \in DOMAIN calls, CommitImport(c), db' # db
  PROVE  Consistent(db')
<1> DEFINE b == NewBatch(c)
           rows == {Imported(c, n) : n \in Ticked(c)}
<1>1. /\ calls[c].stage = "sent" /\ Owned(c) /\ session \in Sessions
      /\ calls[c].file \in DOMAIN session.files /\ ~Unparsable(Upload(c))
      /\ db' = [db EXCEPT !.batches = @ \cup {b}, !.transactions = @ \cup rows]
      /\ db \in Database
  BY CommitReads DEF Typed
<1>2. /\ \A x \in db.batches : x.id # <<c, 0>>
      /\ \A t \in db.transactions : t.batch # <<c, 0>> /\ \A n : t.id # <<c, n>>
  BY <1>1, CommitIsNew
<1>3. b.id = <<c, 0>> /\ b.owner = Me /\ b.account = calls[c].account
  BY DEF NewBatch
<1>4. /\ \A t \in rows :
           /\ t.owner = Me /\ t.account = calls[c].account /\ t.batch = <<c, 0>>
           /\ t.category = NULL /\ t.group = NULL /\ \E n : t.id = <<c, n>>
      /\ \A x, y \in rows : x.id = y.id => x = y
  BY DEF Imported
<1>5. IsFiniteSet(rows)
  <2> DEFINE f == [n \in Ticked(c) |-> Imported(c, n)]
  <2>1. IsFiniteSet(Ticked(c))
    BY <1>1, RowsAre
  <2>2. f \in Surjection(Ticked(c), rows)
    BY DEF Surjection
  <2> HIDE DEF f, rows
  <2> QED
    BY <2>1, <2>2, FS_Surjection
<1>6. PICK mine \in db.accounts : mine.id = calls[c].account /\ mine.owner = Me
  BY <1>1 DEF Owned, Find
<1> HIDE DEF b, rows
<1>7. /\ db'.batches = db.batches \cup {b} /\ db'.transactions = db.transactions \cup rows
      /\ db'.accounts = db.accounts /\ db'.categories = db.categories
      /\ db'.snapshots = db.snapshots
  BY <1>1 DEF Database
<1>8. db' \in Database /\ NULL \notin {x.id : x \in db.categories}
  <2>1. b \in Batch /\ rows \subseteq Transaction
    BY <1>1, ImportedTyped DEF b, rows
  <2> QED
    BY <1>1, <2>1, NullAssumption DEF Database, Category
<1>9. /\ \A x, y \in db.accounts : x.id = y.id => x = y
      /\ \A x, y \in db.batches : x.id = y.id => x = y
      /\ \A x, y \in db.transactions : x.id = y.id => x = y
      /\ OwnersAgreeIn(db) /\ ReferencesLiveIn(db) /\ OpposedIn(db) /\ KeysIn(db)
  BY <1>1 DEF Consistent, KeysIn, Database
<1>10. \A table \in DOMAIN db' : IsFiniteSet(db'[table])
  <2>1. IsFiniteSet(db.batches \cup {b}) /\ IsFiniteSet(db.transactions \cup rows)
    BY <1>1, <1>5, FS_AddElement, FS_Union DEF Consistent, Database
  <2> QED
    BY <1>1, <1>8, <1>7, <2>1 DEF Consistent, Database
<1>11. OwnersAgreeIn(db')
  <2>1. ASSUME NEW t \in rows
        PROVE  /\ \A a \in db.accounts : a.id = t.account => a.owner = t.owner
               /\ \A x \in db.categories : x.id = t.category => x.owner = t.owner
               /\ \A x \in db'.batches : x.id = t.batch => x.owner = t.owner /\ x.account = t.account
    BY <1>2, <1>3, <1>4, <1>6, <1>7, <1>8, <1>9
  <2>2. ASSUME NEW t \in db.transactions
        PROVE  /\ \A a \in db.accounts : a.id = t.account => a.owner = t.owner
               /\ \A x \in db.categories : x.id = t.category => x.owner = t.owner
               /\ \A x \in db'.batches : x.id = t.batch => x.owner = t.owner /\ x.account = t.account
    BY <1>2, <1>3, <1>7, <1>9 DEF OwnersAgreeIn
  <2>3. ASSUME NEW x \in db'.batches \cup db'.snapshots, NEW a \in db.accounts, a.id = x.account
        PROVE  a.owner = x.owner
    BY <1>3, <1>6, <1>7, <1>9, <2>3 DEF OwnersAgreeIn
  <2> QED
    BY <1>7, <2>1, <2>2, <2>3 DEF OwnersAgreeIn
<1>12. ReferencesLiveIn(db')
  BY <1>3, <1>4, <1>6, <1>7, <1>9 DEF ReferencesLiveIn, AccountLive, CategoryLive, Ids
<1>13. KeysIn(db')
  <2>1. \A x, y \in db'.batches : x.id = y.id => x = y
    BY <1>2, <1>3, <1>7, <1>9
  <2>2. \A x, y \in db'.transactions : x.id = y.id => x = y
    BY <1>2, <1>4, <1>7, <1>9
  <2>3. \A x, y \in db'.accounts : x.id = y.id => x = y
    BY <1>7, <1>9
  <2>4. /\ \A x, y \in db'.categories : x.id = y.id => x = y
        /\ \A x, y \in db'.snapshots : x.id = y.id => x = y
        /\ \A s, other \in db'.snapshots :
             s.account = other.account /\ s.asOf = other.asOf => s = other
    BY <1>1, <1>7, <1>9 DEF KeysIn, Database
  <2> QED
    BY <1>8, <2>1, <2>2, <2>3, <2>4 DEF KeysIn, Database
<1>14. OpposedIn(db')
  BY <1>4, <1>7, <1>9 DEF OpposedIn
<1> QED
  BY <1>8, <1>10, <1>11, <1>12, <1>13, <1>14 DEF Consistent

LEMMA RevertConsistent ==
  ASSUME Inv, Typed, Consistent(db), NEW c \in DOMAIN calls, RevertImport(c)
  PROVE  Consistent(db')
<1> DEFINE id == calls[c].batch
           gone == Ids(Find(db.batches, Me, id))
<1>1. db' = DeleteBatch(db, Me, id) /\ db \in Database
  BY RevertServes DEF Inv, Basis, Typed
<1>2. /\ db'.batches = {b \in db.batches : ~(b.id = id /\ b.owner = Me)}
      /\ db'.transactions = {t \in db.transactions : t.batch \notin gone}
      /\ db'.accounts = db.accounts /\ db'.categories = db.categories
      /\ db'.snapshots = db.snapshots /\ DOMAIN db' = DOMAIN db /\ db' \in Database
  BY <1>1 DEF DeleteBatch, Database
<1>3. \A b \in db.batches : b.id = id /\ b.owner = Me => b.id \in gone
  BY DEF Ids, Find
<1> HIDE DEF gone, id
<1>4. db'.batches \subseteq db.batches /\ db'.transactions \subseteq db.transactions
  BY <1>2
<1>5. \A table \in DOMAIN db' : IsFiniteSet(db'[table])
  <2>1. IsFiniteSet(db'.batches) /\ IsFiniteSet(db'.transactions)
    BY <1>1, <1>4, FS_Subset DEF Consistent, Database
  <2> QED
    BY <1>1, <1>2, <2>1 DEF Consistent, Database
<1>6. OwnersAgreeIn(db')
  BY <1>2, <1>4 DEF Consistent, OwnersAgreeIn
<1>7. ReferencesLiveIn(db')
  BY <1>2, <1>3, <1>4 DEF Consistent, ReferencesLiveIn, AccountLive, CategoryLive, Ids
<1>8. KeysIn(db')
  <2>1. /\ \A x, y \in db.batches : x.id = y.id => x = y
        /\ \A x, y \in db.transactions : x.id = y.id => x = y
    BY <1>1 DEF Consistent, KeysIn, Database
  <2>2. /\ \A x, y \in db.accounts : x.id = y.id => x = y
        /\ \A x, y \in db.categories : x.id = y.id => x = y
        /\ \A x, y \in db.snapshots : x.id = y.id => x = y
        /\ \A s, other \in db.snapshots :
             s.account = other.account /\ s.asOf = other.asOf => s = other
    BY <1>1 DEF Consistent, KeysIn, Database
  <2> QED
    BY <1>2, <1>4, <2>1, <2>2 DEF KeysIn, Database
<1>9. OpposedIn(db')
  BY <1>4 DEF Consistent, OpposedIn
<1> QED
  BY <1>2, <1>5, <1>6, <1>7, <1>8, <1>9 DEF Consistent

(* From a consistent database a session leaves a consistent one, at every   *)
(* moment, whichever imports land and are taken back: the reports of        *)
(* Readers are proved from any such database.                               *)
THEOREM ImportStaysConsistent ==
  ASSUME Consistent(StartDB)
  PROVE  Spec => []Consistent(db)
<1>1. Init => Consistent(db)
  BY DEF Init
<1>2. Inv /\ Typed /\ Consistent(db) /\ [Next]_vars => Consistent(db)'
  <2> SUFFICES ASSUME Inv, Typed, Consistent(db), [Next]_vars, db' # db PROVE Consistent(db')
    OBVIOUS
  <2>1. PICK c \in DOMAIN calls : CommitImport(c) \/ RevertImport(c)
    BY TableKinds DEF Inv, Basis
  <2> QED
    BY <2>1, CommitConsistent, RevertConsistent
<1> QED
  BY <1>1, <1>2, AlwaysTyped, PTL DEF Spec

-----------------------------------------------------------------------------
(* What is read of a bank's export.  A preview goes by a guess from its own *)
(* file, or by what an earlier one was imported by.                         *)

Taken(c) ==
  IF calls[c].learnt = 0 THEN calls[c].mapping = GuessMapping(Parse(Upload(c)))
  ELSE /\ calls[c].learnt \in DOMAIN calls /\ calls[calls[c].learnt].op = "commit"
       /\ calls[c].mapping = calls[calls[c].learnt].mapping

PreviewTaken(c) ==
  calls[c].op = "preview" =>
    /\ calls[c].stage = "sent" => calls[c].mapping = NULL
    /\ calls[c].stage = "mapped" \/ Answered(c) => Taken(c)

PreviewsTaken == \A c \in DOMAIN calls : PreviewTaken(c)

LEMMA PreviewSends ==
  ASSUME NEW t, Click(t), calls' # calls
  PROVE  \E call : /\ Send(call) /\ call.stage = "sent"
                   /\ call.op = "preview" => call.mapping = NULL
<1>1. ASSUME NEW op, op # "preview", NEW m, Send([Call(t, op) EXCEPT !.mapping = m])
      PROVE  \E call : /\ Send(call) /\ call.stage = "sent"
                       /\ call.op = "preview" => call.mapping = NULL
  <2> DEFINE call == [Call(t, op) EXCEPT !.mapping = m]
  <2>1. call.stage = "sent" /\ call.op # "preview"
    BY <1>1 DEF Call
  <2>2. Send(call)
    BY <1>1
  <2> HIDE DEF call
  <2> QED
    BY <2>1, <2>2
<1>2. ASSUME ClickPreview(t)
      PROVE  \E call : /\ Send(call) /\ call.stage = "sent"
                       /\ call.op = "preview" => call.mapping = NULL
  <2>1. Send(Call(t, "preview"))
    BY <1>2 DEF ClickPreview
  <2>2. Call(t, "preview").stage = "sent" /\ Call(t, "preview").mapping = NULL
    BY DEF Call
  <2> QED
    BY <2>1, <2>2
<1>3. ASSUME NEW edit, SetMapping(t, edit)
      PROVE  \E call : /\ Send(call) /\ call.stage = "sent"
                       /\ call.op = "preview" => call.mapping = NULL
  <2>1. PICK m : Send([Call(t, "remap") EXCEPT !.mapping = m])
    BY <1>3 DEF SetMapping
  <2> QED
    BY <1>1, <2>1, Zenon
<1>4. ASSUME ClickImport(t)
      PROVE  \E call : /\ Send(call) /\ call.stage = "sent"
                       /\ call.op = "preview" => call.mapping = NULL
  <2>1. Send([Call(t, "commit") EXCEPT !.mapping = calls[page[t].preview].mapping])
    BY <1>4 DEF ClickImport
  <2> QED
    BY <1>1, <2>1, Zenon
<1>5. ASSUME NEW batch, ClickRevert(t, batch)
      PROVE  \E call : /\ Send(call) /\ call.stage = "sent"
                       /\ call.op = "preview" => call.mapping = NULL
  <2> DEFINE call == [Call(t, "revert") EXCEPT !.batch = batch]
  <2>1. Send(call)
    BY <1>5 DEF ClickRevert
  <2>2. call.op = "revert" /\ call.stage = "sent"
    BY DEF Call
  <2> HIDE DEF call
  <2> QED
    BY <2>1, <2>2
<1>6. ~\/ \E file : ChooseFile(t, file) \/ ChooseAccount(t, file) \/ ToggleRow(t, file)
       \/ Reset(t)
  BY DEF ChooseFile, ChooseAccount, ToggleRow, Reset
<1> QED
  BY <1>2, <1>3, <1>4, <1>5, <1>6 DEF Click

(* A call that is new was just sent, a preview without a mapping. *)
LEMMA NewPreview ==
  ASSUME Formed, Pages, [Next]_vars, NEW c \in DOMAIN calls', c \notin DOMAIN calls
  PROVE  PreviewTaken(c)'
<1>1. ASSUME NEW d \in DOMAIN calls, Handle(d) \/ Receive(d) \/ GiveUp(d) PROVE FALSE
  <2>1. Serving(d) \/ Hearing(d)
    BY <1>1, ChooseMappingServes, FlagRowsServes, CommitServes, RevertServes, ReceiveHears,
       GiveUpHears DEF Handle
  <2> QED
    BY <2>1, HandlingOne DEF Serving, Hearing
<1>2. PICK t \in session.tabs : Click(t)
  BY <1>1 DEF Next, vars
<1>3. calls' # calls
  OBVIOUS
<1>4. PICK call : Send(call) /\ call.stage = "sent" /\ (call.op = "preview" => call.mapping = NULL)
  BY <1>2, <1>3, PreviewSends
<1>5. \E S : calls \in Seq(S)
  BY DEF Formed
<1> DEFINE longer == Append(calls, call)
<1>6. /\ DOMAIN calls = 1..Len(calls) /\ DOMAIN longer = 1..(Len(calls) + 1)
      /\ longer[Len(calls) + 1] = call /\ Len(calls) \in Nat
  BY <1>5, Appending
<1> HIDE DEF longer
<1>7. calls' = longer
  BY <1>4 DEF Send, longer
<1>8. c = Len(calls) + 1 /\ calls'[c] = call
  BY <1>6, <1>7
<1> QED
  BY <1>4, <1>8 DEF PreviewTaken, Answered

LEMMA LatestIs ==
  ASSUME Landings, \E S : landed \in Seq(S), NEW account, LatestMapping(account) # 0
  PROVE  LET last == LatestMapping(account)
         IN last \in DOMAIN calls /\ calls[last].op = "commit"
<1> DEFINE still == {k \in DOMAIN landed : /\ calls[landed[k]].account = account
                                           /\ <<landed[k], 0>> \in Ids(db.batches)}
           n == Len(landed)
           T == {n - k : k \in still}
<1>1. still # {} /\ LatestMapping(account) = landed[CHOOSE k \in still : \A j \in still : j <= k]
  BY DEF LatestMapping
<1>2. n \in Nat /\ DOMAIN landed = 1..n
  BY Appending
<1>3. still \subseteq 1..n
  BY <1>2
<1> HIDE DEF still, n
<1>4. T \in SUBSET Nat /\ T # {}
  <2>1. \A k \in still : n - k \in Nat
    BY <1>2, <1>3
  <2>2. PICK k \in still : TRUE
    BY <1>1
  <2>3. n - k \in T
    OBVIOUS
  <2> QED
    BY <2>1, <2>3
<1>5. PICK l \in T : \A m \in T : l <= m
  <2> HIDE DEF T
  <2> QED
    BY <1>4, Least
<1>6. PICK k \in still : l = n - k
  OBVIOUS
<1>7. \A j \in still : j <= k
  <2> SUFFICES ASSUME NEW j \in still PROVE j <= k
    OBVIOUS
  <2>1. n - j \in T
    OBVIOUS
  <2>2. n - k <= n - j
    BY <1>5, <1>6, <2>1
  <2> QED
    BY <1>2, <1>3, <2>2
<1>8. \E i \in still : LatestMapping(account) = landed[i]
  <2>1. (CHOOSE i \in still : \A j \in still : j <= i) \in still
    BY <1>7
  <2> QED
    BY <1>1, <2>1
<1> QED
  BY <1>2, <1>3, <1>8 DEF Landings

(* What becomes of the mapping of a call in a step. *)
LEMMA MappingGoes ==
  ASSUME Formed, Pages, [Next]_vars, NEW c \in DOMAIN calls, ~ChooseMapping(c)
  PROVE  \/ /\ calls'[c].mapping = calls[c].mapping /\ calls'[c].learnt = calls[c].learnt
            /\ \/ calls'[c].stage = calls[c].stage /\ calls'[c].answer = calls[c].answer
               \/ calls[c].stage = "mapped" /\ calls'[c].stage # "sent"
         \/ calls[c].op \in {"commit", "revert"}
<1>0. Fields \subseteq DOMAIN calls[c] /\ \E S : calls \in Seq(S)
  BY DEF Formed
<1>1. CASE calls'[c] = calls[c]
  BY <1>1
<1>2. ASSUME NEW t \in session.tabs, Click(t) PROVE calls'[c] = calls[c]
  <2>1. t \in Tab
    BY ImportAssumption DEF Formed
  <2>2. Browse(t) \/ Ask(t) \/ Confirm(t)
    BY <1>2, <2>1, ClickKinds
  <2> QED
    BY <2>2, SendingOne DEF Browse, Ask, Confirm
<1>3. ASSUME NEW d \in DOMAIN calls, d # c, Handle(d) \/ Receive(d) \/ GiveUp(d)
      PROVE  calls'[c] = calls[c]
  <2>1. Serving(d) \/ Hearing(d)
    BY <1>3, ChooseMappingServes, FlagRowsServes, CommitServes, RevertServes, ReceiveHears,
       GiveUpHears DEF Handle
  <2> QED
    BY <1>3, <2>1, HandlingOne DEF Serving, Hearing
<1>4. CASE Receive(c) \/ GiveUp(c)
  <2>1. PICK client : calls' = [calls EXCEPT ![c].client = client]
    BY <1>4 DEF Receive, GiveUp
  <2>2. calls'[c] = [calls[c] EXCEPT !.client = client]
    BY <2>1
  <2> QED
    BY <1>0, <2>2 DEF Fields
<1>5. CASE FlagRows(c)
  <2>1. PICK known, answer :
          calls' = [calls EXCEPT ![c] = [[calls[c] EXCEPT !.known = known]
                                           EXCEPT !.stage = "answered", !.answer = answer]]
    BY <1>5 DEF FlagRows, Answer
  <2>2. calls'[c] = [[calls[c] EXCEPT !.known = known] EXCEPT !.stage = "answered", !.answer = answer]
    BY <2>1
  <2>3. calls[c].stage = "mapped"
    BY <1>5 DEF FlagRows, Serves
  <2> QED
    BY <1>0, <2>2, <2>3 DEF Fields
<1>6. CASE CommitImport(c) \/ RevertImport(c)
  BY <1>6 DEF CommitImport, RevertImport, Serves
<1> QED
  BY <1>1, <1>2, <1>3, <1>4, <1>5, <1>6 DEF Next, Handle, vars

LEMMA TakenStays ==
  ASSUME Forward, NEW c \in DOMAIN calls, Taken(c),
         calls'[c].mapping = calls[c].mapping, calls'[c].learnt = calls[c].learnt
  PROVE  Taken(c)'
<1>1. CASE calls[c].learnt = 0
  BY <1>1, RowsStay DEF Taken
<1>2. CASE calls[c].learnt # 0
  <2> DEFINE k == calls[c].learnt
  <2>1. k \in DOMAIN calls /\ calls[k].op = "commit" /\ calls[c].mapping = calls[k].mapping
    BY <1>2 DEF Taken
  <2>2. k \in DOMAIN calls' /\ calls'[k].op = "commit" /\ calls'[k].mapping = calls[k].mapping
    BY <2>1 DEF Forward, Asked, Previews
  <2> QED
    BY <1>2, <2>1, <2>2 DEF Taken
<1> QED
  BY <1>1, <1>2

(* A preview is given the mapping of an import, or a guess. *)
LEMMA MappingChosen ==
  ASSUME Formed, Pages, Landings, [Next]_vars, NEW c \in DOMAIN calls, ChooseMapping(c),
         calls[c].op = "preview", calls[c].mapping = NULL
  PROVE  PreviewTaken(c)'
<1> DEFINE last == LatestMapping(calls[c].account)
           learnt == IF last = 0 THEN 0 ELSE IF calls[last].mapping.date = 0 THEN 0 ELSE last
           mapping == IF learnt # 0 THEN calls[learnt].mapping ELSE GuessMapping(Parse(Upload(c)))
           new == [calls[c] EXCEPT !.stage = "mapped", !.learnt = learnt, !.mapping = mapping]
<1>0. Fields \subseteq DOMAIN calls[c] /\ (\E S : calls \in Seq(S)) /\ \E S : landed \in Seq(S)
  BY DEF Formed
<1>1. Forward
  BY NextForward
<1>2. CASE Answer(c, calls[c], Refused)
  <2>1. calls'[c].stage = "answered" /\ calls'[c].answer = Refused
    <3>1. calls'[c] = [calls[c] EXCEPT !.stage = "answered", !.answer = Refused]
      BY <1>2 DEF Answer
    <3> QED
      BY <1>0, <3>1 DEF Fields
  <2> QED
    BY <2>1 DEF PreviewTaken, Answered
<1>3. CASE ~Answer(c, calls[c], Refused)
  <2>1. calls' = [calls EXCEPT ![c] = new]
    BY <1>3 DEF ChooseMapping
  <2>2. new.stage = "mapped" /\ new.learnt = learnt /\ new.mapping = mapping
    BY <1>0 DEF Fields
  <2>3. learnt # 0 => learnt \in DOMAIN calls /\ calls[learnt].op = "commit"
    <3>1. last # 0 => last \in DOMAIN calls /\ calls[last].op = "commit"
      BY <1>0, LatestIs
    <3> QED
      BY <3>1
  <2> HIDE DEF new, learnt
  <2>4. calls'[c] = new
    BY <2>1
  <2>5. learnt # 0 => /\ learnt \in DOMAIN calls' /\ calls'[learnt].op = "commit"
                      /\ calls'[learnt].mapping = mapping
    BY <1>1, <2>3 DEF Forward, Asked, Previews
  <2>6. Upload(c)' = Upload(c)
    BY <1>1, RowsStay
  <2>7. Taken(c)'
    BY <2>2, <2>4, <2>5, <2>6 DEF Taken
  <2> QED
    BY <2>2, <2>4, <2>7 DEF PreviewTaken
<1> QED
  BY <1>2, <1>3

LEMMA NextTaken ==
  ASSUME Basis, PreviewsTaken, [Next]_vars
  PROVE  PreviewsTaken'
<1> SUFFICES ASSUME NEW c \in DOMAIN calls' PROVE PreviewTaken(c)'
  BY DEF PreviewsTaken
<1>0. Formed /\ Pages /\ Landings
  BY DEF Basis
<1>1. CASE c \notin DOMAIN calls
  BY <1>0, <1>1, NewPreview
<1>2. CASE c \in DOMAIN calls
  <2>1. Forward /\ PreviewTaken(c)
    BY <1>0, <1>2, NextForward DEF PreviewsTaken
  <2>2. calls'[c].op = calls[c].op
    BY <1>2, <2>1 DEF Forward, Asked
  <2>3. CASE calls[c].op # "preview"
    BY <2>2, <2>3 DEF PreviewTaken
  <2>4. CASE calls[c].op = "preview" /\ ChooseMapping(c)
    <3>1. calls[c].stage = "sent"
      BY <2>4 DEF ChooseMapping, Serves
    <3> QED
      BY <1>0, <1>2, <2>1, <2>4, <3>1, MappingChosen DEF PreviewTaken
  <2>5. CASE calls[c].op = "preview" /\ ~ChooseMapping(c)
    <3>1. /\ calls'[c].mapping = calls[c].mapping /\ calls'[c].learnt = calls[c].learnt
          /\ \/ calls'[c].stage = calls[c].stage /\ calls'[c].answer = calls[c].answer
             \/ calls[c].stage = "mapped" /\ calls'[c].stage # "sent"
      BY <1>0, <1>2, <2>5, MappingGoes
    <3>2. Taken(c) => Taken(c)'
      BY <1>2, <2>1, <3>1, TakenStays
    <3> QED
      BY <2>1, <2>2, <2>5, <3>1, <3>2 DEF PreviewTaken, Answered
  <2> QED
    BY <2>3, <2>4, <2>5
<1> QED
  BY <1>1, <1>2

LEMMA AlwaysTaken == Spec => [](Inv /\ Typed /\ PreviewsTaken)
<1>1. Init => PreviewsTaken
  <2>1. Init => DOMAIN calls = {}
    BY DEF Init
  <2> QED
    BY <2>1 DEF PreviewsTaken
<1>2. Inv /\ PreviewsTaken /\ [Next]_vars => PreviewsTaken'
  BY NextTaken DEF Inv
<1> QED
  BY <1>1, <1>2, AlwaysTyped, PTL DEF Spec

(* What an answered preview was asked to read, and what it read. *)
LEMMA PreviewReads ==
  ASSUME Inv, Typed, PreviewsTaken, NEW c \in DOMAIN calls, calls[c].op = "preview", Answered(c)
  PROVE  /\ IsExport(File(c)) /\ Taken(c)
         /\ Readings(c) = Normalize(Parse(File(c).upload), calls[c].mapping)
<1>1. calls[c].op \in Previews /\ session \in Sessions
  BY DEF Previews, Inv, Basis, Formed
<1>2. IsExport(File(c))
  <2>1. calls[c].file \in DOMAIN session.files
    BY DEF Typed, CallTyped
  <2> QED
    BY <1>1, <2>1, FilesAssumption DEF File
<1>3. Reads(c)
  BY <1>1 DEF Inv, AllRead
<1>4. Rows(c) = [n \in DOMAIN Rows(c) |-> Rows(c)[n]]
  BY DEF Rows, Normalize
<1>5. Readings(c) = Rows(c)
  BY <1>3, <1>4 DEF Readings, Reads
<1>6. Taken(c)
  BY DEF PreviewsTaken, PreviewTaken
<1> QED
  BY <1>2, <1>5, <1>6 DEF Rows, Upload

(* GuessMapping and guessDateFormat (guess.go): whatever export of whatever *)
(* style is uploaded, of any length, a preview nobody edited reads every    *)
(* entry as the bank meant it, if columns, signs and dates can be told.     *)
THEOREM GuessesReadBack == Spec => []GuessReadsBack
<1>1. ASSUME Inv, Typed, PreviewsTaken PROVE GuessReadsBack
  <2> SUFFICES ASSUME NEW c \in DOMAIN calls, Answered(c), Guessed(c),
                      Legible(File(c)), WidthTold(File(c))
               PROVE  Readings(c) = File(c).statement
    BY DEF GuessReadsBack
  <2>1. /\ IsExport(File(c)) /\ Taken(c) /\ calls[c].learnt = 0
        /\ Readings(c) = Normalize(Parse(File(c).upload), calls[c].mapping)
    BY <1>1, PreviewReads DEF Guessed
  <2>2. calls[c].mapping = GuessMapping(Parse(File(c).upload))
    BY <2>1 DEF Taken, Upload
  <2> QED
    BY <2>1, <2>2, GuessReads
<1> QED
  BY <1>1, AlwaysTaken, PTL

(* LatestMapping (imports.go:105): what was guessed of one export, shown and *)
(* imported, makes of the entries of any later export of that style what     *)
(* that one left open and nothing else, however the imports and their        *)
(* reverts were interleaved: a day for a month, money out for money in or    *)
(* cents for dollars only where the first file does not tell them apart.     *)
(* Its columns must be told, and amounts fit the width.                      *)
THEOREM TakenForNothingElse == Spec => []MisreadsOnlyTheUntold
<1>1. ASSUME Inv, Typed, PreviewsTaken PROVE MisreadsOnlyTheUntold
  <2> SUFFICES ASSUME NEW c \in DOMAIN calls, calls[c].op = "preview", Answered(c),
                      NEW origin,
                      origin = IF Guessed(c) THEN c ELSE calls[calls[c].learnt].shown,
                      Guessed(origin), ColumnsTold(File(origin)),
                      File(origin).style = File(c).style, InWidth(File(c))
               PROVE  \A n \in DOMAIN Readings(c) :
                        Readings(c)[n] \in
                          {None} \cup TakenFor(File(origin), File(c).statement[n])
    BY DEF MisreadsOnlyTheUntold
  <2>1. /\ IsExport(File(c)) /\ Taken(c)
        /\ Readings(c) = Normalize(Parse(File(c).upload), calls[c].mapping)
    BY <1>1, PreviewReads
  <2>2. origin \in DOMAIN calls /\ Answered(origin) /\ calls[origin].mapping = calls[c].mapping
    <3>1. CASE Guessed(c)
      BY <3>1
    <3>2. CASE ~Guessed(c)
      <4> DEFINE k == calls[c].learnt
      <4>1. k \in DOMAIN calls /\ calls[k].op = "commit" /\ calls[c].mapping = calls[k].mapping
        BY <2>1, <3>2 DEF Guessed, Taken
      <4>2. Attempt(k)
        BY <1>1, <4>1 DEF Inv, Basis, Attempts
      <4> QED
        BY <3>2, <4>1, <4>2 DEF Attempt, Told
    <3> QED
      BY <3>1, <3>2
  <2>3. calls[origin].op = "preview" /\ calls[origin].learnt = 0
    BY DEF Guessed
  <2>4. IsExport(File(origin)) /\ Taken(origin)
    BY <1>1, <2>2, <2>3, PreviewReads
  <2>5. calls[c].mapping = GuessMapping(Parse(File(origin).upload))
    BY <2>2, <2>3, <2>4 DEF Taken, Upload
  <2> QED
    BY <2>1, <2>4, <2>5, StyleReads
<1> QED
  BY <1>1, AlwaysTaken, PTL
=============================================================================
