--------------------------------- MODULE UserTable ---------------------------------
(***************************************************************************)
(* The list of users of the administration page: js/app/user.js over one   *)
(* DataTable (version 1.10.2, server side), with the process that searches *)
(* and deletes.                                                            *)
(*                                                                         *)
(* Every search makes a new DataTable on the same <table>.  Its rows are   *)
(* its own nodes, and the body shows those of one table, not always of the *)
(* newest: a table that was destroyed still draws when its answer comes.   *)
(***************************************************************************)
EXTENDS Integers, Sequences, FiniteSets

CONSTANTS
    Users,                \* user ids
    MaxTables,            \* bound: searches, each of which makes a table
    MaxRequests,          \* bound: requests of all tables
    MaxDialogs            \* bound: confirmations on the screen at once

ASSUME TableAssumption ==
    /\ IsFiniteSet(Users)
    /\ MaxTables \in Nat \ {0}
    /\ MaxRequests \in Nat /\ MaxDialogs \in Nat

Tables == 1 .. MaxTables

VARIABLES
    isdelete,             \* the hidden field is '1'
    cur,                  \* the newest table, 0 before the first search
    drawn,                \* the table whose rows are in the body, 0 if none
    table,                \* table[t]: rows, the ones that are ticked, first answer seen
    hiddenTicked,         \* checked of the form's hidden field, which has the boxes' name
    dialogs,              \* confirmations on the screen
    closing,              \* successMessage's timer runs
    req,                  \* the requests, in the order they were sent
    users,                \* the rows of the data base
    agreed,               \* history: ticked on the screen when the admin said yes
    vain,                 \* history: no row was ticked on the screen at the last yes
    hasty                 \* history: sent while an answer was due, or one failed

vars == <<isdelete, cur, drawn, table, hiddenTicked, dialogs, closing, req, users, agreed, vain, hasty>>

Requests == [of : Tables, del : BOOLEAN, ids : SUBSET Users, rows : SUBSET Users,
             at : {"sent", "answered", "done", "failed"}]

TypeOK ==
    /\ isdelete \in BOOLEAN /\ hiddenTicked \in BOOLEAN /\ closing \in BOOLEAN
    /\ vain \in BOOLEAN /\ hasty \in BOOLEAN /\ cur \in Tables \cup {0} /\ drawn \in 0 .. cur
    /\ table \in [Tables -> [rows : SUBSET Users, ticked : SUBSET Users, inited : BOOLEAN]]
    /\ \A t \in Tables : table[t].ticked \subseteq table[t].rows
    /\ dialogs \in Nat
    /\ req \in Seq(Requests)
    /\ users \subseteq Users /\ agreed \subseteq Users

Empty == [rows |-> {}, ticked |-> {}, inited |-> FALSE]

Init ==
    /\ isdelete = FALSE /\ cur = 0 /\ drawn = 0
    /\ table = [t \in Tables |-> Empty]
    /\ hiddenTicked = FALSE /\ dialogs = 0 /\ closing = FALSE
    /\ req = <<>>
    /\ users = Users
    /\ agreed = {} /\ vain = FALSE /\ hasty = FALSE

\* The ticked boxes that are in the document.
Ticked(t) == IF t = 0 THEN {} ELSE table[t].ticked

Due == \E i \in DOMAIN req : req[i].at \in {"sent", "answered"}

\* The data function: the flag and the boxes as they are when the request leaves.
SendRequest(t, flag, shown) ==
    /\ Len(req) < MaxRequests
    /\ req' = Append(req, [of |-> t, del |-> flag, rows |-> {}, at |-> "sent",
                           ids |-> IF flag THEN Ticked(shown) ELSE {}])
    /\ hasty' = (hasty \/ Due)

\* searchUser: the table before is destroyed, which puts its rows back into the
\* body, whatever the body shows; the new one asks for its first page.
SearchUser(flag) ==
    /\ cur < MaxTables
    /\ cur' = cur + 1
    /\ drawn' = cur
    /\ SendRequest(cur + 1, flag, cur)

--------------------------------------------------------------------------------
(* What the admin does.                                                    *)

Search ==
    /\ SearchUser(isdelete)
    /\ UNCHANGED <<isdelete, table, hiddenTicked, dialogs, closing, users, agreed, vain>>

\* Another page or page length of the newest table.
Redraw ==
    /\ cur # 0
    /\ SendRequest(cur, isdelete, drawn)
    /\ UNCHANGED <<isdelete, cur, drawn, table, hiddenTicked, dialogs, closing, users, agreed, vain>>

\* A click on a row's box.
Tick(u) ==
    /\ drawn # 0 /\ u \in table[drawn].rows
    /\ table' = [table EXCEPT ![drawn].ticked = IF u \in @ THEN @ \ {u} ELSE @ \cup {u}]
    /\ UNCHANGED <<isdelete, cur, drawn, hiddenTicked, dialogs, closing, req, users, agreed, vain, hasty>>

\* checkAll goes by name, and finds the hidden field of the form too.
CheckAll(all) ==
    /\ hiddenTicked' = all
    /\ table' = [t \in Tables |->
                   IF t = drawn THEN [table[t] EXCEPT !.ticked = IF all THEN table[t].rows ELSE {}]
                   ELSE table[t]]
    /\ UNCHANGED <<isdelete, cur, drawn, dialogs, closing, req, users, agreed, vain, hasty>>

\* With nothing ticked it only complains.
DeleteOnClick ==
    /\ Ticked(drawn) # {} \/ hiddenTicked
    /\ dialogs < MaxDialogs /\ dialogs' = dialogs + 1
    /\ UNCHANGED <<isdelete, cur, drawn, table, hiddenTicked, closing, req, users, agreed, vain, hasty>>

\* The first button: deleteUser.
Confirm ==
    /\ dialogs > 0 /\ dialogs' = dialogs - 1
    /\ isdelete' = TRUE
    /\ agreed' = agreed \cup Ticked(drawn)
    /\ vain' = (Ticked(drawn) = {})
    /\ SearchUser(TRUE)
    /\ UNCHANGED <<table, hiddenTicked, closing, users>>

\* The second button.
Cancel ==
    /\ dialogs > 0 /\ dialogs' = dialogs - 1
    /\ UNCHANGED <<isdelete, cur, drawn, table, hiddenTicked, closing, req, users, agreed, vain, hasty>>

\* Two seconds after a success message all messages are closed, questions too.
CloseAllMessage ==
    /\ closing /\ closing' = FALSE
    /\ dialogs' = 0
    /\ UNCHANGED <<isdelete, cur, drawn, table, hiddenTicked, req, users, agreed, vain, hasty>>

--------------------------------------------------------------------------------
(* The process, and the way back.                                          *)

\* Fault: a search deletes what is ticked, flag or no flag.
AnyIds(i) == Ticked(cur)

\* Fault: only the first id arrives.
FirstId(i) == IF req[i].del /\ req[i].ids # {} THEN {CHOOSE u \in req[i].ids : TRUE} ELSE {}

\* isdelete and userid.  An empty userid is no userid: the deletion is skipped and
\* the search is answered all the same.
DeletedIds(i) == IF req[i].del THEN req[i].ids ELSE {}

\* UserProcess.searchUser.  The copies of the users that are deleted from hi-cache too
\* are not this page's and are left out.
Answer(i) ==
    /\ req[i].at = "sent"
    /\ users' = users \ DeletedIds(i)
    /\ \E found \in SUBSET users' :
          req' = [req EXCEPT ![i].at = "answered", ![i].rows = found]
    /\ UNCHANGED <<isdelete, cur, drawn, table, hiddenTicked, dialogs, closing, agreed, vain, hasty>>

\* Of a request that has ended only the outcome is kept.
Ends(i, outcome) == req' = [req EXCEPT ![i] = [@ EXCEPT !.at = outcome, !.ids = {}, !.rows = {}]]

\* The process throws, or the request or its answer is lost: only an alert.
Fail(i) ==
    /\ req[i].at \in {"sent", "answered"}
    /\ Ends(i, "failed")
    /\ hasty' = TRUE
    /\ UNCHANGED <<isdelete, cur, drawn, table, hiddenTicked, dialogs, closing, users, agreed, vain>>

\* Fault: initComplete reports the deletion and leaves the flag.
InitReports(t) ==
    IF table[t].inited THEN UNCHANGED <<isdelete, closing>>
    ELSE /\ isdelete' = isdelete
         /\ closing' = (closing \/ isdelete)

\* Fault: an empty first page counts as no answer.
InitRows(t) ==
    IF table[t].inited \/ table'[t].rows = {} THEN UNCHANGED <<isdelete, closing>>
    ELSE /\ isdelete' = FALSE
         /\ closing' = (closing \/ isdelete)

\* initComplete, on the first answer of a table.
InitComplete(t) ==
    IF table[t].inited THEN UNCHANGED <<isdelete, closing>>
    ELSE /\ isdelete' = FALSE
         /\ closing' = (closing \/ isdelete)

\* Fault: the boxes of the rows before stay ticked.
DrawnTicked(i) == [rows |-> req[i].rows, ticked |-> table[req[i].of].ticked, inited |-> TRUE]

\* The old rows are cleared and the new ones come unticked.
DrawnRows(i) == [rows |-> req[i].rows, ticked |-> {}, inited |-> TRUE]

\* The answer is drawn by the table that asked, destroyed or not; there is no
\* draw number in it by which an old one would be known.
Draw(i) ==
    /\ req[i].at = "answered"
    /\ Ends(i, "done")
    /\ table' = [table EXCEPT ![req[i].of] = DrawnRows(i)]
    /\ drawn' = req[i].of
    /\ InitComplete(req[i].of)
    /\ UNCHANGED <<cur, hiddenTicked, dialogs, users, agreed, vain, hasty>>

--------------------------------------------------------------------------------
Admin == \/ Search \/ Redraw \/ DeleteOnClick \/ Confirm \/ Cancel
         \/ (\E u \in Users : Tick(u)) \/ (\E all \in BOOLEAN : CheckAll(all))
Next == \/ Admin
        \/ CloseAllMessage
        \/ \E i \in DOMAIN req : Answer(i) \/ Fail(i) \/ Draw(i)

Spec == Init /\ [][Next]_vars

\* Requests end: they are answered or fail, and answers are drawn.
Fairness == \A i \in 1 .. MaxRequests :
    /\ WF_vars(i \in DOMAIN req /\ (Answer(i) \/ Fail(i)))
    /\ WF_vars(i \in DOMAIN req /\ (Draw(i) \/ Fail(i)))
FairSpec == Spec /\ Fairness

--------------------------------------------------------------------------------
\* Only what was ticked on the screen at a yes is deleted, if the admin waits
\* for each answer and none fails.
OnlyAgreed == ~hasty => Users \ users \subseteq agreed

\* The flag does not outlive the deletion it was set for, on the same terms;
\* while it is set no table but the one that deletes asks for rows.
FlagEndsWithAnswer ==
    isdelete /\ ~hasty => \E i \in DOMAIN req : /\ req[i].at \in {"sent", "answered"}
                                                /\ req[i].del /\ req[i].of = cur

\* The message that a deletion succeeded comes when all that was agreed is gone, and
\* after a request that deleted something: it is false only if no row was ticked at
\* the yes, when the process skips the deletion and answers.
ReportIsTrue ==
    [][~closing /\ closing' /\ ~hasty =>
          /\ agreed \cap users = {}
          /\ vain \/ \E i \in DOMAIN req : /\ req[i].at = "answered" /\ req'[i].at = "done"
                                         /\ req[i].del /\ req[i].ids # {}]_vars

\* The flag is not left behind for ever, unless a request fails; a deletion with no
\* row ticked takes it back too.
FlagEnds == isdelete ~> (~isdelete \/ \E i \in DOMAIN req : req[i].at = "failed")

================================================================================
