------------------------------ MODULE UserTableProofs ------------------------------
(***************************************************************************)
(* Proofs about UserTable, for any number of users, searches and requests. *)
(***************************************************************************)
EXTENDS UserTable, TLAPS

\* While the admin waits for each answer, at most the last request is under way;
\* it belongs to the newest table, whose rows are on the screen otherwise; the flag
\* is set for it alone; it carries what was agreed and is not yet gone; and it carries
\* nothing only if nothing was ticked at the yes.
Active(i) == req[i].at \in {"sent", "answered"}
OneDue == \A i \in DOMAIN req : Active(i) => i = Len(req) /\ req[i].of = cur
FlagDue == isdelete => /\ Len(req) \in DOMAIN req /\ Active(Len(req))
                       /\ req[Len(req)].del /\ ~table[cur].inited
IdsAgreed == \A i \in DOMAIN req : Active(i) /\ req[i].del => req[i].ids \subseteq agreed
IdsOrVain == \A i \in DOMAIN req : Active(i) /\ req[i].del => req[i].ids # {} \/ vain
NewestDrawn == (\A i \in DOMAIN req : ~Active(i)) => drawn = cur
GoneAgreed == Users \ users \subseteq agreed
AgreedSent == \A u \in agreed \cap users :
                 \E i \in DOMAIN req : req[i].at = "sent" /\ req[i].del /\ u \in req[i].ids
Careful == OneDue /\ FlagDue /\ IdsAgreed /\ IdsOrVain /\ NewestDrawn /\ GoneAgreed /\ AgreedSent
Newest == /\ \A t \in Tables : t > cur => ~table[t].inited
          /\ \A i \in DOMAIN req : req[i].of <= cur
TableInv == TypeOK /\ Newest /\ (~hasty => Careful)

--------------------------------------------------------------------------------
\* A request that is sent is the last one, and the others stay as they are.
LEMMA Sent ==
    ASSUME TypeOK, NEW t \in Tables, NEW flag \in BOOLEAN, NEW s \in Tables \cup {0},
           SendRequest(t, flag, s)
    PROVE  /\ req' \in Seq(Requests)
           /\ DOMAIN req' = DOMAIN req \cup {Len(req')} /\ Len(req') \in Nat
           /\ \A i \in DOMAIN req : req'[i] = req[i] /\ i # Len(req')
           /\ req'[Len(req')].of = t /\ req'[Len(req')].del = flag
           /\ req'[Len(req')].at = "sent"
           /\ req'[Len(req')].ids = IF flag THEN Ticked(s) ELSE {}
<1>. DEFINE r == [of |-> t, del |-> flag, rows |-> {}, at |-> "sent",
                  ids |-> IF flag THEN Ticked(s) ELSE {}]
<1>1. Ticked(s) \subseteq Users
  BY DEF TypeOK, Ticked
<1>2. /\ r \in Requests /\ r.of = t /\ r.del = flag /\ r.at = "sent"
      /\ r.ids = IF flag THEN Ticked(s) ELSE {}
  BY <1>1 DEF Requests
<1>3. req \in Seq(Requests) /\ req' = Append(req, r)
  BY DEF TypeOK, SendRequest
<1>. HIDE DEF r
<1>4. /\ req' \in Seq(Requests) /\ Len(req) \in Nat /\ Len(req') = Len(req) + 1
      /\ DOMAIN req = 1 .. Len(req) /\ DOMAIN req' = 1 .. Len(req) + 1
      /\ \A i \in 1 .. Len(req) : req'[i] = req[i]
      /\ req'[Len(req) + 1] = r
  BY <1>2, <1>3
<1>5. DOMAIN req' = DOMAIN req \cup {Len(req')} /\ \A i \in DOMAIN req : i # Len(req')
  BY <1>4
<1>. QED
  BY <1>2, <1>4, <1>5

\* The newest table and the one on the screen.
LEMMA TableType ==
    ASSUME TypeOK
    PROVE  /\ cur \in Nat /\ cur <= MaxTables /\ drawn \in Nat /\ drawn <= cur
           /\ cur \in Tables \cup {0} /\ drawn \in Tables \cup {0}
           /\ cur # 0 => cur \in Tables
           /\ cur < MaxTables => cur + 1 \in Tables
           /\ Ticked(drawn) \subseteq Users
<1>1. cur \in Nat /\ cur <= MaxTables /\ (cur # 0 => cur \in Tables)
      /\ (cur < MaxTables => cur + 1 \in Tables)
  BY TableAssumption DEF TypeOK, Tables
<1>2. drawn \in Nat /\ drawn <= cur /\ drawn \in Tables \cup {0}
  BY <1>1, TableAssumption DEF TypeOK, Tables
<1>3. Ticked(drawn) \subseteq Users
  BY <1>2 DEF TypeOK, Ticked
<1>. QED
  BY <1>1, <1>2, <1>3

\* A step of one request keeps the length and the other requests.
LEMMA Kept ==
    ASSUME TypeOK, NEW i \in DOMAIN req, NEW r \in Requests, req' = [req EXCEPT ![i] = r]
    PROVE  /\ req' \in Seq(Requests) /\ DOMAIN req' = DOMAIN req /\ Len(req') = Len(req)
           /\ DOMAIN req = 1 .. Len(req) /\ Len(req) \in Nat
           /\ req'[i] = r /\ \A j \in DOMAIN req : j # i => req'[j] = req[j]
BY DEF TypeOK

LEMMA RequestType ==
    ASSUME TypeOK, NEW i \in DOMAIN req
    PROVE  /\ req[i] \in Requests /\ req[i].of \in Tables /\ req[i].del \in BOOLEAN
           /\ req[i].ids \subseteq Users /\ req[i].rows \subseteq Users
<1>1. req[i] \in Requests
  BY DEF TypeOK
<1>. QED
  BY <1>1 DEF Requests

\* Nothing is under way when a request is sent without haste.
LEMMA NothingDue ==
    ASSUME TypeOK, NEW t \in Tables, NEW flag \in BOOLEAN, NEW s \in Tables \cup {0},
           SendRequest(t, flag, s), ~hasty'
    PROVE  ~hasty /\ \A i \in DOMAIN req : ~Active(i)
BY DEF SendRequest, Due, Active

LEMMA InitHolds == Init => TableInv
<1>. SUFFICES ASSUME Init PROVE TableInv
  OBVIOUS
<1>. USE DEF Init
<1>1. TypeOK
  <2>1. cur \in Tables \cup {0} /\ drawn \in 0 .. cur /\ dialogs \in Nat
    OBVIOUS
  <2>2. /\ table \in [Tables -> [rows : SUBSET Users, ticked : SUBSET Users, inited : BOOLEAN]]
        /\ \A t \in Tables : table[t].ticked \subseteq table[t].rows
    BY DEF Empty
  <2>3. req \in Seq(Requests) /\ users \subseteq Users /\ agreed \subseteq Users
    OBVIOUS
  <2>. QED
    BY <2>1, <2>2, <2>3 DEF TypeOK
<1>2. Newest /\ Careful
  BY DEF Newest, Empty, Careful, OneDue, FlagDue, IdsAgreed, IdsOrVain, NewestDrawn,
     GoneAgreed, AgreedSent
<1>. QED
  BY <1>1, <1>2 DEF TableInv

--------------------------------------------------------------------------------
(* The steps that send a request.                                          *)

\* The next table has drawn nothing, and no request is of a later one.
LEMMA SearchType ==
    ASSUME TypeOK, NEW flag \in BOOLEAN, cur + 1 \in Tables, cur' = cur + 1, drawn' = cur,
           SendRequest(cur + 1, flag, cur)
    PROVE  /\ cur' \in Tables \cup {0} /\ drawn' \in 0 .. cur'
           /\ req' \in Seq(Requests) /\ hasty' \in BOOLEAN
<1>1. drawn' \in 0 .. cur'
  BY TableType
<1>2. req' \in Seq(Requests)
  BY Sent, TableType
<1>. QED
  BY <1>1, <1>2 DEF TypeOK, SendRequest, Due

LEMMA SearchNewest ==
    ASSUME TableInv, NEW flag \in BOOLEAN, cur + 1 \in Tables, cur' = cur + 1, table' = table,
           SendRequest(cur + 1, flag, cur)
    PROVE  Newest'
<1>1. \A t \in Tables : t > cur' => ~table'[t].inited
  BY TableType DEF TableInv, Newest, Tables
<1>2. \A i \in DOMAIN req : req'[i] = req[i] /\ req[i].of <= cur /\ req[i].of \in Nat
  <2>1. ASSUME NEW i \in DOMAIN req PROVE req[i].of \in Nat
    BY RequestType DEF TableInv, Tables
  <2>. QED
    BY <2>1, Sent, TableType DEF TableInv, Newest
<1>3. DOMAIN req' = DOMAIN req \cup {Len(req')} /\ req'[Len(req')].of = cur + 1
  BY Sent, TableType DEF TableInv
<1>4. cur \in Nat
  BY TableType DEF TableInv
<1>5. ASSUME NEW i \in DOMAIN req' PROVE req'[i].of <= cur'
  <2>1. i \in DOMAIN req \/ i = Len(req')
    BY <1>3, <1>5
  <2>2. CASE i \in DOMAIN req
    <3>1. req'[i].of <= cur /\ req'[i].of \in Nat
      BY <1>2, <2>2
    <3>. QED
      BY <1>4, <3>1
  <2>3. CASE i = Len(req')
    <3>1. req'[i].of = cur + 1
      BY <1>3, <2>3
    <3>. QED
      BY <1>4, <3>1
  <2>. QED
    BY <2>1, <2>2, <2>3
<1>. QED
  BY <1>1, <1>5 DEF Newest

\* A request without the flag, sent when nothing is under way.
LEMMA SentCareful ==
    ASSUME TypeOK, Careful, NEW t \in Tables, NEW s \in Tables \cup {0},
           SendRequest(t, isdelete, s), \A i \in DOMAIN req : ~Active(i),
           ~isdelete, agreed \cap users = {}, cur' = t,
           UNCHANGED <<isdelete, users, agreed, vain>>
    PROVE  Careful'
<1>1. /\ DOMAIN req' = DOMAIN req \cup {Len(req')} /\ Len(req') \in Nat
      /\ \A i \in DOMAIN req : req'[i] = req[i] /\ i # Len(req')
      /\ req'[Len(req')].of = cur' /\ ~req'[Len(req')].del /\ req'[Len(req')].at = "sent"
  <2>. isdelete \in BOOLEAN
    BY DEF TypeOK
  <2>. QED
    BY Sent
<1>2. OneDue' /\ FlagDue' /\ IdsAgreed' /\ IdsOrVain'
  BY <1>1 DEF OneDue, FlagDue, IdsAgreed, IdsOrVain, Active
<1>3. NewestDrawn'
  BY <1>1 DEF NewestDrawn, Active
<1>4. GoneAgreed' /\ AgreedSent'
  BY DEF Careful, GoneAgreed, AgreedSent
<1>. QED
  BY <1>2, <1>3, <1>4 DEF Careful

LEMMA SearchStep == ASSUME TableInv, Search PROVE TableInv'
<1>1. cur + 1 \in Tables /\ cur \in Tables \cup {0} /\ isdelete \in BOOLEAN
      /\ SendRequest(cur + 1, isdelete, cur) /\ cur' = cur + 1 /\ drawn' = cur
      /\ UNCHANGED <<isdelete, table, users, agreed, vain>>
  BY TableType DEF TableInv, TypeOK, Search, SearchUser
<1>2. TypeOK'
  BY <1>1, SearchType DEF TableInv, TypeOK, Search
<1>3. Newest'
  BY <1>1, SearchNewest
<1>4. ASSUME ~hasty' PROVE Careful'
  <2>1. ~hasty /\ Careful /\ \A i \in DOMAIN req : ~Active(i)
    BY <1>1, <1>4, NothingDue DEF TableInv
  <2>2. ~isdelete /\ agreed \cap users = {}
    BY <2>1 DEF Careful, FlagDue, AgreedSent, Active
  <2>. QED
    BY <1>1, <2>1, <2>2, SentCareful DEF TableInv
<1>. QED
  BY <1>2, <1>3, <1>4 DEF TableInv

LEMMA RedrawStep == ASSUME TableInv, Redraw PROVE TableInv'
<1>1. cur \in Tables /\ drawn \in Tables \cup {0} /\ isdelete \in BOOLEAN
      /\ SendRequest(cur, isdelete, drawn) /\ UNCHANGED <<isdelete, cur, table, users, agreed, vain>>
  BY TableType DEF TableInv, TypeOK, Redraw
<1>2. TypeOK'
  <2>1. req' \in Seq(Requests) /\ hasty' \in BOOLEAN
    BY <1>1, Sent DEF TableInv, TypeOK, SendRequest, Due
  <2>. QED
    BY <2>1 DEF TableInv, TypeOK, Redraw
<1>3. Newest'
  <2>1. /\ \A i \in DOMAIN req : req'[i] = req[i] /\ req[i].of <= cur
        /\ DOMAIN req' = DOMAIN req \cup {Len(req')} /\ req'[Len(req')].of = cur
    BY <1>1, Sent DEF TableInv, Newest
  <2>2. cur \in Nat
    BY TableType DEF TableInv
  <2>3. ASSUME NEW i \in DOMAIN req' PROVE req'[i].of <= cur
    <3>1. i \in DOMAIN req \/ i = Len(req')
      BY <2>1, <2>3
    <3>2. CASE i \in DOMAIN req
      BY <2>1, <3>2
    <3>3. CASE i = Len(req')
      <4>1. req'[i].of = cur
        BY <2>1, <3>3
      <4>. QED
        BY <2>2, <4>1
    <3>. QED
      BY <3>1, <3>2, <3>3
  <2>4. \A t \in Tables : t > cur' => ~table'[t].inited
    BY <1>1 DEF TableInv, Newest
  <2>. QED
    BY <1>1, <2>3, <2>4 DEF Newest
<1>4. ASSUME ~hasty' PROVE Careful'
  <2>1. ~hasty /\ Careful /\ \A i \in DOMAIN req : ~Active(i)
    BY <1>1, <1>4, NothingDue DEF TableInv
  <2>2. ~isdelete /\ agreed \cap users = {}
    BY <2>1 DEF Careful, FlagDue, AgreedSent, Active
  <2>. QED
    BY <1>1, <2>1, <2>2, SentCareful DEF TableInv
<1>. QED
  BY <1>2, <1>3, <1>4 DEF TableInv

\* What is on the screen at the yes is what the new table's request carries.
LEMMA ConfirmStep == ASSUME TableInv, Confirm PROVE TableInv'
<1>1. cur + 1 \in Tables /\ cur \in Tables \cup {0} /\ SendRequest(cur + 1, TRUE, cur)
      /\ cur' = cur + 1 /\ drawn' = cur /\ UNCHANGED <<table, users>>
      /\ isdelete' = TRUE /\ agreed' = agreed \cup Ticked(drawn) /\ vain' = (Ticked(drawn) = {})
  BY TableType DEF TableInv, Confirm, SearchUser
<1>2. TypeOK'
  <2>1. agreed' \subseteq Users
    BY <1>1, TableType DEF TableInv, TypeOK
  <2>2. dialogs' \in Nat
    BY DEF TableInv, TypeOK, Confirm
  <2>. QED
    BY <1>1, <2>1, <2>2, SearchType DEF TableInv, TypeOK, Confirm
<1>3. Newest'
  BY <1>1, SearchNewest
<1>4. ASSUME ~hasty' PROVE Careful'
  <2>1. ~hasty /\ Careful /\ \A i \in DOMAIN req : ~Active(i)
    BY <1>1, <1>4, NothingDue DEF TableInv
  <2>2. agreed \cap users = {} /\ drawn = cur
    BY <2>1 DEF Careful, NewestDrawn, AgreedSent, Active
  <2>3. ~table'[cur'].inited
    BY <1>1, TableType DEF TableInv, Newest
  <2>4. agreed' = agreed \cup Ticked(cur) /\ users' = users /\ cur' = cur + 1
        /\ req'[Len(req')].of = cur' /\ req'[Len(req')].del /\ req'[Len(req')].at = "sent"
        /\ req'[Len(req')].ids = Ticked(cur)
    BY <1>1, <2>2, Sent DEF TableInv
  <2>5. /\ DOMAIN req' = DOMAIN req \cup {Len(req')} /\ Len(req') \in Nat
        /\ \A i \in DOMAIN req : req'[i] = req[i] /\ i # Len(req')
    BY <1>1, Sent DEF TableInv
  <2>6. OneDue' /\ FlagDue' /\ NewestDrawn'
    <3>1. OneDue'
      BY <2>1, <2>4, <2>5 DEF OneDue, Active
    <3>2. FlagDue'
      BY <2>3, <2>4, <2>5 DEF FlagDue, Active
    <3>3. NewestDrawn'
      BY <2>4, <2>5 DEF NewestDrawn, Active
    <3>. QED
      BY <3>1, <3>2, <3>3
  <2>7. IdsAgreed' /\ GoneAgreed'
    BY <2>1, <2>4, <2>5 DEF Careful, IdsAgreed, GoneAgreed, Active
  <2>8. AgreedSent'
    BY <2>2, <2>4, <2>5 DEF AgreedSent
  <2>9. IdsOrVain'
    BY <1>1, <2>1, <2>2, <2>4, <2>5 DEF IdsOrVain, Active
  <2>. QED
    BY <2>6, <2>7, <2>8, <2>9 DEF Careful
<1>. QED
  BY <1>2, <1>3, <1>4 DEF TableInv

--------------------------------------------------------------------------------
(* The steps of a request under way.                                       *)

LEMMA AnswerStep == ASSUME TableInv, NEW i \in DOMAIN req, Answer(i) PROVE TableInv'
<1>1. PICK found \in SUBSET users' :
          req' = [req EXCEPT ![i] = [req[i] EXCEPT !.at = "answered", !.rows = found]]
  BY DEF Answer, TableInv, TypeOK
<1>2. DeletedIds(i) = (IF req[i].del THEN req[i].ids ELSE {}) /\ users' = users \ DeletedIds(i)
      /\ users' \subseteq Users
  BY DEF DeletedIds, Answer, TableInv, TypeOK
<1>3. [req[i] EXCEPT !.at = "answered", !.rows = found] \in Requests
  BY <1>2, RequestType DEF TableInv, Requests
<1>4. TypeOK'
  BY <1>1, <1>2, <1>3, Kept DEF TableInv, TypeOK, Answer
<1>5. /\ DOMAIN req' = DOMAIN req /\ Len(req') = Len(req)
      /\ req'[i].of = req[i].of /\ req'[i].del = req[i].del /\ req'[i].ids = req[i].ids
      /\ req'[i].at = "answered" /\ req[i].at = "sent"
      /\ \A j \in DOMAIN req : j # i => req'[j] = req[j]
  BY <1>1, <1>3, Kept, RequestType DEF TableInv, Requests, Answer
<1>6. Newest'
  BY <1>5 DEF TableInv, Newest, Answer
<1>7. ASSUME ~hasty PROVE Careful'
  <2>1. OneDue' /\ FlagDue' /\ IdsAgreed' /\ NewestDrawn'
    BY <1>5, <1>7 DEF TableInv, Careful, OneDue, FlagDue, IdsAgreed, NewestDrawn, Active, Answer
  <2>4. IdsOrVain'
    BY <1>5, <1>7 DEF TableInv, Careful, IdsOrVain, Active, Answer
  <2>2. GoneAgreed'
    BY <1>2, <1>5, <1>7 DEF TableInv, Careful, IdsAgreed, GoneAgreed, Active, Answer
  <2>3. AgreedSent'
    BY <1>2, <1>5, <1>7 DEF TableInv, Careful, AgreedSent, Answer
  <2>. QED
    BY <2>1, <2>2, <2>3, <2>4 DEF Careful
<1>. QED
  BY <1>4, <1>6, <1>7 DEF TableInv, Answer

LEMMA Ended ==
    ASSUME TypeOK, NEW i \in DOMAIN req, NEW o \in {"done", "failed"}, Ends(i, o)
    PROVE  /\ req' \in Seq(Requests) /\ DOMAIN req' = DOMAIN req /\ Len(req') = Len(req)
           /\ req'[i].of = req[i].of /\ req'[i].at = o
           /\ \A j \in DOMAIN req : j # i => req'[j] = req[j]
<1>. DEFINE r == [req[i] EXCEPT !.at = o, !.ids = {}, !.rows = {}]
<1>1. r \in Requests /\ r.of = req[i].of /\ r.at = o
  BY RequestType DEF Requests
<1>2. req' = [req EXCEPT ![i] = r]
  BY DEF Ends, TypeOK
<1>. HIDE DEF r
<1>. QED
  BY <1>1, <1>2, Kept

LEMMA FailStep == ASSUME TableInv, NEW i \in DOMAIN req, Fail(i) PROVE TableInv'
<1>1. TypeOK' /\ Newest'
  BY Ended DEF TableInv, TypeOK, Newest, Fail
<1>. QED
  BY <1>1 DEF TableInv, Fail

\* The first answer of a table takes the flag back; then nothing is under way.
LEMMA DrawStep == ASSUME TableInv, NEW i \in DOMAIN req, Draw(i) PROVE TableInv'
<1>1. /\ req[i].of \in Tables /\ req[i].of <= cur /\ DrawnRows(i).inited
      /\ DrawnRows(i) \in [rows : SUBSET Users, ticked : SUBSET Users, inited : BOOLEAN]
      /\ DrawnRows(i).ticked = {}
  BY RequestType DEF TableInv, Newest, DrawnRows
<1>2. /\ req' \in Seq(Requests) /\ DOMAIN req' = DOMAIN req /\ Len(req') = Len(req)
      /\ req'[i].of = req[i].of /\ req'[i].at = "done"
      /\ \A j \in DOMAIN req : j # i => req'[j] = req[j]
  BY Ended DEF TableInv, Draw
<1>3. TypeOK'
  <2>1. isdelete' \in BOOLEAN /\ closing' \in BOOLEAN
    BY DEF TableInv, TypeOK, Draw, InitComplete
  <2>2. drawn' \in 0 .. cur'
    BY <1>1 DEF TableInv, TypeOK, Tables, Draw
  <2>3. table' \in [Tables -> [rows : SUBSET Users, ticked : SUBSET Users, inited : BOOLEAN]]
        /\ \A t \in Tables : table'[t].ticked \subseteq table'[t].rows
    BY <1>1 DEF TableInv, TypeOK, Draw
  <2>. QED
    BY <1>2, <2>1, <2>2, <2>3 DEF TableInv, TypeOK, Draw
<1>4. Newest'
  <2>1. ASSUME NEW t \in Tables, t > cur PROVE ~table'[t].inited
    <3>1. t # req[i].of
      BY <1>1, <2>1, TableType DEF TableInv, Tables
    <3>2. table'[t] = table[t]
      BY <2>1, <3>1 DEF TableInv, TypeOK, Draw
    <3>. QED
      BY <2>1, <3>2 DEF TableInv, Newest
  <2>2. \A j \in DOMAIN req' : req'[j].of <= cur
    BY <1>1, <1>2 DEF TableInv, Newest
  <2>. QED
    BY <2>1, <2>2 DEF Newest, Draw
<1>5. ASSUME ~hasty PROVE Careful'
  <2>1. Careful /\ i = Len(req) /\ req[i].of = cur /\ \A j \in DOMAIN req : j # i => ~Active(j)
    BY <1>5 DEF TableInv, Careful, OneDue, Active, Draw
  <2>2. \A j \in DOMAIN req' : ~Active(j)'
    BY <1>2, <2>1 DEF Active
  <2>3. ~isdelete'
    BY <2>1 DEF Careful, FlagDue, Draw, InitComplete
  <2>4. agreed \cap users = {}
    BY <2>1 DEF Careful, AgreedSent, Active, Draw
  <2>. QED
    BY <1>2, <2>1, <2>2, <2>3, <2>4 DEF Careful, OneDue, FlagDue, IdsAgreed, IdsOrVain, NewestDrawn,
       GoneAgreed, AgreedSent, Draw
<1>. QED
  BY <1>3, <1>4, <1>5 DEF TableInv, Draw

--------------------------------------------------------------------------------
\* The boxes, the questions and the messages leave the requests alone.
LEMMA ScreenStep ==
    ASSUME TableInv,
           \/ \E u \in Users : Tick(u)
           \/ \E all \in BOOLEAN : CheckAll(all)
           \/ DeleteOnClick \/ Cancel \/ CloseAllMessage \/ UNCHANGED vars
    PROVE  TableInv'
<1>1. /\ UNCHANGED <<isdelete, cur, drawn, req, users, agreed, vain, hasty>>
      /\ \A t \in Tables : table'[t].inited = table[t].inited
  BY DEF Tick, CheckAll, DeleteOnClick, Cancel, CloseAllMessage, vars, TableInv, TypeOK
<1>2. TypeOK'
  <2>1. ASSUME NEW u \in Users, Tick(u) PROVE TypeOK'
    BY <2>1 DEF Tick, TableInv, TypeOK
  <2>2. ASSUME NEW all \in BOOLEAN, CheckAll(all) PROVE TypeOK'
    BY <2>2 DEF CheckAll, TableInv, TypeOK
  <2>3. CASE DeleteOnClick
    BY <2>3 DEF DeleteOnClick, TableInv, TypeOK
  <2>4. CASE Cancel
    BY <2>4 DEF Cancel, TableInv, TypeOK
  <2>5. CASE CloseAllMessage
    BY <2>5 DEF CloseAllMessage, TableInv, TypeOK
  <2>6. CASE UNCHANGED vars
    BY <2>6 DEF vars, TableInv, TypeOK
  <2>. QED
    BY <2>1, <2>2, <2>3, <2>4, <2>5, <2>6
<1>3. Newest' /\ (Careful /\ FlagDue => FlagDue')
  <2>1. Newest'
    BY <1>1 DEF TableInv, Newest
  <2>2. ASSUME Careful, FlagDue, isdelete PROVE cur \in Tables
    <3>1. Len(req) \in DOMAIN req /\ req[Len(req)].of = cur
      BY <2>2 DEF Careful, OneDue, FlagDue
    <3>. QED
      BY <3>1, RequestType DEF TableInv
  <2>. QED
    BY <1>1, <2>1, <2>2 DEF FlagDue, Active
<1>4. Careful => Careful'
  BY <1>1, <1>3 DEF Careful, OneDue, FlagDue, IdsAgreed, IdsOrVain, NewestDrawn, GoneAgreed,
     AgreedSent, Active
<1>. QED
  BY <1>1, <1>2, <1>3, <1>4 DEF TableInv

LEMMA StepHolds == TableInv /\ [Next]_vars => TableInv'
BY SearchStep, RedrawStep, ConfirmStep, AnswerStep, FailStep, DrawStep, ScreenStep DEF Next, Admin

THEOREM TableCorrect == Spec => []TableInv
<1>. QED BY InitHolds, StepHolds, PTL DEF Spec

\* Types, and that a ticked box belongs to a row.
THEOREM TypeCorrect == Spec => []TypeOK
<1>1. TableInv => TypeOK
  BY DEF TableInv
<1>. QED BY <1>1, TableCorrect, PTL

\* Nothing is deleted that was not on the screen, ticked, at a yes.
THEOREM OnlyAgreedCorrect == Spec => []OnlyAgreed
<1>1. TableInv => OnlyAgreed
  BY DEF TableInv, Careful, GoneAgreed, OnlyAgreed
<1>. QED BY <1>1, TableCorrect, PTL

\* The flag does not outlive its deletion.
THEOREM FlagEndsWithAnswerCorrect == Spec => []FlagEndsWithAnswer
<1>1. TableInv => FlagEndsWithAnswer
  BY DEF TableInv, Careful, FlagDue, OneDue, Active, FlagEndsWithAnswer
<1>. QED BY <1>1, TableCorrect, PTL

\* The message that a deletion succeeded comes when all that was agreed is gone, and
\* after a request that deleted something unless nothing was ticked at the yes.
THEOREM ReportIsTrueCorrect == Spec => ReportIsTrue
<1>. DEFINE Deleted == \E i \in DOMAIN req : /\ req[i].at = "answered" /\ req'[i].at = "done"
                                            /\ req[i].del /\ req[i].ids # {}
<1>1. ASSUME TableInv, [Next]_vars
      PROVE  ~closing /\ closing' /\ ~hasty => agreed \cap users = {} /\ (vain \/ Deleted)
  <2>. SUFFICES ASSUME ~closing, closing', ~hasty
                PROVE  agreed \cap users = {} /\ (vain \/ Deleted)
    OBVIOUS
  <2>1. PICK i \in DOMAIN req : Draw(i)
    BY <1>1 DEF Next, Admin, Search, SearchUser, Redraw, Tick, CheckAll, DeleteOnClick, Confirm,
       Cancel, CloseAllMessage, Answer, Fail, vars
  <2>2. i = Len(req) /\ req[i].at = "answered"
    BY <1>1, <2>1 DEF TableInv, Careful, OneDue, Active, Draw
  <2>3. agreed \cap users = {}
    BY <1>1, <2>1, <2>2 DEF TableInv, Careful, OneDue, AgreedSent, Active
  <2>4. isdelete
    BY <2>1 DEF Draw, InitComplete
  <2>5. req[i].del /\ (req[i].ids # {} \/ vain)
    BY <1>1, <2>2, <2>4 DEF TableInv, Careful, FlagDue, IdsOrVain, Active
  <2>6. req'[i].at = "done"
    BY <1>1, <2>1, Ended DEF TableInv, Draw
  <2>. QED
    BY <2>2, <2>3, <2>5, <2>6
<1>. QED BY <1>1, TableCorrect, PTL DEF Spec, ReportIsTrue

================================================================================
