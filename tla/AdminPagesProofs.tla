-------------------------- MODULE AdminPagesProofs --------------------------
(* Proofs about AdminPages, for any finite number of browsers and any number *)
(* of users, clients, requests, failures and expiries.                       *)
EXTENDS AdminPages, FiniteSetTheorems, TLAPS

Lists == {"user/users_list.html", "client/clients_list.html"}

UserForms == {"user/user_new.html", "user/user_edit.html"}

\* A page that the handlers may show, where the clients are c, the last salt is
\* s and f requests have met a failure: a list has no token, and another form
\* has none only where FormWithoutToken allows it.
Fine(p, c, s, f) ==
  /\ p.options \subseteq UserIds \cup ClientIds
  /\ p.token \in 0 .. s
  /\ p.template \in {"panic", "broken"} => f > 0
  /\ p.template \in UserForms /\ p.cause \notin {"fetch", "save", "hash"} => p.options = c
  /\ p.template \in Lists => p.token = NoSalt
  /\ p.template \in WithForm /\ p.token = NoSalt => FormWithoutToken(p)

Pages == \A b \in Browsers : Fine(page[b], clients, salts, faults)

Salted == { b \in Browsers : session[b].salt # NoSalt }

\* A salt is handed out to a session that has none.
SaltsCounted == salts <= Cardinality(Salted) + expiries

\* The inductive invariant. It speaks of the clients of this moment, and a page
\* of those of its rendering: no request changes them, for the list of clients
\* has no token and the form for a new client lacks inputs.
IInv == TypeOK /\ SaltsCounted /\ Pages

\* What a request of b does to the sessions.
KeepsSessions(b) ==
  \/ UNCHANGED <<session, salts>>
  \/ /\ \E admin \in BOOLEAN : session' = [session EXCEPT ![b].admin = admin]
     /\ UNCHANGED salts
  \/ /\ session' = [session EXCEPT ![b].salt = Salt(b)]
     /\ salts' = IF Salt(b) > salts THEN Salt(b) ELSE salts

\* What b is shown: a fine page, and a refusal only of a form or of a button.
Shows(b) ==
  \E p :
    /\ page' = [page EXCEPT ![b] = p]
    /\ Fine(p, clients, salts', faults')
    /\ p.template = "mismatch" =>
         \/ page[b].template \in Lists
         \/ page[b].template \in WithForm /\ ~ CSRF(b)

\* What a request of b does to the tables and the counters.
Served ==
  /\ clients' = clients /\ tasks' = tasks
  /\ users' \in [UserIds -> ClientIds \cup {NoUser}]
  /\ requests' \in Nat /\ faults' \in Nat /\ faults <= faults'
  /\ UNCHANGED expiries

-----------------------------------------------------------------------------
(* Lemmas *)

\* A session that is given a salt is one that had none, and the salt is new.
LEMMA SaltOf ==
  ASSUME TypeOK, NEW b \in Browsers
  PROVE  /\ salts \in Nat /\ session[b].salt \in 0 .. salts /\ session[b].admin \in BOOLEAN
         /\ Salt(b) \in Nat \ {0}
         /\ (IF Salt(b) > salts THEN Salt(b) ELSE salts) =
              IF session[b].salt = NoSalt THEN salts + 1 ELSE salts
         /\ Salt(b) <= IF session[b].salt = NoSalt THEN salts + 1 ELSE salts
  <1>1. salts \in Nat
    <2>1. IsFiniteSet(Browsers)
      BY AdminPagesAssumption
    <2>2. Cardinality(Browsers) \in Nat
      BY <2>1, FS_CardinalityType
    <2> QED BY <2>2 DEF TypeOK
  <1>2. session[b].salt \in 0 .. salts /\ session[b].admin \in BOOLEAN
    BY DEF TypeOK
  <1> QED BY <1>1, <1>2 DEF Salt, NoSalt

\* The browsers with a salt are finitely many, and no more than there are.
LEMMA SaltedCounts ==
  ASSUME IInv
  PROVE  /\ IsFiniteSet(Salted) /\ Cardinality(Salted) \in Nat
         /\ Cardinality(Browsers) \in Nat /\ Cardinality(Salted) <= Cardinality(Browsers)
         /\ salts \in Nat /\ expiries \in Nat
  <1>1. IsFiniteSet(Browsers) /\ Cardinality(Browsers) \in Nat
    BY AdminPagesAssumption, FS_CardinalityType
  <1>2. Salted \subseteq Browsers
    BY DEF Salted
  <1>3. IsFiniteSet(Salted) /\ Cardinality(Salted) <= Cardinality(Browsers)
    BY <1>1, <1>2, FS_Subset
  <1>4. Cardinality(Salted) \in Nat
    BY <1>3, FS_CardinalityType
  <1> QED BY <1>1, <1>3, <1>4 DEF IInv, TypeOK

\* More salts and more failures make no page worse.
LEMMA FineStays ==
  ASSUME NEW p, NEW c, NEW s \in Nat, NEW t \in Nat, NEW f \in Nat, NEW g \in Nat,
         s <= t, f <= g, Fine(p, c, s, f)
  PROVE  Fine(p, c, t, g)
  BY DEF Fine
\* A request that does no more than that keeps the invariant.
LEMMA RequestKeeps ==
  ASSUME IInv, NEW b \in Browsers, Served, KeepsSessions(b), Shows(b)
  PROVE  IInv'
  <1> DEFINE granted == IF session[b].salt = NoSalt THEN salts + 1 ELSE salts
  <1>0. /\ TypeOK /\ SaltsCounted /\ Pages
        /\ IsFiniteSet(Salted) /\ Cardinality(Salted) \in Nat
        /\ Cardinality(Browsers) \in Nat /\ Cardinality(Salted) <= Cardinality(Browsers)
        /\ salts \in Nat /\ expiries \in Nat /\ faults \in Nat /\ faults' \in Nat
    BY SaltedCounts DEF IInv, TypeOK, Served
  <1>1. session \in [Browsers -> [ salt : 0 .. salts, admin : BOOLEAN ]]
    BY <1>0 DEF TypeOK
  <1>2. /\ salts' \in {salts, granted} /\ salts' \in Nat /\ salts <= salts'
        /\ session' \in [Browsers -> [ salt : 0 .. salts', admin : BOOLEAN ]]
        /\ salts' <= Cardinality(Salted') + expiries
        /\ Cardinality(Salted') \in Nat /\ Cardinality(Salted') <= Cardinality(Browsers)
    <2>1. CASE /\ UNCHANGED salts
               /\ \/ UNCHANGED session
                  \/ \E admin \in BOOLEAN : session' = [session EXCEPT ![b].admin = admin]
      <3>1. session' \in [Browsers -> [ salt : 0 .. salts, admin : BOOLEAN ]]
        BY <1>1, <2>1
      <3>2. \A s \in Browsers : session'[s].salt = session[s].salt
        BY <1>1, <2>1
      <3>3. Salted' = Salted
        BY <3>2 DEF Salted
      <3> QED BY <1>0, <2>1, <3>1, <3>3 DEF SaltsCounted
    <2>2. CASE /\ session' = [session EXCEPT ![b].salt = Salt(b)]
               /\ salts' = IF Salt(b) > salts THEN Salt(b) ELSE salts
      <3>1. salts' = granted /\ granted \in Nat /\ salts <= granted /\ Salt(b) \in 0 .. granted
        BY <1>0, <2>2, SaltOf
      <3>2. session' \in [Browsers -> [ salt : 0 .. salts', admin : BOOLEAN ]]
        <4>1. \A s \in Browsers : session[s] \in [ salt : 0 .. salts', admin : BOOLEAN ]
          BY <1>0, <1>1, <3>1
        <4>2. [session[b] EXCEPT !.salt = Salt(b)] \in [ salt : 0 .. salts', admin : BOOLEAN ]
          BY <3>1, <4>1
        <4> QED BY <1>1, <2>2, <4>1, <4>2
      <3>3. Salted' = Salted \cup {b}
        <4>1. session'[b].salt = Salt(b) /\ \A s \in Browsers \ {b} : session'[s] = session[s]
          BY <1>1, <2>2
        <4>2. Salt(b) # NoSalt
          BY <1>0, SaltOf DEF NoSalt
        <4> QED BY <4>1, <4>2 DEF Salted
      <3>4. /\ Cardinality(Salted') = IF b \in Salted THEN Cardinality(Salted)
                                                       ELSE Cardinality(Salted) + 1
        BY <1>0, <3>3, FS_AddElement
      <3>5. b \in Salted <=> session[b].salt # NoSalt
        BY DEF Salted
      <3>6. Salted' \subseteq Browsers /\ IsFiniteSet(Browsers)
        BY AdminPagesAssumption, <3>3 DEF Salted
      <3>7. Cardinality(Salted') <= Cardinality(Browsers)
        BY <3>6, FS_Subset
      <3> QED BY <1>0, <3>1, <3>2, <3>4, <3>5, <3>7 DEF SaltsCounted
    <2> QED BY <2>1, <2>2 DEF KeepsSessions
  <1>3. PICK p : page' = [page EXCEPT ![b] = p] /\ Fine(p, clients, salts', faults')
    BY DEF Shows
  <1>4. ASSUME NEW s \in Browsers PROVE Fine(page'[s], clients, salts', faults')
    <2>1. page'[s] = IF s = b THEN p ELSE page[s]
      BY <1>0, <1>3 DEF TypeOK
    <2>2. Fine(page[s], clients, salts', faults')
      BY <1>0, <1>2, FineStays DEF Pages, Served
    <2> QED BY <1>3, <2>1, <2>2
  <1>5. Pages'
    BY <1>4 DEF Pages, Served
  <1>6. SaltsCounted'
    BY <1>2 DEF SaltsCounted, Served
  <1>7. TypeOK'
    <2>1. \A s \in Browsers : page'[s].options \subseteq UserIds \cup ClientIds
                              /\ page'[s].token \in 0 .. salts'
      BY <1>4 DEF Fine
    <2>2. salts' \in 0 .. Cardinality(Browsers) + expiries'
      BY <1>0, <1>2 DEF Served
    <2>3. DOMAIN page' = Browsers
      BY <1>0, <1>3 DEF TypeOK
    <2> QED BY <1>0, <1>2, <2>1, <2>2, <2>3 DEF TypeOK, Served
  <1> QED BY <1>5, <1>6, <1>7 DEF IInv

\* A page rendered with a token may be anything but a list or a refusal; a form
\* for a user offers the clients unless its cause excuses it.
LEMMA WithToken ==
  ASSUME IInv, NEW b \in Browsers, NEW template \in Templates \ Lists, NEW row,
         NEW options, options \subseteq UserIds \cup ClientIds, NEW cause,
         template \in UserForms /\ cause \notin {"fetch", "save", "hash"} => options = clients,
         HTMLWithToken(b, template, row, options, cause)
  PROVE  KeepsSessions(b) /\ Shows(b)
  <1>1. page' = [page EXCEPT ![b] = Page(template, row, options, Salt(b), cause)]
    BY DEF HTMLWithToken, HTML, Show, Page, createRenderer
  <1>2. /\ session' = [session EXCEPT ![b].salt = Salt(b)]
        /\ salts' = IF Salt(b) > salts THEN Salt(b) ELSE salts
    BY DEF HTMLWithToken
  <1>3. Salt(b) \in 0 .. salts' /\ Salt(b) # NoSalt
    BY <1>2, SaltOf DEF IInv, NoSalt
  <1>4. template \notin {"panic", "broken", "mismatch"}
    BY DEF Templates
  <1>5. Fine(Page(template, row, options, Salt(b), cause), clients, salts', faults')
    BY <1>3, <1>4 DEF Fine, Page
  <1>6. Page(template, row, options, Salt(b), cause).template # "mismatch"
    BY <1>4 DEF Page
  <1> QED BY <1>1, <1>2, <1>5, <1>6 DEF KeepsSessions, Shows

\* One rendered without a token may have no form for a user, and another form
\* only where FormWithoutToken allows it; one without a template needs a failure.
LEMMA WithoutToken ==
  ASSUME IInv, NEW b \in Browsers, NEW template, NEW row, NEW cause,
         template \in Templates \/ faults' > 0,
         template \notin UserForms,
         template \in WithForm => FormWithoutToken(Page(template, row, {}, NoSalt, cause)),
         HTMLWithoutToken(b, template, row, cause)
  PROVE  KeepsSessions(b) /\ Shows(b)
  <1>1. UNCHANGED <<session, salts>>
    BY DEF HTMLWithoutToken
  <1>2. NoSalt \in 0 .. salts'
    BY <1>1, SaltedCounts DEF NoSalt
  <1>3. CASE template \in Templates
    <2> DEFINE shown == Page(template, row, {}, NoSalt, cause)
    <2>1. page' = [page EXCEPT ![b] = Page(template, row, {}, NoSalt, cause)]
      BY <1>3 DEF HTMLWithoutToken, HTML, Show, Page, createRenderer
    <2>2. template \notin {"panic", "broken", "mismatch"}
      BY <1>3 DEF Templates
    <2>3. Fine(shown, clients, salts', faults')
      <3>1. /\ shown.template = template /\ shown.options = {} /\ shown.token = NoSalt
            /\ template \in WithForm => FormWithoutToken(shown)
        BY DEF Page
      <3> HIDE DEF shown
      <3> QED BY <1>2, <2>2, <3>1 DEF Fine
    <2>4. Page(template, row, {}, NoSalt, cause).template # "mismatch"
      BY <2>2 DEF Page
    <2> QED BY <1>1, <2>1, <2>3, <2>4 DEF KeepsSessions, Shows
  <1>4. CASE template \notin Templates
    <2>1. page' = [page EXCEPT ![b] = Plain("panic")]
      BY <1>4 DEF HTMLWithoutToken, HTML, Show, Page, createRenderer
    <2>2. Fine(Plain("panic"), clients, salts', faults')
      BY <1>2, <1>4 DEF Fine, Plain, Page, UserForms, Lists, WithForm
    <2>3. Plain("panic").template # "mismatch"
      BY DEF Plain, Page
    <2> QED BY <1>1, <2>1, <2>2, <2>3 DEF KeepsSessions, Shows
  <1> QED BY <1>3, <1>4

\* The page of a task that could not be read or saved.
LEMMA TaskPages ==
  ASSUME IInv, NEW b \in Browsers, NEW row, NEW cause \in {"fetch", "save"},
         HTMLWithoutToken(b, "recognition_task/edit.html", row, cause)
  PROVE  KeepsSessions(b) /\ Shows(b)
  <1>1. "recognition_task/edit.html" \in Templates \ UserForms
    BY DEF Templates, UserForms
  <1>2. FormWithoutToken(Page("recognition_task/edit.html", row, {}, NoSalt, cause))
    BY DEF FormWithoutToken, Page
  <1> QED BY <1>1, <1>2, WithoutToken

\* Other answers: a panic or a page that breaks off needs a failure, a refusal a
\* form or a button.
LEMMA Answers ==
  ASSUME IInv, NEW b \in Browsers, NEW what \in {"redirect", "404", "mismatch", "broken", "panic"},
         what \in {"broken", "panic"} => faults' > 0,
         what = "mismatch" =>
           \/ page[b].template \in Lists
           \/ page[b].template \in WithForm /\ ~ CSRF(b),
         Show(b, Plain(what)), salts' \in Nat
  PROVE  Shows(b)
  <1>1. page' = [page EXCEPT ![b] = Plain(what)]
    BY DEF Show
  <1>2. Fine(Plain(what), clients, salts', faults')
    BY DEF Fine, Plain, Page, UserForms, Lists, WithForm, NoSalt
  <1>3. Plain(what).template = what
    BY DEF Plain, Page
  <1> QED BY <1>1, <1>2, <1>3 DEF Shows
\* A request that is served counts, and so does each failure.
LEMMA Serves ==
  ASSUME IInv, NEW fails, Serve(fails)
  PROVE  /\ requests' \in Nat /\ faults' \in Nat /\ faults <= faults'
         /\ fails # 0 => faults' > 0
         /\ UNCHANGED expiries
  BY DEF IInv, TypeOK, Serve

\* Pages that are opened.
LEMMA OpensShows ==
  ASSUME IInv, NEW b \in Browsers, Opens(b)
  PROVE  Served /\ KeepsSessions(b) /\ Shows(b)
  <1>0. /\ clients \subseteq UserIds \cup ClientIds /\ ExistingUsers \subseteq UserIds
        /\ salts \in Nat /\ users \in [UserIds -> ClientIds \cup {NoUser}]
    BY SaltedCounts DEF IInv, TypeOK, ExistingUsers
  <1>1. /\ \E f : Serve(f)
        /\ UNCHANGED tables
    BY DEF Opens, ShowLoginPage, RedirectToLogin, PerformLogout, NewClient, Dashboard, ListUsers,
       NewUser, ViewUser, EditUser, ListClients, ViewClient, EditClient, ListRecognitionTasks,
       EditRecognitionTask, Get
  <1>2. Served
    BY <1>0, <1>1, Serves DEF Served, tables
  <1>3. CASE ShowLoginPage(b) \/ NewClient(b)
    <2>1. PICK template \in {"login.html", "client/client_new.html"} :
            HTMLWithToken(b, template, NoRow, {}, "none")
      BY <1>3 DEF ShowLoginPage, NewClient
    <2>2. template \in Templates \ Lists /\ template \notin UserForms
      BY DEF Templates, Lists, UserForms
    <2> QED BY <1>2, <2>1, <2>2, WithToken
  <1>4. CASE RedirectToLogin(b)
    BY <1>0, <1>2, <1>4, Answers DEF RedirectToLogin, Answer, KeepsSessions
  <1>5. CASE PerformLogout(b)
    <2>1. KeepsSessions(b)
      BY <1>5 DEF PerformLogout, KeepsSessions
    <2>2. Show(b, Plain("redirect")) /\ salts' \in Nat
      BY <1>0, <1>5 DEF PerformLogout
    <2> QED BY <1>2, <2>1, <2>2, Answers
  <1>6. ASSUME NEW f \in Failures, Dashboard(b, f) PROVE Served /\ KeepsSessions(b) /\ Shows(b)
    <2>1. "dashboard.html" \in Templates /\ "dashboard.html" \notin UserForms \cup WithForm
      BY DEF Templates, UserForms, WithForm
    <2>2. HTMLWithoutToken(b, "dashboard.html", NoRow, "none")
      BY <1>6 DEF Dashboard
    <2> QED BY <1>2, <2>1, <2>2, WithoutToken
  <1>7. ASSUME NEW f \in Failures, ListUsers(b, f) \/ ListClients(b, f)
        PROVE  Served /\ KeepsSessions(b) /\ Shows(b)
    <2>1. CASE f = 0
      <3>1. PICK template \in Lists, options \in {ExistingUsers, clients} :
              /\ HTML(b, Page(template, NoRow, options, NoSalt, "none"))
              /\ UNCHANGED <<session, salts>>
        BY <1>7, <2>1 DEF ListUsers, ListClients, Lists
      <3>2. /\ template \in Templates
            /\ template \notin {"panic", "broken", "mismatch"} \cup UserForms \cup WithForm
        BY DEF Lists, Templates, UserForms, WithForm
      <3>3. page' = [page EXCEPT ![b] = Page(template, NoRow, options, NoSalt, "none")]
        BY <3>1, <3>2 DEF HTML, Show, Page, createRenderer
      <3>4. Fine(Page(template, NoRow, options, NoSalt, "none"), clients, salts', faults')
        BY <1>0, <3>1, <3>2 DEF Fine, Page, NoSalt
      <3>5. Page(template, NoRow, options, NoSalt, "none").template # "mismatch"
        BY <3>2 DEF Page
      <3> QED BY <1>2, <3>1, <3>3, <3>4, <3>5 DEF KeepsSessions, Shows
    <2>2. CASE f # 0
      <3>1. PICK template \in {"users.html", "clients.html"} :
              HTMLWithoutToken(b, template, NoRow, "fetch")
        BY <1>7, <2>2 DEF ListUsers, ListClients
      <3>2. template \notin UserForms \cup WithForm
        BY DEF UserForms, WithForm
      <3>3. faults' > 0
        BY <1>7, <2>2, Serves DEF ListUsers, ListClients, Get
      <3> QED BY <1>2, <3>1, <3>2, <3>3, WithoutToken
    <2> QED BY <2>1, <2>2
  <1>8. ASSUME NEW f \in Failures, NewUser(b, f) PROVE Served /\ KeepsSessions(b) /\ Shows(b)
    <2>1. PICK options \in SUBSET clients : \E cause :
            /\ HTMLWithToken(b, "user/user_new.html", NoRow, options, cause)
            /\ cause \notin {"fetch", "save", "hash"} => options = clients
      BY <1>8 DEF NewUser
    <2>2. "user/user_new.html" \in Templates \ Lists
      BY DEF Templates, Lists
    <2> QED BY <1>0, <1>2, <2>1, <2>2, WithToken
  <1>9. ASSUME NEW f \in Failures, NEW u \in UserIds, EditUser(b, u, f)
        PROVE  Served /\ KeepsSessions(b) /\ Shows(b)
    <2>1. CASE Answer(b, "404")
      BY <1>0, <1>2, <2>1, Answers DEF Answer, KeepsSessions
    <2>2. CASE \E options \in SUBSET clients : \E cause :
                 /\ HTMLWithToken(b, "user/user_edit.html", u, options, cause)
                 /\ cause \notin {"fetch", "save", "hash"} => options = clients
      <3>1. "user/user_edit.html" \in Templates \ Lists
        BY DEF Templates, Lists
      <3> QED BY <1>0, <1>2, <2>2, <3>1, WithToken
    <2> QED BY <1>9, <2>1, <2>2 DEF EditUser
  <1>10. ASSUME NEW f \in Failures, NEW i,
                ViewUser(b, i, f) \/ ViewClient(b, i, f) \/ ListRecognitionTasks(b, f)
         PROVE  Served /\ KeepsSessions(b) /\ Shows(b)
    <2>1. CASE Answer(b, "404")
      BY <1>0, <1>2, <2>1, Answers DEF Answer, KeepsSessions
    <2>2. CASE \E template \in {"user/user_view.html", "client/client_view.html",
                                "recognition_task/tasks.html"} : \E row, cause :
                 HTMLWithoutToken(b, template, row, cause)
      <3>1. PICK template \in {"user/user_view.html", "client/client_view.html",
                                "recognition_task/tasks.html"} : \E row, cause :
              HTMLWithoutToken(b, template, row, cause)
        BY <2>2
      <3>2. template \in Templates /\ template \notin UserForms \cup WithForm
        BY DEF Templates, UserForms, WithForm
      <3> QED BY <1>2, <3>1, <3>2, WithoutToken
    <2> QED BY <1>10, <2>1, <2>2 DEF ViewUser, ViewClient, ListRecognitionTasks
  <1>11. ASSUME NEW f \in Failures, NEW i, EditClient(b, i, f) \/ EditRecognitionTask(b, i, f)
         PROVE  Served /\ KeepsSessions(b) /\ Shows(b)
    <2>1. CASE Answer(b, "404")
      BY <1>0, <1>2, <2>1, Answers DEF Answer, KeepsSessions
    <2>2. CASE HTMLWithoutToken(b, "recognition_task/edit.html", NoRow, "fetch")
      BY <1>2, <2>2, TaskPages
    <2>3. CASE \E template \in {"client/client_edit.html", "recognition_task/edit.html"} :
                 HTMLWithToken(b, template, i, {}, "none")
      <3>1. PICK template \in {"client/client_edit.html", "recognition_task/edit.html"} :
              HTMLWithToken(b, template, i, {}, "none")
        BY <2>3
      <3>2. template \in Templates \ Lists /\ template \notin UserForms
        BY DEF Templates, Lists, UserForms
      <3> QED BY <1>2, <3>1, <3>2, WithToken
    <2> QED BY <1>11, <2>1, <2>2, <2>3 DEF EditClient, EditRecognitionTask
  <1> QED BY <1>3, <1>4, <1>5, <1>6, <1>7, <1>8, <1>9, <1>10, <1>11 DEF Opens
\* The button of a list is always refused: a list has no token.
LEMMA ListsRefuse ==
  ASSUME IInv, NEW b \in Browsers, page[b].template \in Lists
  PROVE  ~ CSRF(b)
  BY DEF IInv, Pages, Fine, CSRF, NoSalt

\* Forms that are sent.
LEMMA SendsShows ==
  ASSUME IInv, NEW b \in Browsers, Sends(b)
  PROVE  Served /\ KeepsSessions(b) /\ Shows(b)
  <1>0. /\ clients \subseteq UserIds \cup ClientIds /\ ExistingUsers \subseteq UserIds
        /\ salts \in Nat /\ users \in [UserIds -> ClientIds \cup {NoUser}]
    BY SaltedCounts DEF IInv, TypeOK, ExistingUsers
  <1>1. ASSUME \E f : Serve(f), UNCHANGED tables PROVE Served
    BY <1>0, <1>1, Serves DEF Served, tables
  <1>2. ASSUME NEW what \in {"redirect", "404"}, Answer(b, what)
        PROVE  KeepsSessions(b) /\ Shows(b)
    BY <1>0, <1>2, Answers DEF Answer, KeepsSessions
  <1>3. ASSUME HTMLWithoutToken(b, "login.html", NoRow, "login")
        PROVE  KeepsSessions(b) /\ Shows(b)
    <2>1. "login.html" \in Templates \ UserForms
      BY DEF Templates, UserForms
    <2>2. FormWithoutToken(Page("login.html", NoRow, {}, NoSalt, "login"))
      BY DEF FormWithoutToken, Page
    <2> QED BY <1>3, <2>1, <2>2, WithoutToken
  <1>4. ASSUME NEW template \in UserForms, NEW row, NEW options \in SUBSET clients, NEW cause,
               cause \notin {"fetch", "save", "hash"} => options = clients,
               HTMLWithToken(b, template, row, options, cause)
        PROVE  KeepsSessions(b) /\ Shows(b)
    <2>1. template \in Templates \ Lists
      BY DEF UserForms, Templates, Lists
    <2> QED BY <1>0, <1>4, <2>1, WithToken
  <1>5. ASSUME NEW template \in {"client/client_new.html", "client/client_edit.html"}, NEW row,
               NEW cause, HTMLWithToken(b, template, row, {}, cause)
        PROVE  KeepsSessions(b) /\ Shows(b)
    <2>1. template \in Templates \ Lists /\ template \notin UserForms
      BY DEF UserForms, Templates, Lists
    <2> QED BY <1>5, <2>1, WithToken
  <1>6. CASE Mismatch(b)
    <2>1. Served
      BY <1>1, <1>6 DEF Mismatch
    <2>2. page[b].template \in WithForm /\ ~ CSRF(b) /\ Answer(b, "mismatch")
      BY <1>6 DEF Mismatch
    <2> QED BY <1>0, <2>1, <2>2, Answers DEF Answer, KeepsSessions
  <1>7. ASSUME NEW f \in Failures, NEW known \in BOOLEAN, PerformLogin(b, known, f)
        PROVE  Served /\ KeepsSessions(b) /\ Shows(b)
    <2>1. Served
      BY <1>1, <1>7 DEF PerformLogin
    <2>2. CASE known /\ f = 0
      <3>1. KeepsSessions(b) /\ Show(b, Plain("redirect")) /\ salts' = salts
        BY <1>7, <2>2 DEF PerformLogin, KeepsSessions
      <3> QED BY <1>0, <2>1, <3>1, Answers
    <2>3. CASE ~ (known /\ f = 0)
      BY <1>3, <1>7, <2>1, <2>3 DEF PerformLogin
    <2> QED BY <2>2, <2>3
  <1>8. ASSUME NEW f \in Failures, NEW values \in Values, NEW c \in ClientIds,
               CreateUser(b, values, c, f) \/ UpdateUser(b, values, c, f)
        PROVE  Served /\ KeepsSessions(b) /\ Shows(b)
    <2>1. \/ UNCHANGED tables
          \/ /\ Answer(b, "redirect")
             /\ \E u \in UserIds : users' = [users EXCEPT ![u] = c]
             /\ UNCHANGED <<clients, tasks>>
      BY <1>8 DEF CreateUser, UpdateUser, ExistingUsers
    <2>2. \E g : Serve(g)
      BY <1>8 DEF CreateUser, UpdateUser, Post
    <2>3. Served
      <3>1. CASE UNCHANGED tables
        BY <1>1, <2>2, <3>1
      <3>2. CASE /\ \E u \in UserIds : users' = [users EXCEPT ![u] = c]
                 /\ UNCHANGED <<clients, tasks>>
        BY <1>0, <2>2, <3>2, Serves DEF Served
      <3> QED BY <2>1, <3>1, <3>2
    <2>4. \/ \E what \in {"redirect", "404"} : Answer(b, what)
          \/ \E template \in UserForms, options \in SUBSET clients : \E row, cause :
               /\ cause \notin {"fetch", "save", "hash"} => options = clients
               /\ HTMLWithToken(b, template, row, options, cause)
      <3>1. ASSUME NEW template \in UserForms, NEW row,
                   \/ UserInvalid(b, template, row, f)
                   \/ \E cause \in {"save", "hash"} : HTMLWithToken(b, template, row, {}, cause)
            PROVE  \E options \in SUBSET clients : \E cause :
                     /\ cause \notin {"fetch", "save", "hash"} => options = clients
                     /\ HTMLWithToken(b, template, row, options, cause)
        BY <3>1 DEF UserInvalid
      <3>2. "user/user_new.html" \in UserForms /\ "user/user_edit.html" \in UserForms
        BY DEF UserForms
      <3>3. \/ Answer(b, "redirect") \/ Answer(b, "404")
            \/ \E template \in UserForms : \E row :
                 \/ UserInvalid(b, template, row, f)
                 \/ \E cause \in {"save", "hash"} : HTMLWithToken(b, template, row, {}, cause)
        BY <1>8, <3>2 DEF CreateUser, UpdateUser
      <3>4. ASSUME NEW template \in UserForms, NEW row,
                   \/ UserInvalid(b, template, row, f)
                   \/ \E cause \in {"save", "hash"} : HTMLWithToken(b, template, row, {}, cause)
            PROVE  \E again \in UserForms, options \in SUBSET clients : \E r, cause :
                     /\ cause \notin {"fetch", "save", "hash"} => options = clients
                     /\ HTMLWithToken(b, again, r, options, cause)
        BY <3>1, <3>4, Zenon
      <3> QED BY <3>3, <3>4
    <2> QED BY <1>2, <1>4, <2>3, <2>4
  <1>9. ASSUME NEW f \in Failures, NEW i, DeleteUser(b, i, f) \/ DeleteClient(b, i, f)
        PROVE  Served /\ KeepsSessions(b) /\ Shows(b)
    <2>1. page[b].template \in Lists
      BY <1>9 DEF DeleteUser, DeleteClient, Lists
    <2>2. ~ CSRF(b)
      BY <2>1, ListsRefuse
    <2>3. Serve(f) /\ Answer(b, "mismatch") /\ UNCHANGED tables
      BY <1>9, <2>2 DEF DeleteUser, DeleteClient
    <2> QED BY <1>0, <1>1, <2>1, <2>3, Answers DEF Answer, KeepsSessions
  <1>10. ASSUME NEW f \in Failures, NEW values \in {"valid", "invalid"}, CreateClient(b, values, f)
         PROVE  Served /\ KeepsSessions(b) /\ Shows(b)
    <2>1. ~ ClientFormInput(b, values)
      BY <1>10 DEF CreateClient, Post, ClientFormInput, ClientInputs
    <2>2. /\ HTMLWithToken(b, "client/client_new.html", NoRow, {}, "validation")
          /\ UNCHANGED tables /\ Serve(f)
      BY <1>10, <2>1 DEF CreateClient, Post
    <2> QED BY <1>1, <1>5, <2>2
  <1>11. ASSUME NEW f \in Failures, NEW values, UpdateClient(b, values, f)
         PROVE  Served /\ KeepsSessions(b) /\ Shows(b)
    <2>1. Serve(f) /\ UNCHANGED tables
      BY <1>11 DEF UpdateClient, Post
    <2>2. \/ \E what \in {"redirect", "404"} : Answer(b, what)
          \/ \E row, cause : HTMLWithToken(b, "client/client_edit.html", row, {}, cause)
      BY <1>11 DEF UpdateClient
    <2> QED BY <1>1, <1>2, <1>5, <2>1, <2>2
  <1>12. ASSUME NEW f \in Failures, UpdateRecognitionTask(b, f)
         PROVE  Served /\ KeepsSessions(b) /\ Shows(b)
    <2>1. Serve(f) /\ UNCHANGED tables
      BY <1>12 DEF UpdateRecognitionTask, Post
    <2>2. \/ \E what \in {"redirect", "404"} : Answer(b, what)
          \/ f # 0 /\ \E what \in {"broken", "panic"} : Answer(b, what)
          \/ \E row : \E cause \in {"fetch", "save"} :
               HTMLWithoutToken(b, "recognition_task/edit.html", row, cause)
      BY <1>12 DEF UpdateRecognitionTask, SaveFails
    <2>3. CASE f # 0 /\ \E what \in {"broken", "panic"} : Answer(b, what)
      <3>1. faults' > 0
        BY <2>1, <2>3, Serves
      <3> QED BY <1>0, <1>1, <2>1, <2>3, <3>1, Answers DEF Answer, KeepsSessions
    <2>4. ASSUME NEW row, NEW cause \in {"fetch", "save"},
                 HTMLWithoutToken(b, "recognition_task/edit.html", row, cause)
          PROVE  KeepsSessions(b) /\ Shows(b)
      BY <2>4, TaskPages
    <2> QED BY <1>1, <1>2, <2>1, <2>2, <2>3, <2>4
  <1> QED BY <1>6, <1>7, <1>8, <1>9, <1>10, <1>11, <1>12 DEF Sends

-----------------------------------------------------------------------------
(* The invariant *)

\* Initially nobody has a salt, and every page is blank.
LEMMA InitIInv == Init => IInv
  <1> SUFFICES ASSUME Init PROVE IInv
    OBVIOUS
  <1>1. IsFiniteSet(Browsers) /\ Cardinality(Browsers) \in Nat
    BY AdminPagesAssumption, FS_CardinalityType
  <1>2. 1 \in UserIds /\ 1 \in ClientIds
    BY AdminPagesAssumption DEF UserIds, ClientIds
  <1>3. \A b \in Browsers : Fine(page[b], clients, salts, faults)
    BY DEF Init, Fine, Plain, Page, UserForms, Lists, WithForm, NoSalt
  <1>4. TypeOK
    <2>1. /\ users \in [UserIds -> ClientIds \cup {NoUser}]
          /\ clients \subseteq ClientIds /\ tasks \subseteq TaskIds
          /\ requests \in Nat /\ faults \in Nat /\ expiries \in Nat
      BY <1>2 DEF Init
    <2>2. /\ salts \in 0 .. Cardinality(Browsers) + expiries
          /\ session \in [Browsers -> [ salt : 0 .. salts, admin : BOOLEAN ]]
      BY <1>1 DEF Init, NoSession, NoSalt
    <2>3. DOMAIN page = Browsers
      BY DEF Init
    <2> QED BY <1>3, <2>1, <2>2, <2>3 DEF TypeOK, Fine
  <1>5. SaltsCounted
    <2>1. IsFiniteSet(Salted)
      BY <1>1, FS_Subset DEF Salted
    <2>2. Cardinality(Salted) \in Nat
      BY <2>1, FS_CardinalityType
    <2> QED BY <2>2 DEF Init, SaltsCounted
  <1> QED BY <1>3, <1>4, <1>5 DEF IInv, Pages

\* A session that expires makes room for a salt.
LEMMA ExpiryKeeps ==
  ASSUME IInv, NEW b \in Browsers, SessionExpires(b)
  PROVE  IInv'
  <1>0. /\ TypeOK /\ SaltsCounted /\ Pages
        /\ IsFiniteSet(Salted) /\ Cardinality(Salted) \in Nat
        /\ Cardinality(Browsers) \in Nat /\ salts \in Nat /\ expiries \in Nat
    BY SaltedCounts DEF IInv
  <1>1. /\ UNCHANGED <<tables, salts, page, requests, faults>>
        /\ expiries' = expiries + 1
        /\ session' = [session EXCEPT ![b] = NoSession]
    BY DEF SessionExpires
  <1>2. Salted' = Salted \ {b}
    <2>1. session \in [Browsers -> [ salt : 0 .. salts, admin : BOOLEAN ]]
      BY <1>0 DEF TypeOK
    <2>2. session'[b].salt = NoSalt /\ \A s \in Browsers \ {b} : session'[s] = session[s]
      BY <1>1, <2>1 DEF NoSession
    <2> QED BY <2>2 DEF Salted
  <1>3. SaltsCounted'
    <2>1. Cardinality(Salted') = IF b \in Salted THEN Cardinality(Salted) - 1
                                                ELSE Cardinality(Salted)
      BY <1>0, <1>2, FS_RemoveElement
    <2> QED BY <1>0, <1>1, <2>1 DEF SaltsCounted
  <1>4. TypeOK'
    <2>1. NoSession \in [ salt : 0 .. salts, admin : BOOLEAN ]
      BY <1>0 DEF NoSession, NoSalt
    <2>2. session' \in [Browsers -> [ salt : 0 .. salts', admin : BOOLEAN ]]
      BY <1>0, <1>1, <2>1 DEF TypeOK
    <2>3. salts' \in 0 .. Cardinality(Browsers) + expiries'
      BY <1>0, <1>1 DEF TypeOK
    <2> QED BY <1>0, <1>1, <2>2, <2>3 DEF TypeOK, tables
  <1>5. Pages'
    BY <1>0, <1>1 DEF Pages, tables
  <1> QED BY <1>3, <1>4, <1>5 DEF IInv

\* Every step keeps the invariant.
LEMMA Inductive == IInv /\ [Next]_vars => IInv'
  <1> SUFFICES ASSUME IInv, [Next]_vars PROVE IInv'
    OBVIOUS
  <1>1. ASSUME UNCHANGED <<users, clients, session, salts, page, requests, faults, expiries>>,
               tasks' \subseteq TaskIds
        PROVE  IInv'
    BY <1>1 DEF IInv, TypeOK, SaltsCounted, Salted, Pages
  <1>2. CASE UNCHANGED vars
    <2>1. tasks' \subseteq TaskIds
      BY <1>2 DEF IInv, TypeOK, vars, tables
    <2> QED BY <1>1, <1>2, <2>1 DEF vars, tables
  <1>3. CASE TaskDeleted
    BY <1>1, <1>3 DEF TaskDeleted
  <1>4. ASSUME NEW b \in Browsers, Opens(b) \/ Sends(b) PROVE IInv'
    BY <1>4, OpensShows, SendsShows, RequestKeeps
  <1>5. ASSUME NEW b \in Browsers, SessionExpires(b) PROVE IInv'
    BY <1>5, ExpiryKeeps
  <1> QED BY <1>2, <1>3, <1>4, <1>5 DEF Next

\* The inductive invariant holds in every state.
THEOREM Invariance == Spec => []IInv
  BY InitIInv, Inductive, PTL DEF Spec

-----------------------------------------------------------------------------
(* The properties *)

\* For any number of browsers, rows, requests and failures: a page panics or breaks
\* off only after a failed statement, and the forms have their tokens and their
\* clients but for the named exceptions.
THEOREM PagesDoWork == Spec => []PagesWork
  <1>1. IInv => PagesWork
    BY DEF IInv, PagesWork, Pages, Fine, UserForms, PanicsNeedFaults, FormsOfferClients,
       FormsHaveTokens
  <1> QED BY <1>1, Invariance, PTL

\* No request creates or deletes a client, though the server has a form for the one
\* and a button for the other. The rows of the clients may change.
THEOREM ClientsStay == Spec => [][UNCHANGED clients]_vars
  <1>1. IInv /\ [Next]_vars => [UNCHANGED clients]_vars
    <2> SUFFICES ASSUME IInv, Next PROVE UNCHANGED clients
      BY DEF vars
    <2>1. ASSUME NEW b \in Browsers, Opens(b) \/ Sends(b) PROVE UNCHANGED clients
      BY <2>1, OpensShows, SendsShows DEF Served
    <2> QED BY <2>1 DEF Next, SessionExpires, TaskDeleted, tables
  <1> QED BY <1>1, Invariance, PTL DEF Spec

\* Each refusal of a form has one of the reasons that ExplainsMismatch lists.
THEOREM MismatchesAreExplained == Spec => MismatchExplained
  <1>1. ASSUME IInv, Next, NEW b \in Browsers,
               page'[b].template = "mismatch", page[b].template # "mismatch"
        PROVE  \/ page[b].token \notin {NoSalt, session[b].salt}
               \/ page[b].token = NoSalt /\ (FormWithoutToken(page[b]) \/ page[b].template \in Lists)
    <2>0. DOMAIN page = Browsers /\ Fine(page[b], clients, salts, faults)
      BY <1>1 DEF IInv, TypeOK, Pages
    <2>1. PICK s \in Browsers : Shows(s)
      BY <1>1, OpensShows, SendsShows DEF Next, SessionExpires, TaskDeleted
    <2>2. \/ page[b].template \in Lists
          \/ page[b].template \in WithForm /\ ~ CSRF(b)
      <3>1. PICK p : /\ page' = [page EXCEPT ![s] = p]
                     /\ p.template = "mismatch" =>
                          \/ page[s].template \in Lists
                          \/ page[s].template \in WithForm /\ ~ CSRF(s)
        BY <2>1 DEF Shows
      <3>2. s = b /\ p.template = "mismatch"
        BY <1>1, <2>0, <3>1
      <3> QED BY <3>1, <3>2
    <2> QED BY <2>0, <2>2 DEF Fine, CSRF
  <1>2. IInv /\ [Next]_vars => [ExplainsMismatch]_vars
    BY <1>1 DEF ExplainsMismatch, Lists
  <1> QED BY <1>2, Invariance, PTL DEF Spec, MismatchExplained
=============================================================================
