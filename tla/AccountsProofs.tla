--------------------------- MODULE AccountsProofs ---------------------------
(***************************************************************************)
(* Proofs about Accounts: two sessions of a thread share an account only   *)
(* if one logged in with another spelling of it, an account is refused only*)
(* while it is in use, a session knows the row of its user, and an         *)
(* advertisement arrives whole.                                            *)
(***************************************************************************)
EXTENDS Accounts, FiniteSetTheorems, SequenceTheorems, TLAPS

(* A session has an account exactly from an accepted login to the end of   *)
(* the connection: neither a wrong password nor recycling leaves one.      *)
AccountIsLogin ==
    \A s \in Sessions :
      /\ user_info[s].account # Empty <=> stateMachine[s] # "STATE_AUTH"
      /\ stateMachine[s] # "STATE_AUTH" => Connected(s)

(* A row is the row of the account it spells.                              *)
RowsAreKeyed ==
    \A a \in Accounts : users_info[a] # Absent => KeyOf[users_info[a].account] = a

IInv == /\ TypeOK /\ AccountIsLogin /\ OneSessionPerAccount
        /\ MemoryIsRow /\ RowsAreKeyed
-----------------------------------------------------------------------------
(* A score survives being written with %d and read with atoi, and both fit *)
(* into what holds them.                                                   *)
LEMMA ScoreRoundTrip ==
    /\ \A n \in ScoreRange : /\ Stored(n) \in (MaxInt + 1 - ScoreMod) .. MaxInt
                             /\ Loaded(Stored(n)) = n
    /\ \A n \in Int : Loaded(n) \in ScoreRange
<1>1. ScoreMod \in Nat \ {0} /\ MaxInt \in Int /\ 2 * (MaxInt + 1) = ScoreMod
  BY ScoreAssumption DEF MaxInt
<1>2. ASSUME NEW n \in Int PROVE Loaded(n) \in ScoreRange
  BY <1>1 DEF Loaded, ScoreRange
<1>3. ASSUME NEW n \in ScoreRange
      PROVE  Stored(n) \in (MaxInt + 1 - ScoreMod) .. MaxInt
  BY <1>1 DEF ScoreRange, Stored
<1>4. ASSUME NEW n \in ScoreRange
      PROVE  Loaded(Stored(n)) = n
  <2>1. n % ScoreMod = n
    BY <1>1 DEF ScoreRange
  <2>2. (n - ScoreMod) % ScoreMod = n
    BY <1>1 DEF ScoreRange
  <2>3. QED BY <2>1, <2>2 DEF Stored, Loaded
<1>5. QED BY <1>2, <1>3, <1>4

(* What a login with the name n reads of a row is a user, with the account *)
(* that is in the row.                                                     *)
LEMMA QueryType ==
    ASSUME TypeOK, NEW n \in Names, NEW a, a = KeyOf[n], users_info[a] # Absent,
           NEW u \in UsersInfo
    PROVE  /\ a \in Accounts /\ users_info[a] \in Row
           /\ Query(u, n) \in UsersInfo
           /\ Query(u, n).account = users_info[a].account
           /\ Query(u, n).password = users_info[a].password
           /\ Query(u, n).email = users_info[a].email
           /\ Query(u, n).score = Loaded(users_info[a].score)
           /\ Query(u, n).head_photo = u.head_photo
           /\ Query(u, n).user_name = users_info[a].user_name
           /\ Query(u, n).phone = users_info[a].phone
<1>1. a \in Accounts /\ users_info[a] \in Row
  BY NamesAssumption DEF TypeOK
<1>2. Loaded(users_info[a].score) \in ScoreRange
  <2>1. MaxInt \in Int /\ ScoreMod \in Int
    BY ScoreAssumption DEF MaxInt
  <2>2. QED BY <1>1, <2>1, ScoreRoundTrip DEF Row
<1>3. QED BY <1>1, <1>2 DEF Query, Row, UsersInfo

(* An UPDATE leaves a row, with the new values in the columns written.     *)
LEMMA UpdateType ==
    ASSUME NEW row \in Row, NEW u \in UsersInfo, NEW cs
    PROVE  /\ Update(row, u, cs) \in Row /\ Update(row, u, cs).account = row.account
           /\ Loaded(Update(row, u, cs).score)
                = IF "score" \in cs THEN u.score ELSE Loaded(row.score)
<1>1. u.score \in ScoreRange
  BY DEF UsersInfo
<1>2. QED BY <1>1, ScoreRoundTrip DEF Row, UsersInfo, Update

(* Any writing of columns, successful or not.                              *)
LEMMA WritePreserves ==
    ASSUME IInv, NEW s \in Sessions, stateMachine[s] = "STATE_GAME",
           NEW u \in UsersInfo, u.account = user_info[s].account,
           NEW cs \in SUBSET Columns, NEW failed \in SUBSET cs,
           "password" \in cs \/ u.password = user_info[s].password,
           "email" \in cs \/ u.email = user_info[s].email,
           "score" \in cs \/ u.score = user_info[s].score,
           "head_photo" \in cs \/ u.head_photo = user_info[s].head_photo,
           "user_name" \in cs \/ u.user_name = user_info[s].user_name,
           "phone" \in cs \/ u.phone = user_info[s].phone,
           WriteColumns(s, u, cs, failed), UNCHANGED <<thread, stateMachine>>
    PROVE  /\ user_info' \in [Sessions -> UsersInfo]
           /\ users_info' \in [Accounts -> Row \cup {Absent}]
           /\ stale' \in [Sessions -> SUBSET Columns]
           /\ \A r \in Sessions : user_info'[r].account = user_info[r].account
           /\ MemoryIsRow' /\ RowsAreKeyed'
<1> PICK a : a = KeyOf[u.account]
  OBVIOUS
<1>1. /\ a \in Accounts /\ LoggedIn(s, a)
  BY NamesAssumption DEF IInv, TypeOK, AccountIsLogin, UsersInfo, LoggedIn, InState
<1>2. users_info[a] # Absent /\ users_info[a] \in Row
  BY <1>1 DEF IInv, MemoryIsRow, TypeOK
<1>3. /\ user_info' = [user_info EXCEPT ![s] = u]
      /\ users_info' = [users_info EXCEPT ![a] = Update(users_info[a], u, cs \ failed)]
      /\ stale' = [StaleElsewhere(s, a, cs \ failed) EXCEPT ![s] = (@ \ cs) \cup failed]
  BY DEF WriteColumns
<1>4. /\ user_info' \in [Sessions -> UsersInfo]
      /\ \A r \in Sessions : user_info'[r].account = user_info[r].account
  BY <1>3 DEF IInv, TypeOK
<1>5. users_info' \in [Accounts -> Row \cup {Absent}]
  BY <1>2, <1>3, UpdateType DEF IInv, TypeOK
<1>6. /\ stale' \in [Sessions -> SUBSET Columns]
      /\ stale'[s] = (stale[s] \ cs) \cup failed
      /\ \A r \in Sessions \ {s} :
            stale'[r] = IF LoggedIn(r, a) THEN stale[r] \cup (cs \ failed) ELSE stale[r]
  BY <1>3 DEF IInv, TypeOK, StaleElsewhere
<1>7. ASSUME NEW r \in Sessions, NEW b \in Accounts, LoggedIn(r, b)'
      PROVE  LoggedIn(r, b) /\ users_info[b] # Absent /\ users_info[b] \in Row
  <2>1. LoggedIn(r, b)
    BY <1>4, <1>7 DEF LoggedIn, InState, Connected
  <2>2. QED BY <2>1 DEF IInv, MemoryIsRow, TypeOK
<1>8. /\ Update(users_info[a], u, cs \ failed) # Absent
      /\ Update(users_info[a], u, cs \ failed).account = users_info[a].account
  BY <1>2, UpdateType, AbsentAssumption
<1>9. ASSUME NEW r \in Sessions, NEW b \in Accounts, LoggedIn(r, b)'
      PROVE  (/\ users_info[b] # Absent /\ users_info[b].account = user_info[r].account
              /\ "password" \in stale[r] \/ users_info[b].password = user_info[r].password
              /\ "email" \in stale[r] \/ users_info[b].email = user_info[r].email
              /\ "score" \in stale[r] \/ Loaded(users_info[b].score) = user_info[r].score
              /\ "head_photo" \in stale[r] \/ users_info[b].head_photo = user_info[r].head_photo
              /\ "user_name" \in stale[r] \/ users_info[b].user_name = user_info[r].user_name
              /\ "phone" \in stale[r] \/ users_info[b].phone = user_info[r].phone)'
  <2>0. /\ users_info[b].account = user_info[r].account
        /\ "password" \in stale[r] \/ users_info[b].password = user_info[r].password
        /\ "email" \in stale[r] \/ users_info[b].email = user_info[r].email
        /\ "score" \in stale[r] \/ Loaded(users_info[b].score) = user_info[r].score
        /\ "head_photo" \in stale[r] \/ users_info[b].head_photo = user_info[r].head_photo
        /\ "user_name" \in stale[r] \/ users_info[b].user_name = user_info[r].user_name
        /\ "phone" \in stale[r] \/ users_info[b].phone = user_info[r].phone
    BY <1>7, <1>9 DEF IInv, MemoryIsRow
  <2>1. CASE b # a
    <3>1. r # s
      BY <1>1, <1>7, <1>9, <2>1 DEF LoggedIn
    <3>2. users_info'[b] = users_info[b] /\ user_info'[r] = user_info[r]
      BY <1>3, <2>1, <3>1 DEF IInv, TypeOK
    <3>3. stale'[r] = stale[r]
      BY <1>6, <1>7, <1>9, <2>1, <3>1 DEF LoggedIn
    <3>4. QED BY <1>7, <1>9, <2>0, <3>2, <3>3
  <2>2. CASE b = a
    <3>1. users_info'[b] = Update(users_info[a], u, cs \ failed)
      BY <1>1, <1>3, <2>2 DEF IInv, TypeOK
    <3>2. /\ Loaded(users_info'[b].score)
               = IF "score" \in cs \ failed THEN u.score ELSE Loaded(users_info[a].score)
          /\ users_info'[b].password
               = IF "password" \in cs \ failed THEN u.password ELSE users_info[a].password
          /\ users_info'[b].email
               = IF "email" \in cs \ failed THEN u.email ELSE users_info[a].email
          /\ users_info'[b].head_photo
               = IF "head_photo" \in cs \ failed THEN u.head_photo ELSE users_info[a].head_photo
          /\ users_info'[b].user_name
               = IF "user_name" \in cs \ failed THEN u.user_name ELSE users_info[a].user_name
          /\ users_info'[b].phone
               = IF "phone" \in cs \ failed THEN u.phone ELSE users_info[a].phone
      <4>1. Loaded(Update(users_info[a], u, cs \ failed).score)
              = IF "score" \in cs \ failed THEN u.score ELSE Loaded(users_info[a].score)
        BY <1>2, UpdateType
      <4>2. QED BY <3>1, <4>1 DEF Update
    <3>3. CASE r = s
      <4>1. user_info'[r] = u /\ stale'[r] = (stale[s] \ cs) \cup failed
        BY <1>3, <1>6, <3>3 DEF IInv, TypeOK
      <4>2. QED BY <1>8, <2>0, <2>2, <3>1, <3>2, <3>3, <4>1
    <3>4. CASE r # s
      <4>1. user_info'[r] = user_info[r] /\ stale'[r] = stale[r] \cup (cs \ failed)
        BY <1>3, <1>6, <1>7, <1>9, <2>2, <3>4 DEF IInv, TypeOK
      <4>2. QED BY <1>8, <2>0, <2>2, <3>1, <3>2, <4>1
    <3>5. QED BY <3>3, <3>4
  <2>3. QED BY <2>1, <2>2
<1>10. MemoryIsRow'
  BY <1>9 DEF MemoryIsRow
<1>11. RowsAreKeyed'
  BY <1>2, <1>3, <1>8 DEF IInv, TypeOK, RowsAreKeyed
<1>12. QED BY <1>4, <1>5, <1>6, <1>10, <1>11
-----------------------------------------------------------------------------
(* The buffer only grows.                                                  *)
LEMMA BufferType ==
    ASSUME TypeOK, NEW s \in Sessions, NEW n \in Nat, GetBuffer(s, n)
    PROVE  buf_size' \in [Sessions -> Nat]
BY BufferAssumption DEF GetBuffer, TypeOK

(* The number of failures stays in its bound.                              *)
LEMMA FailType ==
    ASSUME TypeOK, NEW n \in Nat, Fail(n)
    PROVE  failures' \in 0 .. MaxFailures
BY BoundAssumption DEF Fail, TypeOK

(* The variables of the invariant that a login is about.                   *)
LoginType ==
    /\ thread \in [Sessions -> Threads \cup {NoThread}]
    /\ stateMachine \in [Sessions -> {"STATE_AUTH", "STATE_DOWN_AD", "STATE_GAME"}]
    /\ user_info \in [Sessions -> UsersInfo]
    /\ users_info \in [Accounts -> Row \cup {Absent}]
    /\ stale \in [Sessions -> SUBSET Columns]
    /\ typed \in [Sessions -> Names \cup {Empty}]

LoginInv == /\ LoginType /\ AccountIsLogin /\ OneSessionPerAccount
            /\ MemoryIsRow /\ RowsAreKeyed

(* A step that moves no session in or out of STATE_AUTH.                   *)
LEMMA QuietStep ==
    ASSUME IInv, UNCHANGED <<thread, user_info, users_info, stale, typed>>,
           stateMachine' \in [Sessions -> {"STATE_AUTH", "STATE_DOWN_AD", "STATE_GAME"}],
           \A s \in Sessions : stateMachine'[s] = "STATE_AUTH" <=> stateMachine[s] = "STATE_AUTH"
    PROVE  LoginInv'
<1>1. LoginType' BY DEF IInv, TypeOK, LoginType
<1>2. AccountIsLogin' BY DEF IInv, AccountIsLogin, Connected
<1>3. OneSessionPerAccount' BY DEF IInv, OneSessionPerAccount, Connected
<1>4. ASSUME NEW s \in Sessions, NEW a \in Accounts PROVE LoggedIn(s, a)' => LoggedIn(s, a)
  BY DEF IInv, TypeOK, LoggedIn, InState, Connected
<1>5. MemoryIsRow' /\ RowsAreKeyed' BY <1>4 DEF IInv, MemoryIsRow, RowsAreKeyed
<1>6. QED BY <1>1, <1>2, <1>3, <1>5 DEF LoginInv

(* A step of the game hall, where no session gets or loses an account.     *)
LEMMA SameAccounts ==
    ASSUME IInv, UNCHANGED <<thread, stateMachine, typed>>,
           user_info' \in [Sessions -> UsersInfo],
           users_info' \in [Accounts -> Row \cup {Absent}],
           stale' \in [Sessions -> SUBSET Columns],
           \A r \in Sessions : user_info'[r].account = user_info[r].account,
           MemoryIsRow', RowsAreKeyed'
    PROVE  LoginInv'
<1>1. LoginType' BY DEF IInv, TypeOK, LoginType
<1>2. AccountIsLogin' BY DEF IInv, AccountIsLogin, Connected
<1>3. OneSessionPerAccount' BY DEF IInv, OneSessionPerAccount, Connected
<1>4. QED BY <1>1, <1>2, <1>3 DEF LoginInv

(* A session taken from the pool has no account.                           *)
LEMMA ConnectStep ==
    ASSUME IInv, NEW s \in Sessions, NEW t \in Threads, Connect(s, t)
    PROVE  LoginInv'
<1>1. /\ thread[s] = NoThread /\ thread' = [thread EXCEPT ![s] = t]
      /\ UNCHANGED <<stateMachine, user_info, users_info, stale, typed>>
  BY DEF Connect
<1>2. stateMachine[s] = "STATE_AUTH" /\ user_info[s].account = Empty
  BY <1>1, ValueAssumption DEF IInv, AccountIsLogin, Connected
<1>3. LoginType' BY <1>1 DEF IInv, TypeOK, LoginType
<1>4. AccountIsLogin' BY <1>1 DEF IInv, TypeOK, AccountIsLogin, Connected
<1>5. OneSessionPerAccount'
  BY <1>1, <1>2 DEF IInv, TypeOK, OneSessionPerAccount, Connected
<1>6. ASSUME NEW r \in Sessions, NEW a \in Accounts PROVE LoggedIn(r, a)' => LoggedIn(r, a)
  BY <1>1, <1>2 DEF IInv, TypeOK, LoggedIn, InState, Connected
<1>7. MemoryIsRow' /\ RowsAreKeyed' BY <1>1, <1>6 DEF IInv, MemoryIsRow, RowsAreKeyed
<1>8. QED BY <1>3, <1>4, <1>5, <1>7 DEF LoginInv

(* The end of a connection takes the account out of the session.          *)
LEMMA CloseStep ==
    ASSUME IInv, NEW s \in Sessions, EndConnection(s)
    PROVE  LoginInv'
<1>1. /\ thread' = [thread EXCEPT ![s] = NoThread]
      /\ stateMachine' = [stateMachine EXCEPT ![s] = "STATE_AUTH"]
      /\ user_info' = [user_info EXCEPT ![s] = Blank]
      /\ stale' = [stale EXCEPT ![s] = {}]
      /\ typed' = [typed EXCEPT ![s] = Empty]
      /\ UNCHANGED users_info
  BY DEF EndConnection, DestructResource
<1>2. Blank \in UsersInfo /\ Blank.account = Empty
  BY ValueAssumption, ScoreAssumption DEF Blank, UsersInfo, Text, ScoreRange
<1>3. LoginType' BY <1>1, <1>2 DEF IInv, TypeOK, LoginType
<1>4. AccountIsLogin' BY <1>1, <1>2 DEF IInv, TypeOK, AccountIsLogin, Connected
<1>5. OneSessionPerAccount'
  BY <1>1, <1>2 DEF IInv, TypeOK, OneSessionPerAccount, Connected
<1>6. ASSUME NEW r \in Sessions, NEW a \in Accounts, LoggedIn(r, a)'
      PROVE  r # s /\ LoggedIn(r, a)
  BY <1>1, <1>6 DEF IInv, TypeOK, LoggedIn, InState, Connected
<1>7. \A r \in Sessions \ {s} : user_info'[r] = user_info[r] /\ stale'[r] = stale[r]
  BY <1>1 DEF IInv, TypeOK
<1>8. MemoryIsRow' /\ RowsAreKeyed'
  BY <1>1, <1>6, <1>7 DEF IInv, MemoryIsRow, RowsAreKeyed
<1>9. QED BY <1>3, <1>4, <1>5, <1>8 DEF LoginInv

(* A registration writes a row nobody can be logged in with.               *)
LEMMA RegisterStep ==
    ASSUME IInv, NEW s \in Sessions, NEW n \in Names, NEW p \in Passwords,
           HandleRegister(s, n, p)
    PROVE  LoginInv'
<1> PICK a : a = KeyOf[n]
  OBVIOUS
<1>1. UNCHANGED <<thread, stateMachine, user_info, stale, typed>>
  BY DEF HandleRegister, AuthMessage
<1>2. CASE UNCHANGED users_info
  BY <1>1, <1>2, QuietStep DEF IInv, TypeOK
<1>3. CASE InsertUsersInfoToDB(n, p)
  <2>1. users_info[a] = Absent /\ users_info' = [users_info EXCEPT ![a] = NewRow(n, p)]
    BY <1>3 DEF InsertUsersInfoToDB
  <2>2. NewRow(n, p) \in Row /\ NewRow(n, p).account = n
    BY ValueAssumption, ScoreAssumption, ScoreRoundTrip DEF NewRow, Row, Text, ScoreRange
  <2>3. LoginType' BY <1>1, <2>1, <2>2 DEF IInv, TypeOK, LoginType
  <2>4. AccountIsLogin' BY <1>1 DEF IInv, AccountIsLogin, Connected
  <2>5. OneSessionPerAccount' BY <1>1 DEF IInv, OneSessionPerAccount, Connected
  <2>6. ASSUME NEW r \in Sessions, NEW b \in Accounts, LoggedIn(r, b)'
        PROVE  LoggedIn(r, b) /\ users_info'[b] = users_info[b]
    <3>1. LoggedIn(r, b)
      BY <1>1, <2>6 DEF LoggedIn, InState, Connected
    <3>2. b # a
      BY <2>1, <3>1 DEF IInv, MemoryIsRow
    <3>3. QED BY <2>1, <3>1, <3>2 DEF IInv, TypeOK
  <2>7. MemoryIsRow' BY <1>1, <2>6 DEF IInv, MemoryIsRow
  <2>8. RowsAreKeyed' BY <2>1, <2>2 DEF IInv, TypeOK, RowsAreKeyed
  <2>9. QED BY <2>3, <2>4, <2>5, <2>7, <2>8 DEF LoginInv
<1>4. QED BY <1>2, <1>3 DEF HandleRegister

(* A session in STATE_AUTH gets a user u: none with a wrong password, or   *)
(* the account in the row that the name tn stands for, where nobody in its *)
(* thread has an account of that spelling.                                 *)
LEMMA UserStep ==
    ASSUME IInv, NEW s \in Sessions, InState(s, {"STATE_AUTH"}), NEW u \in UsersInfo,
           NEW st \in {"STATE_AUTH", "STATE_DOWN_AD"}, NEW old \in SUBSET Columns,
           NEW tn \in Names \cup {Empty}, NEW a \in Accounts,
           UNCHANGED <<thread, users_info>>,
           stateMachine' = [stateMachine EXCEPT ![s] = st],
           user_info' = [user_info EXCEPT ![s] = u],
           stale' = [stale EXCEPT ![s] = old],
           typed' = [typed EXCEPT ![s] = tn],
           st = "STATE_AUTH" => u.account = Empty,
           st = "STATE_DOWN_AD" =>
             /\ GetIndividualUser(thread[s], tn)
             /\ users_info[a] # Absent
             /\ users_info[a].account = u.account
             /\ users_info[a].password = u.password
             /\ users_info[a].email = u.email
             /\ Loaded(users_info[a].score) = u.score
             /\ "head_photo" \in old \/ users_info[a].head_photo = u.head_photo
             /\ users_info[a].user_name = u.user_name
             /\ users_info[a].phone = u.phone
    PROVE  LoginInv'
<1>1. /\ thread' = thread /\ users_info' = users_info
      /\ user_info'[s] = u /\ stateMachine'[s] = st /\ stale'[s] = old /\ typed'[s] = tn
      /\ \A r \in Sessions \ {s} : /\ user_info'[r] = user_info[r]
                                   /\ stateMachine'[r] = stateMachine[r]
                                   /\ stale'[r] = stale[r]
                                   /\ typed'[r] = typed[r]
  BY DEF IInv, TypeOK
<1>2. LoginType' BY DEF IInv, TypeOK, LoginType
<1>3. st = "STATE_DOWN_AD" => u.account \in Names /\ u.account # Empty
  BY ValueAssumption DEF IInv, TypeOK, Row
<1>4. AccountIsLogin'
  BY <1>1, <1>3 DEF IInv, AccountIsLogin, Connected, InState
<1>5. OneSessionPerAccount'
  <2>1. SUFFICES ASSUME NEW r \in Sessions, r # s, thread[r] = thread[s], u.account # Empty,
                        tn = u.account
                 PROVE  user_info[r].account # u.account
    BY <1>1 DEF IInv, OneSessionPerAccount, Connected, InState
  <2>2. QED BY <2>1 DEF GetIndividualUser, InMap
<1>6. ASSUME NEW r \in Sessions, NEW b \in Accounts, LoggedIn(r, b)', r # s
      PROVE  LoggedIn(r, b)
  BY <1>1, <1>6 DEF LoggedIn, InState, Connected
<1>7. ASSUME NEW b \in Accounts, LoggedIn(s, b)'
      PROVE  st = "STATE_DOWN_AD" /\ b = a
  <2>1. st = "STATE_DOWN_AD" /\ KeyOf[u.account] = b
    BY <1>1, <1>7 DEF LoggedIn, InState, Connected
  <2>2. QED BY <2>1 DEF IInv, RowsAreKeyed
<1>8. MemoryIsRow' BY <1>1, <1>6, <1>7 DEF IInv, MemoryIsRow
<1>9. RowsAreKeyed' BY <1>1 DEF IInv, RowsAreKeyed
<1>10. QED BY <1>2, <1>4, <1>5, <1>8, <1>9 DEF LoginInv

(* A wrong password leaves no account behind.                              *)
LEMMA WrongPasswordStep ==
    ASSUME IInv, NEW s \in Sessions, NEW n \in Names, NEW p, WrongPassword(s, n, p)
    PROVE  LoginInv'
<1> DEFINE u == ForgetAccount(Query(user_info[s], n))
<1> PICK a : a = KeyOf[n]
  OBVIOUS
<1>1. a \in Accounts /\ u \in UsersInfo /\ u.account = Empty
  <2>1. a \in Accounts /\ Query(user_info[s], n) \in UsersInfo
    BY QueryType DEF WrongPassword, IInv, TypeOK
  <2>2. QED BY <2>1 DEF ForgetAccount, UsersInfo
<1>2. /\ InState(s, {"STATE_AUTH"}) /\ UNCHANGED <<thread, users_info>>
      /\ stateMachine' = [stateMachine EXCEPT ![s] = "STATE_AUTH"]
      /\ user_info' = [user_info EXCEPT ![s] = u]
      /\ stale' = [stale EXCEPT ![s] = stale[s]] /\ stale[s] \in SUBSET Columns
      /\ typed' = [typed EXCEPT ![s] = typed[s]] /\ typed[s] \in Names \cup {Empty}
  BY DEF WrongPassword, AuthMessage, InState, IInv, TypeOK
<1> HIDE DEF u
<1>3. QED BY <1>1, <1>2, UserStep

(* An accepted login reads the row of an account nobody here has.          *)
LEMMA LoginStep ==
    ASSUME IInv, NEW s \in Sessions, NEW n \in Names, NEW p, LoginAccepted(s, n, p)
    PROVE  LoginInv'
<1> PICK a : a = KeyOf[n]
  OBVIOUS
<1> DEFINE q == Query(user_info[s], n)
           v == [q EXCEPT !.head_photo = users_info[a].head_photo]
<1>1. /\ InState(s, {"STATE_AUTH"}) /\ UNCHANGED <<thread, users_info>>
      /\ users_info[a] # Absent /\ GetIndividualUser(thread[s], n)
      /\ stateMachine' = [stateMachine EXCEPT ![s] = "STATE_DOWN_AD"]
      /\ typed' = [typed EXCEPT ![s] = n] /\ n \in Names \cup {Empty}
  BY DEF LoginAccepted, AuthMessage
<1>2. /\ a \in Accounts /\ users_info[a] \in Row /\ q \in UsersInfo
      /\ q.account = users_info[a].account
      /\ q.password = users_info[a].password
      /\ q.email = users_info[a].email
      /\ q.score = Loaded(users_info[a].score)
      /\ q.user_name = users_info[a].user_name
      /\ q.phone = users_info[a].phone
  <2>1. TypeOK /\ user_info[s] \in UsersInfo
    BY DEF IInv, TypeOK
  <2>2. QED BY <1>1, <2>1, QueryType
<1>3. /\ v \in UsersInfo
      /\ v.account = users_info[a].account
      /\ v.password = users_info[a].password
      /\ v.email = users_info[a].email
      /\ v.score = Loaded(users_info[a].score)
      /\ v.head_photo = users_info[a].head_photo
      /\ v.user_name = users_info[a].user_name
      /\ v.phone = users_info[a].phone
  <2> HIDE DEF q
  <2>1. QED BY <1>2 DEF UsersInfo, Row
<1>4. CASE /\ user_info' = [user_info EXCEPT ![s] = v]
           /\ stale' = [stale EXCEPT ![s] = {}]
  <2> HIDE DEF v
  <2>1. {} \in SUBSET Columns OBVIOUS
  <2>2. QED BY <1>1, <1>2, <1>3, <1>4, <2>1, UserStep
<1>5. CASE /\ user_info' = [user_info EXCEPT ![s] = q]
           /\ stale' = [stale EXCEPT ![s] = {"head_photo"}]
  <2> HIDE DEF q
  <2>1. {"head_photo"} \in SUBSET Columns BY DEF Columns
  <2>2. QED BY <1>1, <1>2, <1>5, <2>1, UserStep
<1>6. QED BY <1>4, <1>5 DEF LoginAccepted, GetHeadImageFromDB

(* A user's own changes, in the game hall.                                 *)
LEMMA UpdateStep ==
    ASSUME IInv, NEW s \in Sessions, NEW info \in Updates, UpdateUserInfos(s, info)
    PROVE  LoginInv' /\ failures' \in 0 .. MaxFailures
<1> DEFINE cs == Changed(s, info)
           u == [user_info[s] EXCEPT
                   !.user_name = IF "user_name" \in cs THEN info.user_name ELSE @,
                   !.password = IF "password" \in cs THEN info.password ELSE @,
                   !.email = IF "email" \in cs THEN info.email ELSE @,
                   !.phone = IF "phone" \in cs THEN info.phone ELSE @,
                   !.head_photo = IF "head_photo" \in cs THEN info.head_photo ELSE @]
<1>1. PICK failed \in SUBSET cs : WriteColumns(s, u, cs, failed) /\ Fail(Cardinality(failed))
  BY DEF UpdateUserInfos
<1>2. stateMachine[s] = "STATE_GAME" /\ UNCHANGED <<thread, stateMachine, typed>>
  BY DEF UpdateUserInfos, InState
<1>3. cs \in SUBSET Columns
  BY DEF Changed, Columns
<1>4. /\ info.user_name \in Text /\ info.password \in Text
      /\ "email" \in cs => info.email \in Text
      /\ "phone" \in cs => info.phone \in Text
      /\ "head_photo" \in cs => info.head_photo \in Text
  BY UpdatesAssumption DEF Changed, Text
<1>5. user_info[s] \in UsersInfo
  BY DEF IInv, TypeOK
<1>6. /\ u \in UsersInfo
      /\ u.account = user_info[s].account
      /\ "password" \in cs \/ u.password = user_info[s].password
      /\ "email" \in cs \/ u.email = user_info[s].email
      /\ u.score = user_info[s].score
      /\ "head_photo" \in cs \/ u.head_photo = user_info[s].head_photo
      /\ "user_name" \in cs \/ u.user_name = user_info[s].user_name
      /\ "phone" \in cs \/ u.phone = user_info[s].phone
  <2> HIDE DEF cs
  <2>1. QED BY <1>4, <1>5 DEF UsersInfo
<1>7. Cardinality(failed) \in Nat
  <2>1. IsFiniteSet(Columns)
    <3>1. IsFiniteSet({"password"}) BY FS_Singleton
    <3>2. IsFiniteSet({"password"} \cup {"email"}) BY <3>1, FS_AddElement
    <3>3. IsFiniteSet({"password"} \cup {"email"} \cup {"score"}) BY <3>2, FS_AddElement
    <3>4. IsFiniteSet({"password"} \cup {"email"} \cup {"score"} \cup {"head_photo"})
      BY <3>3, FS_AddElement
    <3>5. IsFiniteSet({"password"} \cup {"email"} \cup {"score"} \cup {"head_photo"}
                        \cup {"user_name"})
      BY <3>4, FS_AddElement
    <3>6. IsFiniteSet({"password"} \cup {"email"} \cup {"score"} \cup {"head_photo"}
                        \cup {"user_name"} \cup {"phone"})
      BY <3>5, FS_AddElement
    <3>7. Columns = {"password"} \cup {"email"} \cup {"score"} \cup {"head_photo"}
                      \cup {"user_name"} \cup {"phone"}
      BY DEF Columns
    <3>8. QED BY <3>6, <3>7
  <2>2. IsFiniteSet(failed)
    BY <1>3, <2>1, FS_Subset
  <2>3. QED BY <2>2, FS_CardinalityType
<1> HIDE DEF cs, u
<1>8. /\ user_info' \in [Sessions -> UsersInfo]
      /\ users_info' \in [Accounts -> Row \cup {Absent}]
      /\ stale' \in [Sessions -> SUBSET Columns]
      /\ \A r \in Sessions : user_info'[r].account = user_info[r].account
      /\ MemoryIsRow' /\ RowsAreKeyed'
  BY <1>1, <1>2, <1>3, <1>6, WritePreserves
<1>9. LoginInv'
  BY <1>2, <1>8, SameAccounts
<1>10. QED BY <1>1, <1>7, <1>9, FailType DEF IInv

(* A change of the score writes one column.                                *)
LEMMA ScoreStep ==
    ASSUME IInv, NEW s \in Sessions, NEW n \in Int, ChangeScore(s, n)
    PROVE  LoginInv' /\ failures' \in 0 .. MaxFailures
<1> DEFINE u == [user_info[s] EXCEPT !.score = (@ + n) % ScoreMod]
<1>1. PICK failed \in SUBSET {"score"} :
         WriteColumns(s, u, {"score"}, failed) /\ Fail(Cardinality(failed))
  BY DEF ChangeScore
<1>2. stateMachine[s] = "STATE_GAME" /\ UNCHANGED <<thread, stateMachine, typed>>
  BY DEF ChangeScore, InState
<1>3. {"score"} \in SUBSET Columns
  BY DEF Columns
<1>4. user_info[s] \in UsersInfo /\ user_info[s].score \in Int
  BY DEF IInv, TypeOK, UsersInfo, ScoreRange
<1>5. (user_info[s].score + n) % ScoreMod \in ScoreRange
  BY <1>4, ScoreAssumption DEF ScoreRange
<1>6. /\ u \in UsersInfo
      /\ u.account = user_info[s].account
      /\ u.password = user_info[s].password
      /\ u.email = user_info[s].email
      /\ u.head_photo = user_info[s].head_photo
      /\ u.user_name = user_info[s].user_name
      /\ u.phone = user_info[s].phone
  BY <1>4, <1>5 DEF UsersInfo
<1>7. Cardinality(failed) \in Nat
  BY FS_EmptySet, FS_Singleton, FS_Subset, FS_CardinalityType
<1> HIDE DEF u
<1>8. /\ user_info' \in [Sessions -> UsersInfo]
      /\ users_info' \in [Accounts -> Row \cup {Absent}]
      /\ stale' \in [Sessions -> SUBSET Columns]
      /\ \A r \in Sessions : user_info'[r].account = user_info[r].account
      /\ MemoryIsRow' /\ RowsAreKeyed'
  BY <1>1, <1>2, <1>3, <1>6, WritePreserves
<1>9. LoginInv'
  BY <1>2, <1>8, SameAccounts
<1>10. QED BY <1>1, <1>7, <1>9, FailType DEF IInv

(* update.py writes a row behind the back of the sessions that know it.    *)
LEMMA PasswordStep ==
    ASSUME IInv, NEW a \in Accounts, NEW p \in Passwords, UpdatePassword(a, p)
    PROVE  LoginInv'
<1>1. /\ users_info[a] # Absent
      /\ users_info' = [users_info EXCEPT ![a] = [users_info[a] EXCEPT !.password = p]]
      /\ UNCHANGED <<thread, stateMachine, user_info, typed>>
  BY DEF UpdatePassword, session
<1>2. /\ stale' \in [Sessions -> SUBSET Columns]
      /\ \A r \in Sessions :
            stale'[r] = IF LoggedIn(r, a) THEN stale[r] \cup {"password"} ELSE stale[r]
  BY DEF UpdatePassword, IInv, TypeOK, Columns
<1>3. users_info[a] \in Row /\ p \in Text
  BY <1>1, ValueAssumption DEF IInv, TypeOK, Text
<1>4. [users_info[a] EXCEPT !.password = p] \in Row
  BY <1>3 DEF Row
<1>5. users_info' \in [Accounts -> Row \cup {Absent}]
  BY <1>1, <1>4 DEF IInv, TypeOK
<1>6. ASSUME NEW r \in Sessions, NEW b \in Accounts, LoggedIn(r, b)'
      PROVE  LoggedIn(r, b)
  BY <1>1, <1>6 DEF LoggedIn, InState, Connected
<1>7. users_info'[a] # Absent
  BY <1>1, <1>4, AbsentAssumption DEF IInv, TypeOK
<1>8. /\ users_info'[a].account = users_info[a].account
      /\ users_info'[a].email = users_info[a].email
      /\ users_info'[a].score = users_info[a].score
      /\ users_info'[a].head_photo = users_info[a].head_photo
      /\ users_info'[a].user_name = users_info[a].user_name
      /\ users_info'[a].phone = users_info[a].phone
  BY <1>1, <1>3 DEF IInv, TypeOK, Row
<1>9. \A b \in Accounts \ {a} : users_info'[b] = users_info[b]
  BY <1>1 DEF IInv, TypeOK
<1>10. MemoryIsRow'
  BY <1>1, <1>2, <1>6, <1>7, <1>8, <1>9 DEF IInv, MemoryIsRow
<1>11. user_info' \in [Sessions -> UsersInfo]
  BY <1>1 DEF IInv, TypeOK
<1>12. RowsAreKeyed'
  BY <1>1, <1>8, <1>9 DEF IInv, RowsAreKeyed
<1>13. QED BY <1>1, <1>2, <1>5, <1>10, <1>11, <1>12, SameAccounts
-----------------------------------------------------------------------------
(* The rest of the type invariant: the file a session reads, its buffer,   *)
(* and the counters.                                                       *)
RestType ==
    /\ ad_img_fp \in [Sessions -> {NULL} \cup [image : DOMAIN ImageSize, offset : Nat]]
    /\ buf_size \in [Sessions -> Nat]
    /\ asked \in [Sessions -> SUBSET (DOMAIN ImageSize \cup Missing)]
    /\ changes \in 0 .. MaxChanges
    /\ failures \in 0 .. MaxFailures

(* The end of a connection keeps the invariant.                            *)
LEMMA EndType ==
    ASSUME IInv, NEW s \in Sessions, EndConnection(s), failures' \in 0 .. MaxFailures
    PROVE  IInv'
<1>1. LoginInv' BY CloseStep
<1>2. RestType'
  BY DEF EndConnection, DestructResource, IInv, TypeOK, RestType
<1>3. QED BY <1>1, <1>2 DEF IInv, TypeOK, LoginInv, LoginType, RestType

(* A message in STATE_AUTH keeps it if it keeps what a login is about.     *)
LEMMA AuthType ==
    ASSUME IInv, NEW s \in Sessions, NEW n \in Nat, AuthMessage(s, n),
           failures' \in 0 .. MaxFailures, LoginInv'
    PROVE  IInv'
<1>1. RestType'
  BY BufferType DEF AuthMessage, IInv, TypeOK, RestType
<1>2. QED BY <1>1 DEF IInv, TypeOK, LoginInv, LoginType, RestType

(* A piece of an advertisement.                                            *)
LEMMA ContentStep ==
    ASSUME IInv, NEW s \in Sessions, NEW id \in DOMAIN ImageSize,
           NEW last_one \in BOOLEAN, AdContent(s, id, last_one)
    PROVE  IInv'
<1> DEFINE fp == OpenImage(s, id)
           n == ReadSize(s, fp)
<1>1. /\ stateMachine[s] = "STATE_DOWN_AD"
      /\ SendImageContent(s, id, fp)
      /\ LeaveDownload(s, last_one)
      /\ UNCHANGED <<thread, user_info, users_info, stale, typed, changes, failures>>
  BY DEF AdContent, InState
<1>2. fp \in [image : DOMAIN ImageSize, offset : Nat]
  BY DEF OpenImage, IInv, TypeOK
<1>3. n \in Int
  <2>1. ImageSize[fp.image] \in Nat /\ fp.offset \in Nat /\ buf_size[s] \in Nat
    BY <1>2, ImageAssumption DEF IInv, TypeOK
  <2> HIDE DEF fp
  <2>2. QED BY <2>1 DEF ReadSize
<1> HIDE DEF fp, n
<1>4. RestType'
  <2>1. CASE n > 0
    <3>1. /\ ad_img_fp' = [ad_img_fp EXCEPT ![s] = [fp EXCEPT !.offset = @ + n]]
          /\ asked' = [asked EXCEPT ![s] = @ \cup {id}]
          /\ GetBuffer(s, n + Framing)
      BY <1>1, <2>1 DEF SendImageContent, n
    <3>2. n + Framing \in Nat /\ fp.offset + n \in Nat
      BY <1>2, <1>3, <2>1, BufferAssumption
    <3>3. [fp EXCEPT !.offset = @ + n] \in [image : DOMAIN ImageSize, offset : Nat]
      BY <1>2, <3>2
    <3>4. buf_size' \in [Sessions -> Nat]
      BY <3>1, <3>2, BufferType DEF IInv
    <3>5. QED BY <1>1, <3>1, <3>3, <3>4 DEF IInv, TypeOK, RestType
  <2>2. CASE ~ (n > 0)
    BY <1>1, <2>2 DEF SendImageContent, n, IInv, TypeOK, RestType
  <2>3. QED BY <2>1, <2>2
<1>5. LoginInv'
  BY <1>1, QuietStep DEF LeaveDownload, IInv, TypeOK
<1>6. QED BY <1>4, <1>5 DEF IInv, TypeOK, LoginInv, LoginType, RestType

(* The invariant holds at first.                                           *)
LEMMA InitInv == Init => IInv
<1>1. SUFFICES ASSUME Init PROVE IInv OBVIOUS
<1>2. Blank \in UsersInfo /\ Blank.account = Empty
  BY ValueAssumption, ScoreAssumption DEF Blank, UsersInfo, Text, ScoreRange
<1>3. TypeOK
  BY <1>1, <1>2, BoundAssumption DEF Init, TypeOK
<1>4. AccountIsLogin /\ OneSessionPerAccount
  BY <1>1, <1>2 DEF Init, AccountIsLogin, OneSessionPerAccount
<1>5. MemoryIsRow /\ RowsAreKeyed
  BY <1>1 DEF Init, MemoryIsRow, RowsAreKeyed, LoggedIn, InState
<1>6. QED BY <1>3, <1>4, <1>5 DEF IInv

(* Every step keeps the invariant.                                         *)
LEMMA NextInv == IInv /\ [Next]_vars => IInv'
<1>1. SUFFICES ASSUME IInv, [Next]_vars PROVE IInv' OBVIOUS
<1>2. ASSUME NEW s \in Sessions, NEW t \in Threads, Connect(s, t)
      PROVE  IInv'
  <2>1. LoginInv' BY <1>1, <1>2, ConnectStep
  <2>2. RestType' BY <1>1, <1>2 DEF Connect, IInv, TypeOK, RestType
  <2>3. QED BY <2>1, <2>2 DEF IInv, TypeOK, LoginInv, LoginType, RestType
<1>3. ASSUME NEW s \in Sessions, ClosingClientCon(s)
      PROVE  IInv'
  BY <1>1, <1>3, EndType DEF ClosingClientCon, IInv, TypeOK
<1>4. ASSUME NEW s \in Sessions, OtherAuthMessage(s)
      PROVE  IInv'
  <2>1. LoginInv'
    BY <1>1, <1>4, QuietStep DEF OtherAuthMessage, AuthMessage, IInv, TypeOK
  <2>2. QED BY <1>1, <1>4, <2>1, AuthType DEF OtherAuthMessage, IInv, TypeOK
<1>5. ASSUME NEW s \in Sessions, NEW n \in Names \cup {Empty}, NEW p \in Passwords,
             LoginRefused(s, n, p)
      PROVE  IInv'
  <2>1. LoginInv'
    BY <1>1, <1>5, QuietStep DEF LoginRefused, AuthMessage, IInv, TypeOK
  <2>2. failures' \in 0 .. MaxFailures
    BY <1>1, <1>5, FailType DEF LoginRefused, IInv, TypeOK
  <2>3. QED BY <1>1, <1>5, <2>1, <2>2, AuthType DEF LoginRefused
<1>6. ASSUME NEW s \in Sessions, NEW n \in Names, NEW p \in Passwords,
             HandleRegister(s, n, p)
      PROVE  IInv'
  <2>1. LoginInv' BY <1>1, <1>6, RegisterStep
  <2>2. failures' \in 0 .. MaxFailures
    BY <1>1, <1>6, FailType DEF HandleRegister, IInv, TypeOK
  <2>3. QED BY <1>1, <1>6, <2>1, <2>2, AuthType DEF HandleRegister
<1>7. ASSUME NEW s \in Sessions, NEW n \in Names, NEW p \in Passwords,
             WrongPassword(s, n, p)
      PROVE  IInv'
  <2>1. LoginInv' BY <1>1, <1>7, WrongPasswordStep
  <2>2. QED BY <1>1, <1>7, <2>1, AuthType DEF WrongPassword, IInv, TypeOK
<1>8. ASSUME NEW s \in Sessions, NEW n \in Names, NEW p \in Passwords,
             LoginAccepted(s, n, p)
      PROVE  IInv'
  <2>1. LoginInv' BY <1>1, <1>8, LoginStep
  <2>2. failures' \in 0 .. MaxFailures
    BY <1>1, <1>8, FailType DEF LoginAccepted, GetHeadImageFromDB, IInv, TypeOK
  <2>3. PICK k \in Nat : AuthMessage(s, k)
    BY <1>8, BufferAssumption DEF LoginAccepted
  <2>4. QED BY <1>1, <2>1, <2>2, <2>3, AuthType
<1>9. ASSUME NEW s \in Sessions, NEW last_one \in BOOLEAN, DownloadImageInfo(s, last_one)
      PROVE  IInv'
  <2>1. LoginInv'
    BY <1>1, <1>9, QuietStep DEF DownloadImageInfo, LeaveDownload, InState, IInv, TypeOK
  <2>2. RestType' BY <1>1, <1>9 DEF DownloadImageInfo, IInv, TypeOK, RestType
  <2>3. QED BY <2>1, <2>2 DEF IInv, TypeOK, LoginInv, LoginType, RestType
<1>10. ASSUME NEW s \in Sessions, NEW id \in DOMAIN ImageSize, NEW last_one \in BOOLEAN,
              AdContent(s, id, last_one)
       PROVE  IInv'
  BY <1>1, <1>10, ContentStep
<1>11. ASSUME NEW s \in Sessions, NEW id \in DOMAIN ImageSize \cup Missing,
              AdContentMissing(s, id)
       PROVE  IInv'
  <2>1. failures' \in 0 .. MaxFailures
    BY <1>1, <1>11, FailType DEF AdContentMissing, NoAdPicture, IInv, TypeOK
  <2>2. QED BY <1>1, <1>11, <2>1, EndType DEF AdContentMissing
<1>12. ASSUME NEW s \in Sessions, NEW info \in Updates, UpdateUserInfos(s, info)
       PROVE  IInv'
  <2>1. LoginInv' /\ failures' \in 0 .. MaxFailures
    BY <1>1, <1>12, UpdateStep
  <2>2. buf_size' \in [Sessions -> Nat]
    BY <1>1, <1>12, BufferType, BufferAssumption DEF UpdateUserInfos, IInv
  <2>3. RestType'
    BY <1>1, <1>12, <2>1, <2>2, BoundAssumption DEF UpdateUserInfos, IInv, TypeOK, RestType
  <2>4. QED BY <2>1, <2>3 DEF IInv, TypeOK, LoginInv, LoginType, RestType
<1>13. ASSUME NEW s \in Sessions, NEW n \in Int, ChangeScore(s, n)
       PROVE  IInv'
  <2>1. LoginInv' /\ failures' \in 0 .. MaxFailures
    BY <1>1, <1>13, ScoreStep
  <2>2. RestType'
    BY <1>1, <1>13, <2>1, BoundAssumption DEF ChangeScore, IInv, TypeOK, RestType
  <2>3. QED BY <2>1, <2>2 DEF IInv, TypeOK, LoginInv, LoginType, RestType
<1>14. ASSUME NEW a \in Accounts, NEW p \in Passwords, UpdatePassword(a, p)
       PROVE  IInv'
  <2>1. LoginInv' BY <1>1, <1>14, PasswordStep
  <2>2. RestType'
    BY <1>1, <1>14, BoundAssumption DEF UpdatePassword, session, IInv, TypeOK, RestType
  <2>3. QED BY <2>1, <2>2 DEF IInv, TypeOK, LoginInv, LoginType, RestType
<1>15. CASE UNCHANGED vars
  <2>1. LoginInv'
    BY <1>1, <1>15, QuietStep DEF vars, session, IInv, TypeOK
  <2>2. RestType' BY <1>1, <1>15 DEF vars, session, IInv, TypeOK, RestType
  <2>3. QED BY <2>1, <2>2 DEF IInv, TypeOK, LoginInv, LoginType, RestType
<1>16. \A n \in Scores : n \in Int /\ -n \in Int
  BY ScoreAssumption
<1>17. QED
  BY <1>1, <1>2, <1>3, <1>4, <1>5, <1>6, <1>7, <1>8, <1>9, <1>10, <1>11, <1>12, <1>13,
     <1>14, <1>15, <1>16 DEF Next

(* Whatever clients send, whichever statements fail and however sessions   *)
(* are recycled, the inductive invariant holds.                            *)
THEOREM Invariance == Spec => []IInv
BY InitInv, NextInv, PTL DEF Spec

(* Types, the score's in particular: a score goes through %d and atoi to   *)
(* the database and back without leaving 32 bits.                          *)
THEOREM TypeCorrect == Spec => []TypeOK
<1>1. IInv => TypeOK BY DEF IInv
<1>2. QED BY <1>1, Invariance, PTL

(* GetIndividualUser keeps an account from two sessions of a thread that   *)
(* both type it as it was registered.                                      *)
THEOREM OneSessionCorrect == Spec => []OneSessionPerAccount
<1>1. IInv => OneSessionPerAccount BY DEF IInv
<1>2. QED BY <1>1, Invariance, PTL

(* HandleLogin calls online only a user who is: an account in the memory   *)
(* of a session is that of an accepted login on an open connection.        *)
THEOREM RefusalCorrect == Spec => []RefusalMeansOnline
<1>1. IInv => RefusalMeansOnline
  <2>1. SUFFICES ASSUME IInv, NEW t \in Threads, NEW n \in Names, NEW s \in InMap(t),
                        user_info[s].account = n
                 PROVE  LoggedIn(s, KeyOf[n])
    BY DEF RefusalMeansOnline, GetIndividualUser
  <2>2. s \in Sessions BY DEF InMap
  <2>3. stateMachine[s] # "STATE_AUTH" /\ Connected(s)
    BY <2>1, <2>2, ValueAssumption DEF IInv, AccountIsLogin
  <2>4. QED BY <2>1, <2>2, <2>3, ValueAssumption DEF IInv, TypeOK, LoggedIn, InState
<1>2. QED BY <1>1, Invariance, PTL

(* A session shows its user what the database holds, except in columns     *)
(* written in vain or by someone else.                                     *)
THEOREM MemoryCorrect == Spec => []MemoryIsRow
<1>1. IInv => MemoryIsRow BY DEF IInv
<1>2. QED BY <1>1, Invariance, PTL

(* What a step may do to the row of account a.                             *)
RowStep(a) ==
    users_info[a] # Absent =>
      /\ users_info'[a] # Absent
      /\ \/ users_info'[a] = [users_info[a] EXCEPT !.password = users_info'[a].password]
         \/ \E s \in Sessions : LoggedIn(s, a) /\ stateMachine[s] = "STATE_GAME"

(* A row that stays is not touched.                                        *)
LEMMA SameRow ==
    ASSUME TypeOK, NEW a \in Accounts, users_info'[a] = users_info[a]
    PROVE  RowStep(a)
BY DEF RowStep, TypeOK, Row

(* Writing columns touches the row of the writer's account only.           *)
LEMMA OwnerWrites ==
    ASSUME IInv, NEW s \in Sessions, InState(s, {"STATE_GAME"}), NEW u,
           u.account = user_info[s].account, NEW cs, NEW failed,
           WriteColumns(s, u, cs, failed), user_info' \in [Sessions -> UsersInfo]
    PROVE  \A a \in Accounts : RowStep(a)
<1>1. user_info'[s] = u /\ u \in UsersInfo
  BY DEF WriteColumns, IInv, TypeOK
<1>2. ASSUME NEW a \in Accounts PROVE RowStep(a)
  <2>1. CASE a # KeyOf[u.account]
    BY <2>1, SameRow DEF WriteColumns, IInv, TypeOK
  <2>2. CASE a = KeyOf[u.account]
    <3>1. LoggedIn(s, a) /\ stateMachine[s] = "STATE_GAME"
      BY <2>2 DEF LoggedIn, InState, IInv, AccountIsLogin
    <3>2. SUFFICES ASSUME users_info[a] # Absent PROVE users_info'[a] # Absent
      BY <3>1 DEF RowStep
    <3>3. users_info[a] \in Row /\ users_info'[a] = Update(users_info[a], u, cs \ failed)
      BY <2>2, <3>2 DEF WriteColumns, IInv, TypeOK
    <3>4. QED BY <1>1, <3>3, UpdateType, AbsentAssumption
  <2>3. QED BY <2>1, <2>2
<1>3. QED BY <1>2

(* A registration never touches a row that is there; update.py touches its *)
(* password; everything else is written by a session of the account.       *)
THEOREM RowsCorrect == Spec => RowsAreTheirOwners
<1>1. ASSUME IInv, IInv', [Next]_vars PROVE \A a \in Accounts : RowStep(a)
  <2>1. CASE UNCHANGED users_info
    BY <1>1, <2>1, SameRow DEF IInv
  <2>2. ASSUME NEW s \in Sessions, NEW n \in Names, NEW p \in Passwords,
               HandleRegister(s, n, p)
        PROVE  \A a \in Accounts : RowStep(a)
    <3>1. CASE UNCHANGED users_info BY <2>1, <3>1
    <3>2. CASE InsertUsersInfoToDB(n, p)
      <4>1. ASSUME NEW a \in Accounts, users_info[a] # Absent
            PROVE  users_info'[a] = users_info[a]
        BY <1>1, <3>2, <4>1 DEF InsertUsersInfoToDB, IInv, TypeOK
      <4>2. QED BY <1>1, <4>1, SameRow DEF RowStep, IInv
    <3>3. QED BY <2>2, <3>1, <3>2 DEF HandleRegister
  <2>3. ASSUME NEW s \in Sessions, NEW info \in Updates, UpdateUserInfos(s, info)
        PROVE  \A a \in Accounts : RowStep(a)
    <3> DEFINE cs == Changed(s, info)
               u == [user_info[s] EXCEPT
                       !.user_name = IF "user_name" \in cs THEN info.user_name ELSE @,
                       !.password = IF "password" \in cs THEN info.password ELSE @,
                       !.email = IF "email" \in cs THEN info.email ELSE @,
                       !.phone = IF "phone" \in cs THEN info.phone ELSE @,
                       !.head_photo = IF "head_photo" \in cs THEN info.head_photo ELSE @]
    <3>1. PICK failed \in SUBSET cs : WriteColumns(s, u, cs, failed)
      BY <2>3 DEF UpdateUserInfos
    <3>2. user_info[s] \in UsersInfo BY <1>1 DEF IInv, TypeOK
    <3> HIDE DEF cs
    <3>3. u.account = user_info[s].account
      BY <3>2 DEF UsersInfo
    <3> HIDE DEF u
    <3>4. InState(s, {"STATE_GAME"}) /\ user_info' \in [Sessions -> UsersInfo]
      BY <1>1, <2>3 DEF UpdateUserInfos, IInv, TypeOK
    <3>5. QED BY <1>1, <3>1, <3>3, <3>4, OwnerWrites
  <2>4. ASSUME NEW s \in Sessions, NEW n \in Int, ChangeScore(s, n)
        PROVE  \A a \in Accounts : RowStep(a)
    <3> DEFINE u == [user_info[s] EXCEPT !.score = (@ + n) % ScoreMod]
    <3>1. PICK failed \in SUBSET {"score"} : WriteColumns(s, u, {"score"}, failed)
      BY <2>4 DEF ChangeScore
    <3>2. user_info[s] \in UsersInfo BY <1>1 DEF IInv, TypeOK
    <3>3. u.account = user_info[s].account
      BY <3>2 DEF UsersInfo
    <3> HIDE DEF u
    <3>4. InState(s, {"STATE_GAME"}) /\ user_info' \in [Sessions -> UsersInfo]
      BY <1>1, <2>4 DEF ChangeScore, IInv, TypeOK
    <3>5. QED BY <1>1, <3>1, <3>3, <3>4, OwnerWrites
  <2>5. ASSUME NEW b \in Accounts, NEW p \in Passwords, UpdatePassword(b, p)
        PROVE  \A a \in Accounts : RowStep(a)
    <3>1. /\ users_info[b] \in Row /\ p \in Text
          /\ users_info' = [users_info EXCEPT ![b] = [users_info[b] EXCEPT !.password = p]]
      BY <1>1, <2>5, ValueAssumption DEF UpdatePassword, IInv, TypeOK, Text
    <3>2. ASSUME NEW a \in Accounts, a # b PROVE RowStep(a)
      BY <1>1, <3>1, <3>2, SameRow DEF IInv, TypeOK
    <3>3. users_info'[b] = [users_info[b] EXCEPT !.password = p]
      BY <1>1, <3>1 DEF IInv, TypeOK
    <3>4. users_info'[b] \in Row /\ users_info'[b].password = p
      BY <3>1, <3>3 DEF Row
    <3>5. RowStep(b)
      BY <3>3, <3>4, AbsentAssumption DEF RowStep
    <3>6. QED BY <3>2, <3>5
  <2>6. \A n \in Scores : n \in Int /\ -n \in Int
    BY ScoreAssumption
  <2>7. CASE Next
    <3>1. CASE UNCHANGED users_info BY <2>1, <3>1
    <3>2. CASE ~ UNCHANGED users_info
      BY <2>2, <2>3, <2>4, <2>5, <2>6, <2>7, <3>2
         DEF Next, Connect, ClosingClientCon, EndConnection, OtherAuthMessage, LoginRefused,
             WrongPassword, LoginAccepted, DownloadImageInfo, AdContent, AdContentMissing
    <3>3. QED BY <3>1, <3>2
  <2>8. QED BY <1>1, <2>1, <2>7 DEF vars
<1>2. ASSUME IInv, IInv', [Next]_vars
      PROVE  [\A a \in Accounts :
                users_info[a] # Absent =>
                  /\ users_info'[a] # Absent
                  /\ \/ users_info'[a] = [users_info[a] EXCEPT !.password = users_info'[a].password]
                     \/ \E s \in Sessions : LoggedIn(s, a) /\ stateMachine[s] = "STATE_GAME"]_vars
  BY <1>1, <1>2 DEF RowStep
<1>3. QED BY <1>2, Invariance, PTL DEF Spec, RowsAreTheirOwners
-----------------------------------------------------------------------------
(* The first n units of advertisement i.                                   *)
Beginning(i, n) == SubSeq(Content(i), 1, n)

AdUnit == (DOMAIN ImageSize) \X Nat

(* A download, from the state machine, the buffer and the file of a session*)
(* and from what its client got and asked for: outside STATE_AUTH there is *)
(* a buffer, and a file is open exactly while its beginning has been sent. *)
Reading(sm, buf, fp, g, ids) ==
    /\ sm # "STATE_AUTH" => buf > 0
    /\ fp = NULL => g = <<>> /\ ids = {}
    /\ fp # NULL => /\ sm = "STATE_DOWN_AD"
                    /\ fp.image \in ids
                    /\ fp.offset <= ImageSize[fp.image]
                    /\ g = Beginning(fp.image, fp.offset)

Downloads ==
    /\ got \in [Sessions -> Seq(AdUnit)]
    /\ \A s \in Sessions :
         Reading(stateMachine[s], buf_size[s], ad_img_fp[s], got[s], asked[s])

(* An advertisement is a sequence of units.                                *)
LEMMA ContentType ==
    ASSUME NEW i \in DOMAIN ImageSize
    PROVE  Content(i) \in Seq(AdUnit) /\ Len(Content(i)) = ImageSize[i]
<1>1. ImageSize[i] \in Nat
  BY ImageAssumption
<1>2. Content(i) \in [1 .. ImageSize[i] -> AdUnit]
  <2>1. \A k \in 1 .. ImageSize[i] : <<i, k>> \in AdUnit
    BY <1>1 DEF AdUnit
  <2>2. QED BY <2>1 DEF Content
<1>3. QED BY <1>1, <1>2

(* A beginning and the piece that comes next are a longer beginning.       *)
LEMMA Pieces ==
    ASSUME NEW i \in DOMAIN ImageSize, NEW m \in 0 .. ImageSize[i],
           NEW n \in 0 .. (ImageSize[i] - m)
    PROVE  Beginning(i, m) \o SubSeq(Content(i), m + 1, m + n) = Beginning(i, m + n)
<1>1. ImageSize[i] \in Nat
  BY ImageAssumption
<1>2. Content(i) \in Seq(AdUnit) /\ Len(Content(i)) = ImageSize[i]
  BY ContentType
<1> DEFINE c == Content(i)
           size == ImageSize[i]
<1> HIDE DEF c, size
<1>3. /\ 1 \in 1 .. Len(c) + 1 /\ m \in 1 - 1 .. Len(c) /\ m + n \in m .. Len(c)
  BY <1>1, <1>2 DEF c
<1>4. SubSeq(c, 1, m) \o SubSeq(c, m + 1, m + n) = SubSeq(c, 1, m + n)
  BY <1>2, <1>3, ConcatAdjacentSubSeq DEF c
<1>5. QED BY <1>4 DEF Beginning, c

(* A beginning is as long as it says, the empty one is empty, and the one  *)
(* as long as the advertisement is all of it.                              *)
LEMMA BeginningProperties ==
    ASSUME NEW i \in DOMAIN ImageSize, NEW n \in 0 .. ImageSize[i]
    PROVE  /\ Beginning(i, n) \in Seq(AdUnit)
           /\ Len(Beginning(i, n)) = n
           /\ n = 0 => Beginning(i, n) = <<>>
           /\ n = ImageSize[i] => Beginning(i, n) = Content(i)
<1>1. ImageSize[i] \in Nat
  BY ImageAssumption
<1>2. Content(i) \in Seq(AdUnit) /\ Len(Content(i)) = ImageSize[i]
  BY ContentType
<1>3. n = 0 => Beginning(i, n) = <<>>
  BY SubSeqEmpty DEF Beginning
<1>4. n = ImageSize[i] => Beginning(i, n) = Content(i)
  BY <1>2, SubSeqFull DEF Beginning
<1>5. Beginning(i, n) \in Seq(AdUnit) /\ Len(Beginning(i, n)) = n
  BY <1>1, <1>2 DEF Beginning
<1>6. QED BY <1>3, <1>4, <1>5

(* After GetBuffer the session has a buffer, and none was taken away.      *)
LEMMA BufferThere ==
    ASSUME TypeOK, NEW s \in Sessions, NEW n \in Nat, GetBuffer(s, n)
    PROVE  /\ buf_size'[s] > 0
           /\ \A r \in Sessions : buf_size[r] > 0 => buf_size'[r] > 0
BY BufferAssumption DEF GetBuffer, TypeOK

(* A step that changes no file and, of the session states, at most sends   *)
(* somebody with a buffer and no file on.                                  *)
LEMMA NoReading ==
    ASSUME Downloads, UNCHANGED <<ad_img_fp, got, asked>>,
           \A s \in Sessions :
             /\ buf_size[s] > 0 => buf_size'[s] > 0
             /\ \/ stateMachine'[s] = stateMachine[s]
                \/ ad_img_fp[s] = NULL /\ buf_size'[s] > 0
    PROVE  Downloads'
<1> SUFFICES ASSUME NEW s \in Sessions
             PROVE  Reading(stateMachine'[s], buf_size'[s], ad_img_fp'[s], got'[s], asked'[s])
  BY DEF Downloads
<1>1. Reading(stateMachine[s], buf_size[s], ad_img_fp[s], got[s], asked[s])
  BY DEF Downloads
<1>2. QED BY <1>1 DEF Reading

(* A step of one session leaves the downloads of the others alone.         *)
LEMMA OneReading ==
    ASSUME IInv, Downloads, NEW s \in Sessions,
           NEW sm, NEW buf, NEW fp, NEW ids,
           NEW g \in Seq(AdUnit),
           stateMachine' = [stateMachine EXCEPT ![s] = sm],
           buf_size' = [buf_size EXCEPT ![s] = buf],
           ad_img_fp' = [ad_img_fp EXCEPT ![s] = fp],
           got' = [got EXCEPT ![s] = g],
           asked' = [asked EXCEPT ![s] = ids],
           Reading(sm, buf, fp, g, ids)
    PROVE  Downloads'
<1>1. got' \in [Sessions -> Seq(AdUnit)]
  BY DEF Downloads
<1>2. ASSUME NEW r \in Sessions
      PROVE  Reading(stateMachine'[r], buf_size'[r], ad_img_fp'[r], got'[r], asked'[r])
  <2>1. CASE r = s
    <3>1. /\ stateMachine'[r] = sm /\ buf_size'[r] = buf /\ ad_img_fp'[r] = fp
          /\ got'[r] = g /\ asked'[r] = ids
      BY <2>1 DEF IInv, TypeOK, Downloads
    <3>2. QED BY <3>1
  <2>2. CASE r # s
    <3>1. /\ stateMachine'[r] = stateMachine[r] /\ buf_size'[r] = buf_size[r]
          /\ ad_img_fp'[r] = ad_img_fp[r] /\ got'[r] = got[r] /\ asked'[r] = asked[r]
      BY <2>2 DEF IInv, TypeOK, Downloads
    <3>2. Reading(stateMachine[r], buf_size[r], ad_img_fp[r], got[r], asked[r])
      BY DEF Downloads
    <3>3. QED BY <3>1, <3>2
  <2>3. QED BY <2>1, <2>2
<1>3. QED BY <1>1, <1>2 DEF Downloads

(* The end of a connection closes the file.                                *)
LEMMA EndReading ==
    ASSUME IInv, Downloads, NEW s \in Sessions, EndConnection(s)
    PROVE  Downloads'
<1>1. /\ stateMachine' = [stateMachine EXCEPT ![s] = "STATE_AUTH"]
      /\ ad_img_fp' = [ad_img_fp EXCEPT ![s] = NULL]
      /\ got' = [got EXCEPT ![s] = <<>>]
      /\ asked' = [asked EXCEPT ![s] = {}]
      /\ buf_size' = buf_size
  BY DEF EndConnection, DestructResource
<1>2. buf_size' = [buf_size EXCEPT ![s] = buf_size[s]]
  BY <1>1 DEF IInv, TypeOK
<1>3. <<>> \in Seq(AdUnit)
  OBVIOUS
<1>4. Reading("STATE_AUTH", buf_size[s], NULL, <<>>, {})
  BY DEF Reading
<1>5. QED BY <1>1, <1>2, <1>3, <1>4, OneReading

(* A request for content: the next piece of the open file, or its end.     *)
LEMMA ContentReading ==
    ASSUME IInv, Downloads, NEW s \in Sessions, NEW id \in DOMAIN ImageSize,
           NEW last_one \in BOOLEAN, AdContent(s, id, last_one)
    PROVE  /\ Downloads'
           /\ ad_img_fp[s] # NULL /\ ad_img_fp'[s] = NULL =>
                got[s] = Content(ad_img_fp[s].image)
           /\ stateMachine'[s] = "STATE_GAME" => ad_img_fp'[s] = NULL
           /\ \A r \in Sessions \ {s} : /\ ad_img_fp'[r] = ad_img_fp[r]
                                        /\ stateMachine'[r] = stateMachine[r]
<1> PICK fp : fp = OpenImage(s, id)
  OBVIOUS
<1> PICK n : n = ReadSize(s, fp)
  OBVIOUS
<1> PICK size : size = ImageSize[fp.image]
  OBVIOUS
<1> PICK sm : sm = stateMachine'[s]
  OBVIOUS
<1>1. /\ stateMachine[s] = "STATE_DOWN_AD"
      /\ SendImageContent(s, id, fp)
      /\ LeaveDownload(s, last_one)
  BY DEF AdContent, InState
<1>2. Reading(stateMachine[s], buf_size[s], ad_img_fp[s], got[s], asked[s])
  BY DEF Downloads
<1>3. fp \in [image : DOMAIN ImageSize, offset : Nat]
  BY DEF OpenImage, IInv, TypeOK
<1>4. /\ size \in Nat /\ buf_size[s] \in Nat /\ buf_size[s] > 0
      /\ fp.offset \in Nat /\ fp.image \in DOMAIN ImageSize
  BY <1>1, <1>2, <1>3, ImageAssumption DEF IInv, TypeOK, Reading
<1>5. /\ fp.offset <= size /\ got[s] = Beginning(fp.image, fp.offset)
      /\ fp.image \in asked[s] \cup {id}
  <2>1. CASE ad_img_fp[s] # NULL
    BY <1>2, <2>1 DEF OpenImage, Reading
  <2>2. CASE ad_img_fp[s] = NULL
    <3>1. fp = [image |-> id, offset |-> 0] /\ got[s] = <<>>
      BY <1>2, <2>2 DEF OpenImage, Reading
    <3>2. Beginning(id, 0) = <<>>
      BY SubSeqEmpty DEF Beginning
    <3>3. QED BY <1>4, <3>1, <3>2
  <2>3. QED BY <2>1, <2>2
<1>6. /\ n \in Nat /\ n \in 0 .. (size - fp.offset)
      /\ n = 0 => fp.offset = size
  BY <1>4, <1>5 DEF ReadSize
<1> n \in Nat /\ size \in Nat /\ fp.offset \in Nat /\ fp.offset + n <= size
  BY <1>4, <1>6
<1>7. n + Framing \in Nat
  BY BufferAssumption
<1>8. Beginning(fp.image, fp.offset) \o SubSeq(Content(fp.image), fp.offset + 1, fp.offset + n)
         = Beginning(fp.image, fp.offset + n)
  <2>1. /\ fp.offset \in 0 .. ImageSize[fp.image]
        /\ n \in 0 .. (ImageSize[fp.image] - fp.offset)
    BY <1>4, <1>5, <1>6
  <2>2. QED BY <1>4, <2>1, Pieces
<1>9. /\ stateMachine' = [stateMachine EXCEPT ![s] = sm]
      /\ sm = IF last_one /\ ad_img_fp'[s] = NULL THEN "STATE_GAME" ELSE "STATE_DOWN_AD"
  BY <1>1 DEF LeaveDownload, IInv, TypeOK
<1>10. CASE n > 0
  <2> PICK fp2 : fp2 = [fp EXCEPT !.offset = @ + n]
    OBVIOUS
  <2> PICK g : g = got[s] \o SubSeq(Content(fp.image), fp.offset + 1, fp.offset + n)
    OBVIOUS
  <2>1. /\ ad_img_fp' = [ad_img_fp EXCEPT ![s] = fp2]
        /\ got' = [got EXCEPT ![s] = g]
        /\ asked' = [asked EXCEPT ![s] = asked[s] \cup {id}]
        /\ GetBuffer(s, n + Framing)
    BY <1>1, <1>10 DEF SendImageContent
  <2>2. fp2.image = fp.image /\ fp2.offset = fp.offset + n /\ fp2.offset # 0
    BY <1>3, <1>4, <1>6, <1>10
  <2>3. fp2 # NULL
    BY <2>2 DEF NULL
  <2>4. ad_img_fp'[s] = fp2
    BY <2>1 DEF IInv, TypeOK
  <2>5. sm = "STATE_DOWN_AD"
    BY <1>9, <2>3, <2>4
  <2>6. g = Beginning(fp2.image, fp2.offset)
    BY <1>5, <1>8, <2>2
  <2>7. g \in Seq(AdUnit)
    <3>1. fp2.offset \in 0 .. size
      BY <2>2
    <3>2. fp2.offset \in 0 .. ImageSize[fp2.image] /\ fp2.image \in DOMAIN ImageSize
      BY <1>4, <2>2, <3>1
    <3>3. QED BY <2>6, <3>2, BeginningProperties
  <2>8. /\ buf_size' = [buf_size EXCEPT ![s] = buf_size'[s]]
        /\ buf_size'[s] > 0
    BY <1>7, <2>1, BufferThere DEF GetBuffer, IInv, TypeOK
  <2>9. fp2.offset <= ImageSize[fp2.image]
    BY <1>4, <1>6, <2>2
  <2>10. Reading(sm, buf_size'[s], fp2, g, asked[s] \cup {id})
    BY <1>5, <2>2, <2>3, <2>5, <2>6, <2>8, <2>9 DEF Reading
  <2>11. Downloads'
    BY <1>9, <2>1, <2>7, <2>8, <2>10, OneReading
  <2>12. QED
    BY <1>9, <2>1, <2>3, <2>4, <2>5, <2>11 DEF IInv, TypeOK
<1>11. CASE n = 0
  <2>1. /\ ad_img_fp' = [ad_img_fp EXCEPT ![s] = NULL]
        /\ got' = [got EXCEPT ![s] = <<>>]
        /\ asked' = [asked EXCEPT ![s] = {}]
        /\ buf_size' = buf_size
    BY <1>1, <1>11 DEF SendImageContent
  <2>2. buf_size' = [buf_size EXCEPT ![s] = buf_size[s]]
    BY <2>1 DEF IInv, TypeOK
  <2>3. Reading(sm, buf_size[s], NULL, <<>>, {})
    BY <1>4 DEF Reading
  <2>4. <<>> \in Seq(AdUnit)
    OBVIOUS
  <2>5. Downloads'
    BY <1>9, <2>1, <2>2, <2>3, <2>4, OneReading
  <2>6. got[s] = Content(fp.image)
    <3>1. fp.offset \in 0 .. ImageSize[fp.image] /\ fp.offset = ImageSize[fp.image]
      BY <1>4, <1>6, <1>11
    <3>2. QED BY <1>4, <1>5, <3>1, BeginningProperties
  <2>7. ad_img_fp[s] # NULL => got[s] = Content(ad_img_fp[s].image)
    BY <2>6 DEF OpenImage
  <2>8. QED
    BY <1>9, <2>1, <2>5, <2>7 DEF IInv, TypeOK
<1>12. QED BY <1>4, <1>6, <1>10, <1>11

(* What a step may do to the file of a session: a file that is closed on an*)
(* open connection has been sent, and no session takes one to the hall.    *)
ReadStep ==
    \A s \in Sessions :
      ad_img_fp[s] # NULL /\ Connected(s)' =>
        \/ ad_img_fp'[s] # NULL /\ stateMachine'[s] # "STATE_GAME"
        \/ got[s] = Content(ad_img_fp[s].image)

(* A step that leaves the files alone and sends on only sessions that have *)
(* none.                                                                   *)
LEMMA FilesStay ==
    ASSUME Downloads, ad_img_fp' = ad_img_fp,
           \A s \in Sessions : \/ stateMachine'[s] = stateMachine[s]
                               \/ ad_img_fp[s] = NULL
    PROVE  ReadStep
BY DEF ReadStep, Downloads, Reading

(* Every step keeps the downloads in order.                                *)
LEMMA DownloadStep ==
    ASSUME IInv, Downloads, [Next]_vars
    PROVE  Downloads' /\ ReadStep
<1>1. ASSUME UNCHANGED <<stateMachine, ad_img_fp, got, asked>>,
             \A r \in Sessions : buf_size[r] > 0 => buf_size'[r] > 0
      PROVE  Downloads' /\ ReadStep
  BY <1>1, NoReading, FilesStay
<1>2. CASE UNCHANGED vars
  BY <1>1, <1>2 DEF vars, session
<1>3. ASSUME NEW s \in Sessions, EndConnection(s)
      PROVE  Downloads' /\ ReadStep
  <2>1. Downloads'
    BY <1>3, EndReading
  <2>2. /\ ~ Connected(s)'
        /\ \A r \in Sessions \ {s} : /\ ad_img_fp'[r] = ad_img_fp[r]
                                     /\ stateMachine'[r] = stateMachine[r]
    BY <1>3, ValueAssumption DEF EndConnection, DestructResource, Connected, IInv, TypeOK
  <2>3. \A r \in Sessions : ad_img_fp[r] # NULL => stateMachine[r] = "STATE_DOWN_AD"
    BY DEF Downloads, Reading
  <2>4. QED BY <2>1, <2>2, <2>3 DEF ReadStep
<1>4. ASSUME NEW s \in Sessions, NEW n \in Nat, AuthMessage(s, n),
             stateMachine' = stateMachine
      PROVE  Downloads' /\ ReadStep
  BY <1>1, <1>4, BufferThere DEF AuthMessage, IInv
<1>5. ASSUME NEW s \in Sessions, NEW t, Connect(s, t)
      PROVE  Downloads' /\ ReadStep
  BY <1>1, <1>5 DEF Connect
<1>6. ASSUME NEW s \in Sessions, NEW tn \in Names, NEW p, LoginAccepted(s, tn, p)
      PROVE  Downloads' /\ ReadStep
  <2>1. PICK n \in Nat : AuthMessage(s, n)
    BY <1>6, BufferAssumption DEF LoginAccepted
  <2>2. /\ stateMachine' = [stateMachine EXCEPT ![s] = "STATE_DOWN_AD"]
        /\ UNCHANGED <<ad_img_fp, got, asked>>
        /\ stateMachine[s] = "STATE_AUTH"
    BY <1>6, <2>1 DEF LoginAccepted, AuthMessage, InState
  <2>3. ad_img_fp[s] = NULL
    BY <2>2 DEF Downloads, Reading
  <2>4. buf_size'[s] > 0 /\ \A r \in Sessions : buf_size[r] > 0 => buf_size'[r] > 0
    BY <2>1, BufferThere DEF AuthMessage, IInv
  <2>5. \A r \in Sessions : r # s => stateMachine'[r] = stateMachine[r]
    BY <2>2 DEF IInv, TypeOK
  <2>6. QED BY <2>2, <2>3, <2>4, <2>5, NoReading, FilesStay
<1>7. ASSUME NEW s \in Sessions, NEW last_one, DownloadImageInfo(s, last_one)
      PROVE  Downloads' /\ ReadStep
  <2>1. /\ stateMachine[s] = "STATE_DOWN_AD"
        /\ UNCHANGED <<ad_img_fp, got, asked, buf_size>>
        /\ LeaveDownload(s, last_one)
    BY <1>7 DEF DownloadImageInfo, InState
  <2>2. buf_size[s] > 0
    BY <2>1 DEF Downloads, Reading
  <2>3. \A r \in Sessions : \/ stateMachine'[r] = stateMachine[r]
                            \/ r = s /\ ad_img_fp[s] = NULL
    BY <2>1 DEF LeaveDownload, IInv, TypeOK
  <2>4. QED BY <2>1, <2>2, <2>3, NoReading, FilesStay
<1>8. ASSUME NEW s \in Sessions, NEW id \in DOMAIN ImageSize, NEW last_one \in BOOLEAN,
             AdContent(s, id, last_one)
      PROVE  Downloads' /\ ReadStep
  <2>1. /\ Downloads'
        /\ ad_img_fp[s] # NULL /\ ad_img_fp'[s] = NULL =>
             got[s] = Content(ad_img_fp[s].image)
        /\ stateMachine'[s] = "STATE_GAME" => ad_img_fp'[s] = NULL
        /\ \A r \in Sessions \ {s} : /\ ad_img_fp'[r] = ad_img_fp[r]
                                     /\ stateMachine'[r] = stateMachine[r]
    BY <1>8, ContentReading
  <2>2. \A r \in Sessions : ad_img_fp[r] # NULL => stateMachine[r] = "STATE_DOWN_AD"
    BY DEF Downloads, Reading
  <2>3. QED BY <2>1, <2>2 DEF ReadStep
<1>9. ASSUME NEW s \in Sessions, NEW info \in Updates, UpdateUserInfos(s, info)
      PROVE  Downloads' /\ ReadStep
  <2>1. PICK n \in Nat : GetBuffer(s, n)
    BY <1>9, BufferAssumption DEF UpdateUserInfos
  <2>2. \A r \in Sessions : buf_size[r] > 0 => buf_size'[r] > 0
    BY <2>1, BufferThere DEF IInv
  <2>3. QED BY <1>1, <1>9, <2>2 DEF UpdateUserInfos
<1>10. ASSUME NEW s \in Sessions, NEW n, ChangeScore(s, n)
       PROVE  Downloads' /\ ReadStep
  BY <1>1, <1>10 DEF ChangeScore
<1>11. ASSUME NEW a, NEW p, UpdatePassword(a, p)
       PROVE  Downloads' /\ ReadStep
  BY <1>1, <1>11 DEF UpdatePassword, session
<1>12. ASSUME NEW s \in Sessions, NEW a, NEW p,
              \/ OtherAuthMessage(s) \/ LoginRefused(s, a, p)
              \/ HandleRegister(s, a, p) \/ WrongPassword(s, a, p)
       PROVE  Downloads' /\ ReadStep
  BY <1>4, <1>12 DEF OtherAuthMessage, LoginRefused, HandleRegister, WrongPassword
<1>13. ASSUME NEW s \in Sessions, NEW id, ClosingClientCon(s) \/ AdContentMissing(s, id)
       PROVE  Downloads' /\ ReadStep
  BY <1>3, <1>13 DEF ClosingClientCon, AdContentMissing
<1>14. ASSUME NEW s \in Sessions, ClosingClientCon(s) \/ OtherAuthMessage(s)
       PROVE  Downloads' /\ ReadStep
  BY <1>12, <1>13, <1>14
<1>15. CASE Next
  BY <1>5, <1>6, <1>7, <1>8, <1>9, <1>10, <1>11, <1>12, <1>13, <1>14, <1>15 DEF Next
<1>16. QED BY <1>2, <1>15

(* No file is open at first.                                               *)
LEMMA InitDownloads == Init => Downloads
<1>1. <<>> \in Seq(AdUnit)
  OBVIOUS
<1>2. QED BY <1>1 DEF Init, Downloads, Reading

(* Downloads are in order in every reachable state.                        *)
LEMMA DownloadsInvariance == Spec => []Downloads
<1>1. IInv /\ Downloads /\ [Next]_vars => Downloads'
  BY DownloadStep
<1>2. QED BY <1>1, InitDownloads, Invariance, PTL DEF Spec

(* SendImageContent: whoever asks for one advertisement at a time gets that*)
(* one from its start and without a gap, whoever used the session before.  *)
THEOREM ImageCorrect == Spec => []ImageIsTheOneAsked
<1>1. IInv /\ Downloads => ImageIsTheOneAsked
  <2> SUFFICES ASSUME IInv, Downloads, NEW s \in Sessions, NEW i \in DOMAIN ImageSize,
                      asked[s] = {i}
               PROVE  /\ Len(got[s]) <= ImageSize[i]
                      /\ got[s] = SubSeq(Content(i), 1, Len(got[s]))
    BY DEF ImageIsTheOneAsked
  <2>1. Reading(stateMachine[s], buf_size[s], ad_img_fp[s], got[s], asked[s])
    BY DEF Downloads
  <2> PICK n : n = ad_img_fp[s].offset
    OBVIOUS
  <2>2. ad_img_fp[s] # NULL
    BY <2>1 DEF Reading
  <2>3. ad_img_fp[s].image = i /\ n <= ImageSize[i] /\ got[s] = Beginning(i, n)
    BY <2>1, <2>2 DEF Reading
  <2>4. n \in 0 .. ImageSize[i]
    BY <2>2, <2>3, ImageAssumption DEF IInv, TypeOK
  <2>5. Len(Beginning(i, n)) = n
    BY <2>4, BeginningProperties
  <2>6. QED BY <2>3, <2>4, <2>5, ImageAssumption DEF Beginning
<1>2. QED BY <1>1, Invariance, DownloadsInvariance, PTL

(* SendImageContent says "ended" only after the whole file, whatever the   *)
(* buffer had grown to, and nobody goes to the hall with a file open.      *)
THEOREM WholeImageCorrect == Spec => WholeImageIsSent
<1>1. IInv /\ Downloads /\ [Next]_vars => [ReadStep]_vars
  BY DownloadStep
<1>2. QED
  BY <1>1, Invariance, DownloadsInvariance, PTL DEF Spec, WholeImageIsSent, ReadStep

=============================================================================
