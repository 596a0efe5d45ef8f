------------------------------ MODULE Accounts ------------------------------
(***************************************************************************)
(* A session from its connection to the game hall: registration and login  *)
(* (stateauth.cpp), download of the advertisements and changes of the      *)
(* user's data (statecommon.cpp), the score (usersession.cpp), the rows of *)
(* users_info behind them (thread.cpp, mysqldb.cpp), and the UserSession   *)
(* object, which the next connection uses again.                           *)
(*                                                                         *)
(* A handler runs to its end before its thread takes another message, so   *)
(* it is one action.  Its SQL statements may interleave with those of      *)
(* another thread or of update.py only where both use the row of one       *)
(* account; `stale' then says which columns the session no longer knows.   *)
(* Any statement may fail.                                                 *)
(*                                                                         *)
(* A client may type an account in several spellings: for MySQL they are   *)
(* one value of the account column (its default collation ignores case),   *)
(* for the program different strings.                                      *)
(*                                                                         *)
(* stale, typed, got, asked and the counters are not in the program: they  *)
(* remember what a property is about, or bound the model.  Operators named *)
(* X_Fault, before X, are faulty variants of X used to show that a property*)
(* depends on it; no specification uses them.                              *)
(***************************************************************************)
EXTENDS Integers, Sequences, FiniteSets

CONSTANTS
    Sessions,     \* UserSession objects of the pool
    Threads,
    Accounts,     \* values of users_info.account, as MySQL tells them apart
    Names,        \* their spellings
    KeyOf,        \* the account that a spelling stands for
    Values,       \* contents of a column
    Passwords,    \* those of them that are tried as a password
    Updates,      \* UpdateUserInfo messages
    Newcomer,     \* the name every user starts with
    Empty,        \* the empty string
    Absent,       \* an optional field that was not sent, a row that is not there
    NoThread,
    ScoreMod,     \* 2^32 in the code
    NewScore,     \* score of a new user
    Scores,       \* amounts a game adds or takes
    ImageSize,    \* advertisements in the database and on the disk
    Missing,      \* ids of other advertisements
    MAX_DATA_LENGTH,
    Framing,      \* what a frame adds to the content it carries
    LargeFrame,   \* size of a message with a head image
    MaxDownloads, \* bound: advertisements being read at a time
    MaxChanges,   \* bound: changes of data that is in the database already
    MaxFailures   \* bound: SQL statements that fail

ASSUME ScoreAssumption == /\ ScoreMod \in Nat \ {0} /\ ScoreMod % 2 = 0
                          /\ NewScore \in 0 .. ScoreMod - 1
                          /\ Scores \subseteq Nat
ASSUME BufferAssumption == /\ MAX_DATA_LENGTH \in Nat \ {0}
                           /\ Framing \in Nat
                           /\ LargeFrame \in Nat
ASSUME ImageAssumption == /\ \A i \in DOMAIN ImageSize : ImageSize[i] \in Nat
                          /\ Missing \cap DOMAIN ImageSize = {}
ASSUME ValueAssumption == /\ {Empty, Newcomer} \cup Passwords \subseteq Values
                          /\ Empty \notin Names
                          /\ Absent \notin Values \cup Names
                          /\ NoThread \notin Threads
ASSUME NamesAssumption == KeyOf \in [Names -> Accounts]
ASSUME UpdatesAssumption ==
    Updates \subseteq [user_name : Values, password : Values, email : Values \cup {Absent},
                      phone : Values \cup {Absent}, head_photo : Values \cup {Absent}]
ASSUME BoundAssumption == {MaxDownloads, MaxChanges, MaxFailures} \subseteq Nat

VARIABLES
    thread,       \* of a connected session
    stateMachine, \* the type of the session's State: NULL acts as STATE_AUTH,
                  \* STATE_GAME is STATE_GAME_READY or STATE_GAME_PLAY
    user_info,    \* what the session knows of its user
    ad_img_fp,    \* the advertisement being read, and how far
    buf_size,     \* of the session's buffer, in the unit of ImageSize
    users_info,   \* the table: the row of an account
    stale,        \* columns where session and row may differ
    typed,        \* the spelling the user logged in with
    got,          \* content sent to the client since the file was opened
    asked,        \* advertisements it asked for since then
    changes, failures

session == <<thread, stateMachine, user_info, ad_img_fp, buf_size>>
vars == <<session, users_info, stale, typed, got, asked, changes, failures>>

Text == Values \cup Names
NULL == [image |-> Absent, offset |-> 0]
Columns == {"password", "email", "score", "head_photo", "user_name", "phone"}
ScoreRange == 0 .. ScoreMod - 1
MaxInt == ScoreMod \div 2 - 1

UsersInfo == [account : Names \cup {Empty}, password : Text, email : Text,
              score : ScoreRange, head_photo : Text, user_name : Text, phone : Text]
Row == [account : Names, password : Text, email : Text, head_photo : Text,
        user_name : Text, phone : Text, score : (MaxInt + 1 - ScoreMod) .. MaxInt]

ASSUME AbsentAssumption == Absent \notin Row

\* UsersInfo::Reset.
Blank == [account |-> Empty, password |-> Empty, email |-> Empty, score |-> 0,
          head_photo |-> Empty, user_name |-> Empty, phone |-> Empty]

\* A score is printed with %d into a signed column.
Stored_Fault(n) == IF n > MaxInt THEN MaxInt ELSE n
Stored(n) == IF n > MaxInt THEN n - ScoreMod ELSE n

\* ... and read with atoi into a u_int32.
Loaded_Fault(n) == n
Loaded(n) == n % ScoreMod

\* The row with the columns cs of user u.
Update(row, u, cs) ==
    [account    |-> row.account,
     password   |-> IF "password" \in cs THEN u.password ELSE row.password,
     email      |-> IF "email" \in cs THEN u.email ELSE row.email,
     score      |-> IF "score" \in cs THEN Stored(u.score) ELSE row.score,
     head_photo |-> IF "head_photo" \in cs THEN u.head_photo ELSE row.head_photo,
     user_name  |-> IF "user_name" \in cs THEN u.user_name ELSE row.user_name,
     phone      |-> IF "phone" \in cs THEN u.phone ELSE row.phone]

\* mysql_db_query: the row found for the name n, all but its image.  The
\* account is the one in the row, in the spelling it was registered with.
Query(u, n) ==
    LET row == users_info[KeyOf[n]]
    IN  [u EXCEPT !.account = row.account, !.password = row.password, !.email = row.email,
                  !.score = Loaded(row.score), !.user_name = row.user_name,
                  !.phone = row.phone]

\* mysql_db_excute: it fails for good, since the result of mysql_real_query
\* is never the CR_SERVER_GONE_ERROR it tries again for.
Fail(n) == failures + n <= MaxFailures /\ failures' = failures + n

InMap(t) == {s \in Sessions : thread[s] = t}
Connected(s) == thread[s] \in Threads
InState(s, S) == Connected(s) /\ stateMachine[s] \in S
LoggedIn(s, a) == /\ InState(s, {"STATE_DOWN_AD", "STATE_GAME"})
                  /\ user_info[s].account # Empty /\ KeyOf[user_info[s].account] = a

Init == /\ thread = [s \in Sessions |-> NoThread]
        /\ stateMachine = [s \in Sessions |-> "STATE_AUTH"]
        /\ user_info = [s \in Sessions |-> Blank]
        /\ ad_img_fp = [s \in Sessions |-> NULL]
        /\ buf_size = [s \in Sessions |-> 0]
        /\ users_info = [a \in Accounts |-> Absent]
        /\ stale = [s \in Sessions |-> {}]
        /\ typed = [s \in Sessions |-> Empty]
        /\ got = [s \in Sessions |-> <<>>]
        /\ asked = [s \in Sessions |-> {}]
        /\ changes = 0
        /\ failures = 0
-----------------------------------------------------------------------------
\* A thread takes a session from the pool for a new connection.
Connect(s, t) ==
    /\ thread[s] = NoThread
    /\ thread' = [thread EXCEPT ![s] = t]
    /\ UNCHANGED <<stateMachine, user_info, ad_img_fp, buf_size, users_info, stale, typed,
                   got, asked, changes, failures>>

GetBuffer(s, n) ==
    buf_size' = [buf_size EXCEPT ![s] =
                   IF @ = 0 /\ n < MAX_DATA_LENGTH THEN MAX_DATA_LENGTH
                   ELSE IF n > @ THEN n ELSE @]

DestructResource_Fault(s) ==
    /\ thread' = [thread EXCEPT ![s] = NoThread]
    /\ stateMachine' = [stateMachine EXCEPT ![s] = "STATE_AUTH"]
    /\ user_info' = [user_info EXCEPT ![s] = Blank]
    /\ UNCHANGED ad_img_fp

\* The session goes back to the pool with its buffer and nothing else.  (The
\* score a user loses by leaving a game is a ChangeScore before it.)
DestructResource(s) ==
    /\ thread' = [thread EXCEPT ![s] = NoThread]
    /\ stateMachine' = [stateMachine EXCEPT ![s] = "STATE_AUTH"]
    /\ user_info' = [user_info EXCEPT ![s] = Blank]
    /\ ad_img_fp' = [ad_img_fp EXCEPT ![s] = NULL]

\* The end of a connection: closed by the client, timed out, logged out, or
\* closed because its message has no handler in this state.
EndConnection(s) ==
    /\ DestructResource(s)
    /\ stale' = [stale EXCEPT ![s] = {}]
    /\ typed' = [typed EXCEPT ![s] = Empty]
    /\ got' = [got EXCEPT ![s] = <<>>]
    /\ asked' = [asked EXCEPT ![s] = {}]
    /\ UNCHANGED <<buf_size, users_info, changes>>

ClosingClientCon(s) == Connected(s) /\ EndConnection(s) /\ UNCHANGED failures
-----------------------------------------------------------------------------
\* Every message handled in STATE_AUTH: room for it and for its answer.
AuthMessage(s, n) ==
    /\ InState(s, {"STATE_AUTH"})
    /\ GetBuffer(s, n)
    /\ UNCHANGED <<thread, ad_img_fp, got, asked, changes>>

\* The row of a new user.
NewRow(n, p) == [account |-> n, password |-> p, email |-> n, score |-> Stored(NewScore),
                 head_photo |-> Empty, user_name |-> Newcomer, phone |-> Empty]

InsertUsersInfoToDB_Fault(n, p) ==
    users_info' = [users_info EXCEPT ![KeyOf[n]] = NewRow(n, p)]

\* The account is the primary key of the table.
InsertUsersInfoToDB(n, p) ==
    /\ users_info[KeyOf[n]] = Absent
    /\ users_info' = [users_info EXCEPT ![KeyOf[n]] = NewRow(n, p)]

HandleRegister(s, n, p) ==
    /\ AuthMessage(s, 1)
    /\ \/ InsertUsersInfoToDB(n, p) /\ UNCHANGED failures
       \/ users_info[KeyOf[n]] # Absent /\ UNCHANGED <<users_info, failures>>
       \/ Fail(1) /\ UNCHANGED users_info
    /\ UNCHANGED <<stateMachine, user_info, stale, typed>>

GetIndividualUser_Fault(t, n) ==
    \A s \in InMap(t) : ~ (user_info[s].account = n /\ stateMachine[s] = "STATE_GAME")

\* Nobody in this thread has an account spelled n: other threads are not asked.
GetIndividualUser(t, n) == \A s \in InMap(t) : user_info[s].account # n

LoginRefused(s, n, p) ==
    /\ AuthMessage(s, 1)
    /\ \/ ~ GetIndividualUser(thread[s], n) /\ UNCHANGED failures
       \/ n # Empty /\ users_info[KeyOf[n]] = Absent /\ UNCHANGED failures
       \/ n # Empty /\ GetIndividualUser(thread[s], n) /\ Fail(1)
    /\ UNCHANGED <<stateMachine, user_info, users_info, stale, typed>>

ForgetAccount_Fault(u) == u
ForgetAccount(u) == [u EXCEPT !.account = Empty]

\* The row of the account has been read by then; only its account is forgotten.
WrongPassword(s, n, p) ==
    /\ AuthMessage(s, 1)
    /\ GetIndividualUser(thread[s], n)
    /\ users_info[KeyOf[n]] # Absent /\ users_info[KeyOf[n]].password # p
    /\ user_info' = [user_info EXCEPT ![s] = ForgetAccount(Query(@, n))]
    /\ UNCHANGED <<stateMachine, users_info, stale, typed, failures>>

\* The rest of the row, its image, which a failed statement leaves as it was.
GetHeadImageFromDB(s, n) ==
    \/ /\ user_info' = [user_info EXCEPT ![s] =
             [Query(@, n) EXCEPT !.head_photo = users_info[KeyOf[n]].head_photo]]
       /\ stale' = [stale EXCEPT ![s] = {}]
       /\ UNCHANGED failures
    \/ /\ Fail(1)
       /\ user_info' = [user_info EXCEPT ![s] = Query(@, n)]
       /\ stale' = [stale EXCEPT ![s] = {"head_photo"}]

\* HandleLogin, when the password is right: the answer carries the image.
LoginAccepted(s, n, p) ==
    /\ users_info[KeyOf[n]] # Absent /\ users_info[KeyOf[n]].password = p
    /\ GetIndividualUser(thread[s], n)
    /\ stateMachine' = [stateMachine EXCEPT ![s] = "STATE_DOWN_AD"]
    /\ GetHeadImageFromDB(s, n)
    /\ typed' = [typed EXCEPT ![s] = n]
    /\ AuthMessage(s, IF user_info'[s].head_photo = Empty THEN 1 ELSE LargeFrame)
    /\ UNCHANGED users_info

\* Echo, FindPassword, and messages that cannot be parsed.
OtherAuthMessage(s) ==
    /\ AuthMessage(s, 1)
    /\ UNCHANGED <<stateMachine, user_info, users_info, stale, typed, failures>>
-----------------------------------------------------------------------------
Content(i) == [k \in 1 .. ImageSize[i] |-> <<i, k>>]

\* The end of AdPictureItemHandle.
LeaveDownload(s, last_one) ==
    stateMachine' = [stateMachine EXCEPT ![s] =
                       IF last_one /\ ad_img_fp'[s] = NULL THEN "STATE_GAME" ELSE @]

\* A request for the description of an advertisement (found or not, the answer
\* is a message), or of neither kind.
DownloadImageInfo(s, last_one) ==
    /\ InState(s, {"STATE_DOWN_AD"})
    /\ UNCHANGED ad_img_fp
    /\ LeaveDownload(s, last_one)
    /\ UNCHANGED <<thread, user_info, buf_size, users_info, stale, typed, got, asked,
                   changes, failures>>

\* The file a request for content reads: the one that is open, whatever the
\* request asks for, or its own.
OpenImage(s, id) ==
    IF ad_img_fp[s] # NULL THEN ad_img_fp[s] ELSE [image |-> id, offset |-> 0]

\* fread: as much as fits in the buffer.
ReadSize_Fault(s, fp) == LET left == ImageSize[fp.image] - fp.offset
                         IN  IF left >= buf_size[s] THEN buf_size[s] ELSE 0
ReadSize(s, fp) == LET left == ImageSize[fp.image] - fp.offset
                   IN  IF left > buf_size[s] THEN buf_size[s] ELSE left

\* A piece, or the end.  The frame of a piece is larger than the piece, and
\* OnWrite makes the buffer as large, so that the next piece is larger too.
SendImageContent(s, id, fp) ==
    LET n == ReadSize(s, fp)
    IN  IF n > 0
        THEN /\ ad_img_fp' = [ad_img_fp EXCEPT ![s] = [fp EXCEPT !.offset = @ + n]]
             /\ got' = [got EXCEPT ![s] =
                          @ \o SubSeq(Content(fp.image), fp.offset + 1, fp.offset + n)]
             /\ asked' = [asked EXCEPT ![s] = @ \cup {id}]
             /\ GetBuffer(s, n + Framing)
        ELSE /\ ad_img_fp' = [ad_img_fp EXCEPT ![s] = NULL]
             /\ got' = [got EXCEPT ![s] = <<>>]
             /\ asked' = [asked EXCEPT ![s] = {}]
             /\ UNCHANGED buf_size

AdContent(s, id, last_one) ==
    /\ InState(s, {"STATE_DOWN_AD"})
    /\ \/ ad_img_fp[s] # NULL
       \/ /\ id \in DOMAIN ImageSize
          /\ Cardinality({r \in Sessions : ad_img_fp[r] # NULL}) < MaxDownloads
    /\ SendImageContent(s, id, OpenImage(s, id))
    /\ LeaveDownload(s, last_one)
    /\ UNCHANGED <<thread, user_info, users_info, stale, typed, changes, failures>>

\* There is no such advertisement, no such file, or its row cannot be read.
NoAdPicture(id) == (id \in Missing /\ UNCHANGED failures) \/ Fail(1)

\* SendImageContent finds no file and the connection is closed.
AdContentMissing(s, id) ==
    /\ InState(s, {"STATE_DOWN_AD"})
    /\ ad_img_fp[s] = NULL
    /\ NoAdPicture(id)
    /\ EndConnection(s)
-----------------------------------------------------------------------------
\* The columns UpdateUserInfos finds changed.
Changed(s, info) ==
    {c \in {"user_name"} : info.user_name # user_info[s].user_name}
      \cup {c \in {"password"} : info.password # user_info[s].password}
      \cup {c \in {"email"} : info.email \notin {Absent, user_info[s].email}}
      \cup {c \in {"phone"} : info.phone \notin {Absent, user_info[s].phone}}
      \cup {c \in {"head_photo"} : info.head_photo \notin {Absent, Empty}}

\* What other sessions of the account no longer know once cs are written.
StaleElsewhere(s, a, cs) ==
    [r \in Sessions |-> IF r # s /\ LoggedIn(r, a) THEN stale[r] \cup cs ELSE stale[r]]

\* One UPDATE for each column of cs, those of failed in vain: the session
\* keeps the new value all the same.
WriteColumns(s, u, cs, failed) ==
    LET a == KeyOf[u.account]
    IN  /\ user_info' = [user_info EXCEPT ![s] = u]
        /\ users_info' = [users_info EXCEPT ![a] = Update(@, u, cs \ failed)]
        /\ stale' = [StaleElsewhere(s, a, cs \ failed) EXCEPT ![s] = (@ \ cs) \cup failed]

UpdateUserInfos(s, info) ==
    /\ InState(s, {"STATE_GAME"})
    /\ changes < MaxChanges /\ changes' = changes + 1
    /\ LET cs == Changed(s, info)
           u == [user_info[s] EXCEPT
                   !.user_name = IF "user_name" \in cs THEN info.user_name ELSE @,
                   !.password = IF "password" \in cs THEN info.password ELSE @,
                   !.email = IF "email" \in cs THEN info.email ELSE @,
                   !.phone = IF "phone" \in cs THEN info.phone ELSE @,
                   !.head_photo = IF "head_photo" \in cs THEN info.head_photo ELSE @]
       IN  \E failed \in SUBSET cs : WriteColumns(s, u, cs, failed) /\ Fail(Cardinality(failed))
    /\ GetBuffer(s, IF info.head_photo = Absent THEN 1 ELSE LargeFrame)
    /\ UNCHANGED <<thread, stateMachine, ad_img_fp, typed, got, asked>>

\* IncreaseScore and ReduceScore, in a game: the score wraps around.
ChangeScore(s, n) ==
    /\ InState(s, {"STATE_GAME"})
    /\ changes < MaxChanges /\ changes' = changes + 1
    /\ LET u == [user_info[s] EXCEPT !.score = (@ + n) % ScoreMod]
       IN  \E failed \in SUBSET {"score"} :
             WriteColumns(s, u, {"score"}, failed) /\ Fail(Cardinality(failed))
    /\ UNCHANGED <<thread, stateMachine, ad_img_fp, buf_size, typed, got, asked>>

\* update.py: the owner of a forgotten password sets a new one.
UpdatePassword(a, p) ==
    /\ users_info[a] # Absent
    /\ changes < MaxChanges /\ changes' = changes + 1
    /\ users_info' = [users_info EXCEPT ![a].password = p]
    /\ stale' = [r \in Sessions |->
                   IF LoggedIn(r, a) THEN stale[r] \cup {"password"} ELSE stale[r]]
    /\ UNCHANGED <<session, typed, got, asked, failures>>
-----------------------------------------------------------------------------
Next ==
    \/ \E s \in Sessions, t \in Threads : Connect(s, t)
    \/ \E s \in Sessions : ClosingClientCon(s) \/ OtherAuthMessage(s)
    \/ \E s \in Sessions, n \in Names \cup {Empty}, p \in Passwords :
         LoginRefused(s, n, p)
    \/ \E s \in Sessions, n \in Names, p \in Passwords :
         HandleRegister(s, n, p) \/ WrongPassword(s, n, p) \/ LoginAccepted(s, n, p)
    \/ \E s \in Sessions, last_one \in BOOLEAN : DownloadImageInfo(s, last_one)
    \/ \E s \in Sessions, id \in DOMAIN ImageSize, last_one \in BOOLEAN :
         AdContent(s, id, last_one)
    \/ \E s \in Sessions, id \in DOMAIN ImageSize \cup Missing : AdContentMissing(s, id)
    \/ \E s \in Sessions, info \in Updates : UpdateUserInfos(s, info)
    \/ \E s \in Sessions, n \in Scores : ChangeScore(s, n) \/ ChangeScore(s, -n)
    \/ \E a \in Accounts, p \in Passwords : UpdatePassword(a, p)

Spec == Init /\ [][Next]_vars
-----------------------------------------------------------------------------
\* Every variable has its type; a score fits in its column (IncreaseScore,
\* ReduceScore, mysql_db_query).
TypeOK ==
    /\ thread \in [Sessions -> Threads \cup {NoThread}]
    /\ stateMachine \in [Sessions -> {"STATE_AUTH", "STATE_DOWN_AD", "STATE_GAME"}]
    /\ user_info \in [Sessions -> UsersInfo]
    /\ ad_img_fp \in [Sessions -> {NULL} \cup [image : DOMAIN ImageSize, offset : Nat]]
    /\ buf_size \in [Sessions -> Nat]
    /\ users_info \in [Accounts -> Row \cup {Absent}]
    /\ stale \in [Sessions -> SUBSET Columns]
    /\ typed \in [Sessions -> Names \cup {Empty}]
    /\ asked \in [Sessions -> SUBSET (DOMAIN ImageSize \cup Missing)]
    /\ changes \in 0 .. MaxChanges
    /\ failures \in 0 .. MaxFailures

\* GetIndividualUser keeps an account from two sessions of one thread that
\* both log in with it as it was registered, whatever they had tried before
\* and whoever used the objects before them.  (Who types it in another
\* spelling is let in: the row is found, its account is not the string typed.)
OneSessionPerAccount ==
    \A s, r \in Sessions :
      s # r /\ Connected(s) /\ thread[s] = thread[r] =>
        \/ user_info[s].account = Empty \/ user_info[s].account # user_info[r].account
        \/ typed[s] # user_info[s].account \/ typed[r] # user_info[r].account

\* HandleLogin says "This user has already online" only of a user who is: no
\* attempt with a wrong password and no closed session keeps an account taken.
RefusalMeansOnline ==
    \A t \in Threads, n \in Names :
      GetIndividualUser(t, n) \/ \E s \in InMap(t) : LoggedIn(s, KeyOf[n])

\* What a session shows of its user, and compares UpdateUserInfos with, is
\* what the next login will read, except in a column it has written in vain
\* or someone else has written since.
MemoryIsRow ==
    \A s \in Sessions, a \in Accounts :
      LoggedIn(s, a) =>
        LET row == users_info[a]
            u == user_info[s]
        IN  /\ row # Absent
            /\ row.account = u.account
            /\ "password" \in stale[s] \/ row.password = u.password
            /\ "email" \in stale[s] \/ row.email = u.email
            /\ "score" \in stale[s] \/ Loaded(row.score) = u.score
            /\ "head_photo" \in stale[s] \/ row.head_photo = u.head_photo
            /\ "user_name" \in stale[s] \/ row.user_name = u.user_name
            /\ "phone" \in stale[s] \/ row.phone = u.phone

\* A registration never touches an account that is there, and only a session
\* that is logged in with it changes what is not its password.
RowsAreTheirOwners ==
    [][\A a \in Accounts :
         users_info[a] # Absent =>
           /\ users_info'[a] # Absent
           /\ \/ users_info'[a] = [users_info[a] EXCEPT !.password = users_info'[a].password]
              \/ \E s \in Sessions :
                    LoggedIn(s, a) /\ stateMachine[s] = "STATE_GAME"]_vars

\* A client that asks for one advertisement at a time gets the content of
\* that one, from its start and without a gap, also in a session object
\* whose last user left in the middle of a download.
ImageIsTheOneAsked ==
    \A s \in Sessions, i \in DOMAIN ImageSize :
      asked[s] = {i} => /\ Len(got[s]) <= ImageSize[i]
                        /\ got[s] = SubSeq(Content(i), 1, Len(got[s]))

\* SendImageContent says "ended" only after the whole file, whatever the size
\* of the buffer had become, and a session goes on to the game hall with no
\* file open.
WholeImageIsSent ==
    [][\A s \in Sessions :
         ad_img_fp[s] # NULL /\ Connected(s)' =>
           \/ ad_img_fp'[s] # NULL /\ stateMachine'[s] # "STATE_GAME"
           \/ got[s] = Content(ad_img_fp[s].image)]_vars
=============================================================================
