# Verification of the three-player chess server

ServerRepo is the server of a chess game for three people: a C++ program on
libevent that accepts connections, lets users log in, sit down at boards in
game halls, play, and keeps their scores in MySQL. This directory holds TLA+
modules of it, the TLC configurations that check them, and proofs for TLAPS.

## 1. Inventory

| Part | State | Operations | Where it is hard |
|---|---|---|---|
| Boards and games (`chessboard.cpp`) | three seats, `currUserNum`, `first_come_user_locate`, times, seats of the last capture; the `status` of the users at the board | join, ready, move, capture, draw, undo, play again, give up, exit, forwarding of chat | four redundant records of who sits where; every handler may come in any order and a connection may vanish at any time |
| Session states (`stateauth.cpp`, `statecommon.cpp`, `stategameready.cpp`, `stategameplay.cpp`) | `stateMachine`, `nextState` | which handler a message reaches; change of state | an unhandled message changes the status and then closes the connection |
| Sessions (`usersession.cpp`) | descriptor, seat, status, account data, read state | `MessageHandle`, `DestructResource`, score updates | reused for one connection after another; unsigned scores |
| Main thread (`mainthread.cpp`, `server.cpp`) | list of threads, session pool | accept, pool, signal, shutdown | shares the pool with the work threads; shutdown waits for each of them |
| Work threads (`thread.cpp`) | pipe, `fdSessionMap`, event loop, database connection | start, take over a connection, read, time out, close, stop | descriptors are reused by the kernel; bytes come in pieces; the database may be down |
| Timer library (`libtimer/libtimer.c`) | queue of timers, list of expired ones | add, remove, clear, destroy, expire | two threads and callers that talk over a socket with time-outs |
| Password recovery (`findpwd.cpp`) | one record per request, one token file per account | send mail, retry, time out | retries, shared file, a record deleted because an answer came late, files that outlive the process |
| Accounts (`stateauth.cpp`, `statecommon.cpp`, `mysqldb.cpp`, `update.py`) | `user_info` of a session, the table `users_info` | register, log in, change data and score; new password from outside | memory and row are changed apart, MySQL and the program compare accounts differently, every statement may fail and its result is mostly ignored; objects are used again |
| Advertisement download (`statecommon.cpp`) | the open file, the buffer it is read into | ask for a description, ask for the next piece, go to the hall | the buffer grows with the frames written from it; the file outlives a request |
| Protocol messages (`message.proto`, `message.pb.*`) | has bits, fields, unknown fields | parse, merge, write, compute sizes, check required fields | a hundred jumps between fields; nested sizes; negative numbers |
| md5, logging, tools | | | I/O or third-party code |

The main thread accepts a connection and writes its descriptor into the pipe of
a work thread. The work thread takes a session from the pool, reads messages
and passes each to the session's state; in a game the state passes it to the
board, which changes the sessions sitting there and answers them. When a
connection ends the thread takes the session off the board, closes the
descriptor and returns the session to the pool. `server.cpp` starts **one** work
thread, so the handlers of messages are atomic with respect to each other; the
main thread and the threads of the timer library run beside it.

What makes each part correct:

- boards: a seat and its session point at each other; the counter counts; a
  game begins only with three, nobody enters it, it ends for everybody; the
  token is with somebody who can move; points are not made or lost;
- threads: every session and every descriptor has exactly one owner; the pool
  is bounded; a connection accepted is served; shutdown ends and leaves nothing;
- framing: the messages handled are those sent; a stuck session is freed;
- timers: a handler runs once, in time and not after its removal; none is stranded;
- password recovery: a request ends once, its token lives as long as promised;
- accounts: an account, typed as registered, is in one session of a thread and
  refused only while it is; a session knows its row; a row is changed by its owner only;
- advertisements: a client gets the picture it asked for, all of it;
- messages: a class reads what `message.proto` declares, writes what it reads
  with the size it announces, and no reply lacks a required field.

The hazards, each with its line and the properties aimed at it, are listed in
`PROJECT.json`.

## 2. Modules

| Module | Models | Checked by |
|---|---|---|
| `ChessBoard` | `chessboard.cpp`, `stategameready.cpp`, `stategameplay.cpp`, the board part of `usersession.cpp` | `MCChessBoard*.cfg` |
| `BoardSpec` | what a board promises to the users at it: the abstract specification | `ChessBoard` implements it |
| `ChessBoardProofs` | proofs about the consistency of boards and games | `tlapm` |
| `BoardProofs` | proofs about scores, and of the refinement of `BoardSpec` | `tlapm` |
| `WorkThread` | `mainthread.cpp`, `server.cpp`, and the life of threads, connections and sessions in `thread.cpp` | `MCWorkThread.cfg` |
| `WorkThreadProofs` | proofs about it | `tlapm` |
| `FrameReader` | `OnReadCb`, `MessageHandle`, `OnEventCb` and the idle timer of `thread.cpp` | `MCFrameReader.cfg` |
| `FrameReaderProofs` | proofs about it | `tlapm` |
| `MessageTables` | what the 28 generated classes spell out about their fields, and `message.proto` | through `Messages` |
| `Messages` | the generated parser, writer, `ByteSize`, `MergeFrom`, `IsInitialized`, and the replies of the server | `MCMessages.cfg` |
| `Accounts` | `stateauth.cpp`, the download and `UpdateUserInfos` of `statecommon.cpp`, the database helpers of `thread.cpp` and `mysqldb.cpp`, `update.py` | `MCAccounts.cfg` |
| `AccountsProofs` | proofs about it | `tlapm` |
| `TimerSpec` | what the timer library promises: the abstract specification | `LibTimer` implements it |
| `LibTimer`, `TimeVal` | `libtimer.c` with its socket; its arithmetic on `struct timeval` | `MCLibTimer.cfg` |
| `LibTimerProofs`, `TimeValProofs` | proofs about them, with the refinement of `TimerSpec` | `tlapm` |
| `FindPwd` | `findpwd.cpp`, on top of `TimerSpec` | `MCFindPwd*.cfg` |
| `FindPwdProofs` | proofs about it | `tlapm` |

Definitions named `X_Fault`, placed before `X`, are faulty variants of `X`: with
one of them in place of `X` the property it is listed for in `PROJECT.json` is
violated. No specification uses them.

### ChessBoard

One action is the whole handler of one message. `seat[b]` is `leftUser`,
`rightUser` and `bottomUser`; `status`, `locate`, `currChessBoard` and `score`
are the fields of the session of a user; `state` is the type of its state
machine (`OFF` before the halls are reached). `token` is not a variable of the
server: it is the `token_locate` of the last message that announced one, which is
all the clients know of whose turn it is. `up` turns false when a handler
dereferences NULL, after which nothing happens. Statuses are numbers as in
`usersession.h`, because `GameBegan` compares them; scores are taken modulo
`ScoreMod` (2^32 in the code).

A handler finds the user it acts on by the seat in its message
(`GetUserByLocation`) and never compares it with the session the message came from.
So who sends (`u`) and which seat is named (`s`, `MAX` for a number that is none)
are separate parameters, and where the code has a part of its own for
the user found, so has the model (`GameReadyHandle`, `MoveChessHandle`, `CaptureHandle`,
`GameAgainHandle`, `LeaveRoomHandle`). An "exit" that names another seat takes that user
off the board but leaves his session in the GAME_PLAY state, because `MessageHandle`
changes only the state of the sender; `MsgWithoutBoard` is the next message of such a
user, which is handed to NULL if it is for the board. `Crash` is every other NULL
dereference: a move from an empty seat, a request for a board the hall does not have.

Assumed: a user has one session. (`OneSessionPerAccount` of `Accounts` says when this
is so: unless an account is typed in two spellings. Two such sessions would be
two users here, whose scores are one row there.) `EnterHall`
stands for connecting, logging in and the download of the advertisements; it
keeps the `locate` the session had.

There are three specifications. `Spec` accepts every message in every state, with
any seat and board in it, as the server does. `PlaySpec` restricts the messages to those
a client sends that keeps to the rules: it names its own seat and board; the holder of the token moves and captures a user in the
game; only users in a game agree to a draw, an undo or give up; a READY user gets
ready, once nobody at the board plays. The client is not in the repository, so
these rules are marked external. They exclude a GAME_READY in the middle of a game
(`MayGetReady`), which the server would answer by announcing the token of BOTTOM to
everybody; `TokenHeldByPlayer` says nothing of such clients. `LateUndo` relaxes one of them. `LogoutSpec` adds to `PlaySpec` a
user who logs out in the middle of a game.

`BoardSpec` has no seats, statuses or scores: for each board it says who sits there
(`sitting`), who of them is in the game (`players`) and whose turn it is (`turn`).
One sits down where no game runs, and at one board only; a game starts for the three
who sit; a move hands the turn to another player; the player whose turn it is beats
another one; an undo brings somebody back into a running game; a draw or giving up
ends it; who leaves as a player ends it for all, who was beaten does not disturb it.
`GamesAsPromised` maps `sitting` to the users in the seats, `players` to those of them
who are PLAYING, and `turn` to the user in the seat the last announcement named, or to
nobody where nobody plays (`PlayersAt`, `TurnAt`). Refused requests, getting ready
before the third does, asking for another game, and everything before the halls are
stuttering steps.

### WorkThread

A step is what a thread does between two places where another thread can
interfere. So closing a connection is two steps: `ClosingClientCon` (erase the
map entry, `DestructResource`, which closes the descriptor) and the locked part of
`RecycleSession`; and `DestrotiedSessions` is three per session, because there the
session is recycled *before* its entry is erased. The kernel may return a
descriptor again as soon as it is closed. `hand` is the session a thread holds
between the two steps, `iter` the entry `DestrotiedSessions` is at, `live` the
session objects that are allocated, `lost` the connections whose notification was
written before the pipe existed. `IniSQLConnection` may fail, after which the
thread is `dead` and nobody reads its pipe.

Left out: failure of `event_base_new`, `pipe`, `pthread_create` and memory
allocation, and `accept` errors, which change nothing.

### FrameReader

Bytes are abstracted to pieces `<< i, p >>`, the `p`-th piece of message `i`: the
header is `HEAD` pieces, and TCP may cut between any two. Each `OnReadCb` gets any
number of pieces that are on their way. What the handler makes of a message is
its kind: header out of range, handler returns false, handler returns true. A client
is `patient` (it waits for each answer before it sends on) or not. When a
connection is closed the session is used for the next one, with the `buf_info` it
was left with.

### MessageTables, Messages

The generated code says the same about a field in six places: the has bit of its
accessors, the case that reads it, the jump of the case before it, both writers
with `ByteSize`, `MergeFrom`, and the mask of `IsInitialized`. `MessageTables` holds
these places class by class, as the code has them (`X_has`, `X_merge`, `X_write`,
`X_init`), and beside them `Declared`, from `message.proto`. `Messages` has the
algorithm every class shares, over the tables, so that the two sides can be
compared: `ReadsAsDeclared` sets what the parser does against what the declaration
means.

A stream is a sequence of fields, each a tag and a payload, possibly cut off in the
last one; the text of a string is its length. An integer has `IntBits` bits and
travels in a varint of twice as many, one bit for each group of seven of the code:
with 5 bits a `uint32` takes up to 5 bytes and a negative `int32` takes 10. A
peer sends any fields in any order; the server answers with the replies that its
handlers build, among them `EchoMsgHandle`, which answers with what was read even
when it did not parse, and `MoveChessHandle`, which copies the move it announces.
The protobuf library under the generated code is external.

`X_write` is one table for both writers and `ByteSize`, so `SizeIsExact` is about how
the three compute sizes (nesting, repetition, negative integers) and would not see a field
that `ByteSize` alone leaves out.

### Accounts

One action is the handler of one message, from its statements to its answer; a
thread runs one handler at a time. Another thread, or `update.py`, can come between
two statements of a handler only where both are about the row of one account; what
such a write does to a session is what it does when it comes after the handler,
and `stale` says which columns the session then no longer knows. `stateMachine` is
the type of the state (`STATE_GAME` is the hall and the game together), `user_info`
the data of the session, `ad_img_fp` the file it reads and how far, `buf_size` its
buffer in the unit of `ImageSize`, `users_info` the table. Any statement may fail:
it leaves the row, and (as the code does) the memory keeps the new value. A score
is stored as `%d` prints it into a signed column and read with `atoi`. `stale`, `typed`, `got`
and `asked` are not in the program; they remember what the properties are about. When
the server crashes only `users_info` remains, which is what closing every session
leaves; a restart needs no action of its own.

What a client types as an account is one of several spellings (`Names`); `KeyOf` gives the
account they stand for. MySQL takes all spellings of an account for one key, since the column has the
default collation, which ignores case: `users_info` is indexed by accounts, and a row
keeps the spelling it was registered with. The program compares strings: `Query` gives a
session the spelling in the row, `GetIndividualUser` compares the typed one with it.
`typed` remembers what a session's user typed. So a user who is online and types
another spelling gets a second session on the same thread, although `HandleLogin` means to
answer "This user has already online": the model does this as the code does, and
`OneSessionPerAccount` says that there is no other way.

The texts are values of a small set, with the account as the mail address of a new
user. Left out: texts longer than their column, and failures of `fopen` other than a
missing file.

### TimerSpec, LibTimer, TimeVal

`TimerSpec` says what a caller may rely on: a timer that is set runs its handler
once, not before its delay is over, not after it was removed, and one handler at
a time. `LibTimer` implements it; the mapping takes a timer that is in `timerq` to
the ticks it has left and one in `timeout_list` to 0.

Time is relative (ticks left), so the model is finite without a bound on the
clock. `server` is where `timer_server_task` is: in `select`, or (`notify`) between
putting an expired timer on the list and waking `time_out_task`. `task` is where
`time_out_task` is: about to count its list (`count`), between the count and
`pthread_cond_timedwait` (`idle`: no mutex held, a signal is lost), waiting, past the
time limit (`leave`), or in a handler. `requests` are the connections not yet
accepted; a caller may give up on its answer, but its request stays. A handler may
itself call the library. `timer_init` may fail to make its socket, after which its
caller waits for ever. An argument stands for its timer and for the timer's id.

Left out: failures of `malloc` and `pthread_create`; what happens on the destroyed
mutexes after `timer_destroy` (the process is about to end); the result of a
removal, which the library does not report.

`TimeVal` has the macros and the normalisation as operators, checked against
microseconds; `RestIsNeverLong` allows the interval to be one microsecond short,
which is what `TV_MINUS` makes of a borrow.

### FindPwd

`timer_add` is a message (`request`) and a wait of three seconds for the answer. The
library handles the message (`RequestHandled`, the `Arm` of `TimerSpec`) or it is lost
(`RequestLost`), and the caller may give up before either (`RequestTimeOut`); a message
that was given up on is handled all the same, as in `LibTimer`. `SendMail` ignores what
`timer_add` returns: `forgotten` collects the requests whose next timer will not be set.
`AddToTimerList` deletes its request when told of a failure (`DeleteUser`), which may be
while the library still has it (`freed`), or even after `TimeOutHandle` has deleted it. A step
that then uses it is `UseDeleted`: undefined behaviour, after which the token files
may hold anything and nothing is followed but the restart of the server. (A step that
meets such a request and does not look at it, as `SendMail` does after a mail that was sent, goes on.)

Each handler has a step for its call (`Run` of `TimerSpec`), its body and its return,
and `SendMail` two for its body, before and after the mail, which takes time; so new
requests, late answers and deletions fall in between. `Restart` leaves nothing but the
files; `OldToken` stands for what a former process has written.

## 3. Runs

| Run | Question | Result |
|---|---|---|
| `any_messages` | any messages, naming any seat and board, in any order, from four users at a board | seats, sessions and counters agree; nobody drops into a game |
| `play_by_the_rules` | games as the client plays them | `BoardSpec` is implemented; the token is with a player; games end for all; points are conserved |
| `logout_in_game` | the same with a logout in a game | **violated**: no penalty, the others play on |
| `undo_after_leaving` | an undo accepted after the beaten user left | **violated**: NULL dereference |
| `undo_of_the_last_move` | an undo of the move that ended the game | **violated**: one user plays alone |
| `threads_and_sessions` | two work threads, signal at any time, database up or down | one owner each, bounded pool, served, shut down |
| `frames` | messages cut anywhere, from clients that wait for answers and clients that do not | whole messages, in order; a patient client is never stuck; a stuck session is closed |
| `messages` | any fields in any order, and every reply | classes read as declared, write what they read, announce the right size, merge as streams do; replies are complete |
| `accounts` | two sessions, two accounts in three spellings, failing statements, passwords changed from outside | one session per account, if it is typed as registered; no false "already online"; memory is the row but for known columns; pictures arrive whole |
| `timers` | callers, timer server and time-out thread in any order, answers given up on | `TimerSpec` is implemented; the deadline of `select` is right; no expired timer is stranded with a dead thread |
| `password_requests` | requests with failing mails and files, lost and late timers, restarts | a request is in one place; a deleted one is met only after an answer came late; no other token file is left |
| `password_asked_twice` | two requests for one account | **violated**: the token of the second is removed early |

`TypeOK` is checked by TLC for `Accounts`, where it is about the width of the scores; it
is proved for every module that has a specification and proofs, `ChessBoard` among them.

The four violations are listed as findings in `PROJECT.json`, each with the line
of the repository that says otherwise.

**Bounds.** Four users and one board: three fill it and the fourth contends for
a seat; boards do not interact except through a user, who is at one at a time
(the proofs hold for any number). One pair of times besides "none" tells "set"
from "not set". `ScoreMod` is 16 in the passing runs, so that scores wrap around soon. No
handler reads a score to decide something, so the configurations use a VIEW without
the scores: states that differ only there have the same future, and the properties
about scores are about the change in one step, which does not depend on the old value
modulo `ScoreMod`; that scores stay unsigned is proved. Users are symmetric.
`any_messages` asks for no times, which none of its properties reads. `ScoresConserved` is
about the scores in memory; what a write that fails does to a row is seen by
`MemoryIsRow` of `Accounts`, one user at a time.

Two work threads and two descriptors are enough for one descriptor to be handed
to the other thread while its old session is still being recycled. With a
`Step` of 2 the pool can reach `2 * Step` and be trimmed; four session objects
are as many as can be alive at once. `PipeCap` exceeds the number of
descriptors, as a pipe (8192 messages) exceeds the default limit of open files,
so the main thread's write does not block.

Three messages of three sizes (header only, and two bodies of different length)
let a read end inside a header, inside a body, at the end of a message, and run
over into the next or the one after; two ticks of idle time tell armed from
expired.

Two fields of any kind beside each other are what a jump of the parser depends on;
two of the same number are what repetition and merging depend on; `SendAll` adds the
whole message and one field after it, for all the jumps in a row, and nested messages come empty, full and
with their first field missing or alone. Values are 0, one that loses a bit beyond
the width of an integer, all ones in the varint, and 1 in a whole message.

In `accounts` two sessions meet at one account, by typing it differently or one after the
other; two accounts give a session another's data to keep, and two spellings of one of
them tell the string typed from the string registered. There is one thread, as in
`server.cpp`: sessions of several threads meet only in the rows, as two sessions of
one account on one thread do (the proofs hold for any number). Scores have three bits, start at 2 and move by
3, so that two changes pass both ends of the signed and the unsigned range. A file of
two units is read in one piece or two, depending on what the buffer was used for
before; one download at a time is enough because downloads share nothing but the
recycled session. Two changes and one failure allow a failed write to be followed by
a repetition, and a write by another session. `WholeImageIsSent` and
`RowsAreTheirOwners` are about single steps. Sessions, passwords and the
spellings of one account are symmetric.

Two timers of different delays can be set in either order, expire together, be
removed while the other is first, and be in the queue, on the list and in a
handler at once; a backlog of two is enough for an abandoned request to be served
after a newer state of its caller. Times up to two seconds of three microseconds
cover every carry and borrow. Two password requests can overtake each other; the
delays 1, 2 and 3 keep the order of 500 microseconds, a minute and five minutes.

In `password_requests` two requests for one account and for two meet; 1.4 million states are
all there are, with five retries as in the code.

**Deadlock** is not checked for `ChessBoard`, where the process may be down, nor for
`WorkThread`, which ends after shutdown, `LibTimer`, which ends with `timer_destroy`, and
`Messages`, which ends with the answer.

**Fairness.** `ChessBoard` has none: its properties are safety. In `WorkThread` a
thread that can take a step of its own eventually does (the operating system
schedules it, the event loop serves its pipe), and so does the main thread during
shutdown; clients need not connect or go away. In `FrameReader` time passes and
libevent runs an expired timer; nothing is asked of the client or the network.
In `LibTimer` time passes, both threads go on, and a wait ends at its limit; callers
need not call. A handler returns although it may call the library first (strong
fairness: it makes finitely many calls). Because `select` reports a request before its
time-out, `ArmedExpires` is stated for callers that leave the server in peace in the
end. `FindPwd`, `Messages` and `Accounts` have safety properties only: clients need not
finish what they begin.

## 4. Proofs

Every safety invariant a run checks is proved for all values of the constants, except
those of `Messages`; so are all action properties and both refinements. Each proof
module but `BoardProofs`, which builds on `ChessBoardProofs`, has an inductive invariant `IInv`, one lemma per action saying that it is kept,
`Invariance` (`Spec => []IInv`), and the theorems that follow from it.

| Theorem | States | Assuming |
|---|---|---|
| `ChessBoardProofs`: `TypeCorrect`, `SeatsCorrect`, `StatusCorrect`, `CountCorrect`, `FirstComerCorrect` | `TypeOK`, `SeatsAndSessionsAgree`, `NoStatusWithoutSeat`, `CountMatchesSeats`, `FirstComerIsSeated` for `Spec` | any messages, naming any seats and boards; any users, boards, times |
| `EntryCorrect`, `StartCorrect` | `NoEntryDuringGame`, `PlayersStartTogether` for `Spec` | the same |
| `LeaveCorrect` | `LeavingEndsTheGame` for `PlaySpec` | clients keep to the rules |
| `TokenCorrect`, `LonePlayerCorrect` | `TokenHeldByPlayer`, `NoLonePlayer` for `PlaySpec` | ... and undo no move that has ended the game (`LateUndo = FALSE`) |
| `BoardProofs`: `ScoresCorrect`, `BoardRefinement` | `ScoresConserved`, `GamesAsPromised` for `PlaySpec` | the same |
| `AccountsProofs`: `TypeCorrect`, `OneSessionCorrect`, `RefusalCorrect`, `MemoryCorrect`, `RowsCorrect` | `TypeOK`, `OneSessionPerAccount`, `RefusalMeansOnline`, `MemoryIsRow`, `RowsAreTheirOwners` | any sessions, threads, accounts, spellings, texts, messages, even `ScoreMod` |
| `ImageCorrect`, `WholeImageCorrect` | `ImageIsTheOneAsked`, `WholeImageIsSent` | any files, buffer and frame sizes |
| `WorkThreadProofs`: `TypeCorrect`, `PoolCorrect`, `OwnerCorrect`, `FdsCorrect`, `ShutdownCorrect` | `TypeOK`, `PoolBounded`, `OneOwner`, `FdsAccounted`, `ShutdownFreesAll` | any threads, descriptors, pipe capacity, `Step`, finitely many session objects |
| `FrameReaderProofs`: `TypeCorrect`, `FramesCorrect`, `HeadCorrect`, `RequestCorrect` | `TypeOK`, `WholeFramesInOrder`, `HeadOfThisFrame`, `RequestIsHandled` | any header, sizes of at least a header, any cuts |
| `LibTimerProofs`: `TypeCorrect`, `DeadlineCorrect`, `Refinement` | `TypeOK`, `DeadlineIsEarliest`, `KeepsPromise` | any timers, positive delays, backlog |
| `TimeValProofs`: `RestCorrect` | `RestIsNeverLong` | any number of microseconds in a second, any times |
| `FindPwdProofs`: `TypeCorrect`, `HeldCorrect`, `FileCorrect` | `TypeOK`, `HeldByOneTimer`, `TokenFileIsOwned` | any requests, accounts and delays, late answers, restarts; up to the first use of a deleted request |

The assumptions are those the modules name. The values that stand for nothing (`NoUser`,
`None`, `Unset`, `NoArg`, `Absent` ...) differ from what they stand beside, sizes and delays
are natural numbers, `ScoreMod` is positive (even in `Accounts`, as 2^32 is), the quit
command is not a descriptor (the code gives it a message type of its own), and there are
finitely many session objects (they are counted by `Cardinality`).

**ChessBoard.** `IInv` is the conjunction of the type invariant, `SeatsAndSessionsAgree`,
`CountMatchesSeats`, `NoStatusWithoutSeat` and `FirstComerIsSeated`. None
is inductive alone: the range of `currUserNum` needs the
count to be right; the count needs the leaver to sit at its `locate`; and that a
session at no board has no status needs every user whose status a handler changes
to be at the board, which is the agreement of seats and sessions. `ActsForNamed` is
where messages for other seats come in: the user found at a seat of the sender's board is
at that board and at that seat, so every step of `Next` is one that some user could have
asked for himself, except for the state of the session; the lemmas on the handlers are about
that user (`PlaysForSelf` is the same for `PlaySpec`, where they are the same). Without the agreement
`LeaveOutRoom`, which goes by the `locate` of the user found, could empty another seat. Lemmas
about `Occupied` count the seats with the library's theorems on finite sets.

For `PlaySpec` there is `GamesRunOn`: at a board nobody plays, or the holder of the token
plays *and* somebody else does. Neither half is inductive alone. If the token were
with an idle seat nobody could move; if the holder could be alone, a capture or a
departure would leave one player, and `MoveChessHandle` would count itself as the last
winner. A move hands the token to the next seat or the one after, and one of them plays
because somebody else does (`TokenReachesPlayer`); a departure ends the game for all or
leaves the players as they were (`LeavingRunsOn`). The proof of `UndoRunsOn` needs the user
who agrees to play: with `LateUndo` it fails, and the run `undo_of_the_last_move` shows why.

**Scores and the promise of a board.** `ScoresConserved` is stated pointwise: a step
leaves the scores alone, moves 10 between two different users of one board, or charges
30 to one who stops playing, with 10 for a single other player. `PairApart` is the
invariant it needs beside the two above: the winner and the loser of the last capture
sat in different seats, so that an undo moves points between two users and does not
charge and pay the same one. `LeavingEffects` says what `LeaveRoomHandle` does to
everybody at the board in terms of users instead of seats; its hard case is the last
winner, who must be the one user left (`LastWinnerIs`), and `GamesRunOn` is why a user
who was not playing never leaves one behind.

`BoardRefinement` goes through `Viewed`, which follows from `IInv` and `GamesRunOn`: the users
a board's seats hold are the users whose session names the board, their number is
`currUserNum`, and where a game runs, the turn is with one of at least two players. It
lets a step be told by what happens to users; seats and `currUserNum`, which the code
decides by, come back only where a guard needs them (a board that is not full has fewer
than three users). Each action has a lemma that its step is seen at one board
as a step of `BoardSpec`, and nowhere else (`SeenAtOne`); `SeenIsPromised` turns that into
the functions `BoardSpec` is about. The inductive invariant is needed on both sides of a
step: before it for the guards, after it because the turn is announced as a seat and must
again be a player's.

**Accounts.** `IInv` is the type invariant, `OneSessionPerAccount`, `MemoryIsRow`,
`RowsAreKeyed` (a row spells the account it is the row of) and
`AccountIsLogin`: a session has an account exactly from an accepted login to the end of its
connection. `RowsAreKeyed` is why a session holds a spelling of the account it logged in with,
and the spelling in the row never changes; so a second user who types it is refused. `AccountIsLogin` is what makes the others inductive. `GetIndividualUser` compares accounts of sessions in any
state, so a session that kept one after a wrong password, or an object in the pool
that kept one, would be counted; a registration leaves `MemoryIsRow` alone because a row
that is absent belongs to nobody logged in; and a write finds its row because the
account of a session in the hall is that of its login. `WritePreserves` is the lemma
all writing goes through, whatever columns are written and fail; `ScoreRoundTrip` is the
arithmetic of a score on its way through the database.

`Downloads` is the invariant of the advertisements: a session past its login has a buffer,
and what its client got is the beginning of the open file, up to its offset, and nothing
while no file is open. That the buffer is not empty is what `WholeImageCorrect` turns on:
`SendImageContent` takes reading nothing for the end of the file, and a session in the
download state has been given a buffer by the very message it logged in with. A session
object that kept a file from its last user would break it; `DestructResource` closes it.

**WorkThread.** `IInv` says where sessions and descriptors are. `SessionsOwned`: a live
session is in one place, and the places are disjoint; `FdsOwned`: an open descriptor is in
one pipe, with one session, or lost. Each needs the other: a connection read from a pipe
must not have an entry in a map already, and an entry that is erased must be the only
user of its descriptor, although the kernel gives descriptors out again before the
session is recycled. `IdleThreadsHoldNothing` and `StoppedInOrder` follow the threads through
shutdown; `QuitIsLast` (nothing comes after the quit command in a pipe) is why a thread
that stops has read every connection it was given, on which `ShutdownFreesAll` rests.
`PoolBounded` needs only the types. The counts of `OneOwner` and `FdsAccounted` follow from
the disjoint places with the theorems on finite sets.

**FrameReader.** `WholeFramesInOrder` holds because the input begins at a message, which
holds because the message before was whole: `StreamIsLaid` says that the input and the wire
together are the messages not handled yet, laid end to end. `HeadOfThisFrame` ties
`buf_info` to the message the input starts with. `NothingLeftUndone` (no header is left
unread and no whole message unhandled) and `OneRequest` (a patient client has one request
under way) give `RequestCorrect`. Sending, cutting and taking a message off the stream are lemmas about sequences (`LaidSend`, `Cut`, `LaidTake`).

**LibTimer.** The queue is sorted and has a timer once, so the first is the earliest; a
timer is in one of the queue, the list and the requests (`Apart`), which is what the
refinement mapping needs to be a function of it; while the server sleeps, `rest` is what
the first timer has left (`RestIsFirst`); and `OneTask` says that a handler runs for an
argument and never two at a time. `Refinement` takes each action to a step of `TimerSpec`
or a stutter: serving an addition is `Arm`, serving a removal or a clearing `Disarm`, time
`Tick`, taking from the list `Run`, a handler's end `Return`; requests, expiry, signals and
waits stutter. That insertion keeps the order and removal takes the one timer
there is are lemmas about sequences; `Least` gives the minimum of a set of numbers.

**TimeVal.** The theorem is arithmetic with carries, borrows and a remainder; it goes by the
cases of a borrow, with the remainder split off first.

**FindPwd.** `HeldByOneTimer` and `TokenFileIsOwned` hold until `UseDeleted`. They are
inductive with `TypeOK` and four facts more. `RetriesLeft`: a request whose next handler is
`SendMail` has an attempt left, which bounds the retries. `CallersWait`: `AddToTimerList`
waits only while the library has its message, so that what it is told is about that
message and not about one a handler has sent since. `FreedAreThere`: what
`AddToTimerList` deleted too early has no other caller and was not deleted by a handler before. `NoFileYet`:
a request that `AddToTimerList` may delete without harm has written no file, which is why its
deletion leaves none behind.

**Only model-checked.** Liveness (`AcceptedIsServed`, `ShutdownCompletes`, `StuckIsClosed`,
`ArmedExpires`, `ExpiredIsRun`): fairness and ENABLED are out of the prover's reach. The
properties of `Messages`, which is recursive over nested messages. The properties that are
violated, of course.

## 5. Plan

The plan of the inventory is carried out. What could be added: the rows of two users of one
capture in one model, to add up what failed writes cost, and `ByteSize` with tables of its own.

## 6. Not modelled

SQL text and the MySQL client, md5, log files, the pages the CGI scripts show, the
demonstration client and the tools that fill the advertisement table: they are I/O,
third-party or separate programs. Descriptors, reflection, `Swap` and the text accessors
of the generated classes are not used by the server. The contents of chat messages are
left out because no state depends on them.

Boards and halls with more than one work thread: `GameBegan` followed by `AddUser`,
`BroadCastHallInfo` and the map of boards are not protected against each other
(a comment above `BroadCastHallInfo` says so), but `server.cpp` starts one thread, so
no run of this program meets it. `WorkThread` and `Accounts` allow several threads, because
the code there is written for them.
