# A TLA+ model of the card-login credential provider

`src/SampleHardwareEventCredentialProvider` is a Windows credential provider (a
DLL that LogonUI loads) grown from Microsoft's "hardware event" sample. A user
swipes a card at a serial reader. The provider looks the card up in a MySQL
database, has the internet-behaviour gateway judge the user's password, prompts
for the password when it is not stored yet or is refused, records the login in
an attendance table, publishes the machine in the table the print service reads,
and only then reports itself "connected", so that LogonUI shows the tile that
logs the local account on.

Paths below are relative to that directory. Line numbers are those of the
committed files (GBK text, CRLF).

## 1. The system and its parts

| component | source | state | operations |
|---|---|---|---|
| authentication loop | `CommandWindow.cpp` 141-665 | `initialization`, `_fConnected`, `strlogUser`, `strlogUserPW`, `empPWCT`, `boolGetBack`, `isOK`, where it is | `Initialize`, `GetConnectedStatus` |
| window thread | `CommandWindow.cpp` 682-1225 | the window and its controls, the EDIT text, `getUpw`, the message queue | `_InitInstance`, `_ThreadProc`, `_ProcessNextMessage`, `_WndProc` |
| database client | `MySqlConn.cpp` | the `MYSQL` handle, `GetCarNumber`; the server's `CarTable`, `loginTable`, `loginFTable`, `PrintUser` | `initConnection`, `info_query`, `user_query`, `user_insert`, `user_Print`, `user_update` |
| gateway client | `HttpConnect.cpp` | none of its own; the shared `chhttpPOST` and `BoolHttpback`; the gateway's session | `getData`, `postData`, `socketHttp` |
| card reader line | `ComAsy.cpp` | `m_hCom`, `m_IsOpen`, `isopenCOM`, `Readinfo`, `TempReadinfo`, `len` | `InitCOM`, `UninitCOM`, `ComWrite`, the `OnRecv` thread |
| shared globals | `Global.h`, `Global.cpp` | the globals named above | - |
| credential provider | `CSampleProvider.*` | `_cRef`, the two tiles, the window, `_pcpe`, `_cpus` | `SetUsageScenario`, `Advise`, `UnAdvise`, the enumeration calls |
| DLL and class factory | `Dll.cpp` | `g_cRef` | `DllGetClassObject`, `DllCanUnloadNow`, `LockServer`, `CreateInstance` |
| connected tile | `CSampleCredential.*` | fields, `_pCredProvCredentialEvents` | `Advise`, `SetStringValue`, `GetSerialization`, `ReportResult` |
| disconnected tile | `MessageCredential.*` | fields | the same interface, read only |
| packing helpers | `helpers.cpp` | none | `KerbInteractiveUnlockLogonInit`, `...Pack`, `ProtectIfNecessaryAndCopyPassword` |
| field tables | `common.h` | constants | - |
| network probe, machine data | `CommandWindow.cpp` 1226-1372 (`AnalysisFile`, `MachineInfo`, `GetProgramDir`) | a file with the output of `ping`; the text time, name, IP, MAC | reading the one, making the other |
| MySQL headers | `include/` | third party | - |

**How they interact.** Three threads run in the logon process. LogonUI's thread
calls the provider's COM methods; each enumeration call asks
`CCommandWindow::GetConnectedStatus`, which does not return until a card has
been accepted. That thread (*main* below) talks to the database and to the
gateway with blocking calls and polls the global `empPWCT` while the user types.
The *window* thread pumps messages; its Login handler also talks to the gateway
and to the database, over the same connection object `DbTconn` and the same
buffer `chhttpPOST`, and ends by setting `boolGetBack` and `empPWCT`. The
*reader* thread appends bytes of the serial line and assigns the global
`Readinfo`, from which main takes its card. No variable of the three has a lock.
`ShowWindow` and `SetWindowText` on the window from main are messages *sent* to
the window's thread, so main waits for it.

**What is hard.** Two threads on one database handle and one buffer; the hand
over of control through two flags written in two steps; results returned through
a global (`isOK`); blocking sends to a thread that may be busy or gone; replies
lost after the statement was carried out; replies cut short; the logon process
ended at any point and started again; reference counts given back on failure
paths.

**What makes each part correct.**

- authentication loop: connected only after the attendance row exists; goes on
  past the prompt only for a user with a session; a swipe is recorded once;
  wakes when it is told to; is held in a message by nothing but a busy or lost
  Login handler, and that only at the prompt;
- window thread: its handlers run only while main polls; the password stored is
  the one that was accepted, for the card in hand; what is left in the EDIT box
  for the next user is no text that was given up or refused;
- database client: one row per machine whatever replies are lost; the machine is
  off line again after an initialization that succeeded;
- gateway client: "success" means a session;
- reader line: no character is delivered twice, a card that is done never comes
  back, a card is one swipe unless something was lost;
- provider and DLL: counts equal references; no unload under running code;
  callbacks neither leaked nor released twice;
- connected tile and packing: what is packed can be read on its own, is the
  configured credential whatever was typed, and memory and callback are accounted
  for;
- machine data and statements: four fields in their places, each text in its
  buffer on an ordinary machine;
- all of the login together, for the office that reads the tables: at most one row
  for an attempt, and nobody connected without one.

## 2. The modules

```
Attendance                 abstract: what a login with a card promises
 ^ implemented by
CommandWindow              both threads of CommandWindow.cpp, composing
 |- MySqlConn                the connection object and the four tables
 |- HttpConnect              the request buffer, its result, the gateway's session
 |- SerialLine               the port, the reader thread, Readinfo, len
 |                            ^ implemented by
 |                           ComAsy: OnRecv character by character
 |- Domain                   cards, users, passwords: constants only
Provider                   COM lifetimes: DLL, providers, tiles, callbacks
Credential                 the connected tile: its fields, callback, serialization
 |- KerbPack                 packing over lengths and offsets
Statements                 the form, the machine's data, the statements and their buffers

MCCommandWindow, MCProvider, MCCredential, MCStatements    constants for TLC
CommandWindowProofs <- AttendanceProofs, SessionProofs     theorems on CommandWindow
ProviderProofs, ComAsyProofs, CredentialProofs,
  StatementsProofs                                         theorems on the others
LineProofs                                                 ComAsy implements SerialLine
```

`Domain`, `MySqlConn`, `HttpConnect` and `SerialLine` define one operator per
method, which changes all variables of its module; `CommandWindow` extends them
and has one action per step of a thread. So the login is checked at three
levels: `Attendance` (the promise), `CommandWindow` over `SerialLine` (the
threads), `ComAsy` (the reader); `ImplementsAttendance` and
`ImplementsSerialLine` join them. Each definition with the lines it models is in
`PROJECT.json` under `map`.

A definition named `X_Something` beside an `X` is `X` with one plausible mistake
in it. The specification does not use it; putting it in the place of `X` makes
the property it goes with fail, which shows that the property depends on that
line of code.

### CommandWindow: steps and source

`mpc` and `wpc` say where main and the window thread are. An access to shared
state that the other thread could separate from the one before it is a step of
its own, which is what makes the races visible:

| `mpc` | code |
|---|---|
| `boot` | `Initialize`, up to 266, with `InitCOM`; it may fail without a configuration, or without a window thread |
| `idle` | LogonUI is not inside `GetConnectedStatus`; once `_fConnected` holds the loop at 282 is not entered and the call returns without effect |
| `loop` with `initialization = 1` | the ping rounds, 289-352: the first answer leads to the connection, the gateway logout (`initLogout`), the off-line mark (`initPrint`) and the "ready" text (`ready`) |
| `netText` | 347: a ping that failed, said in the window before the next |
| `loop` with `initialization = 0` | waiting for `Readinfo`; also the test of `isopenCOM` (`ReopenClose`, `Reopen`, `Reopened`, 605-656) |
| `connect`, `query` | 395-416: a new connection, the look-up |
| `prompt`, `showEdit`, `showBack`, `showLabel`, `arm` | 416-427: the controls are shown one by one, *then* `empPWCT = true` |
| `autoLogout` ... `autoOk2` | 436-467: the stored password is posted and judged |
| `autoFail`, `showEdit` ... `arm`, `failText` | 476-484: refused; the controls are shown one by one, the flag is set, then the window's text |
| `wait`, `back` | the polling loop, and `boolGetBack` read after it, 490-506 |
| `print`, `insert`, `inserted` | 507-527: `user_Print`, the attendance row, `isOK` read back |
| `close`, `welcome` | 527-549: close the port, `_fConnected`, greet |
| `insertFail`, `failUi`, `failLog`, `clear` | the failure branches 550-601, and line 603 |
| `spin` | inside a reply that never ends |
| `dead` | the process has ended, or `Initialize` has failed |

| `wpc` | code |
|---|---|
| `start`, `pump`, `gone` | `_ThreadProc`: the window is made, messages are pumped, the thread ends |
| `logoff`, `post`, `posted`, `update`, `updated` | the Login handler up to the test of `user_update`'s result |
| `ok1`-`ok3`, `retry1`, `retry2` | its two tails, flag by flag |
| `back1`, `back2` | the Back handler: `empPWCT = false`, then `boolGetBack = true` |

`attempt`, `restarts` and `swipes` are history variables: the card in hand and
what the gateway really said, the restarts, the cards delivered. They guard
nothing but the bounds.

**The environment.** A database call may fail, or be carried out and reported as
failed (`Outcome`). A reply ends in one of the four ways of `HttpConnect`. The
reader delivers any card at any time, over one that has not been read yet. The
user types, clicks, presses Enter with the focus in the EDIT box, in the window
or on a button, and closes the window, when the window's thread is idle (input
is retrieved after posted messages). The process may be ended at any point and
start again with fresh globals; the tables and the gateway's session stay.

**Undefined behaviour.** `user_Print` calls `mysql_num_rows` on a result pointer
that is not initialised when the select failed: it crashes, updates or inserts
(`UBOutcomes`). `delete` of a string's buffer at the end of the ping loop and
reading an absent file may end the process (`InitCrash`), and so does a request
when the gateway's name has no address (`RequestCrash`, `HttpConnect.cpp` 44-45).

**Abstractions.** Card numbers, users and passwords are model values; of a
password only "longer than 7 characters" and "holds a `+`" are seen. Controls
are shown one `ShowWindow` at a time, because a handler started from the first may
run, or be lost, before the next; `shown` is the set of those on the screen, and an
input needs its control there. The four that hide them on an accepted stored
password (462-465) are one step: that path starts with all of them hidden, by
`PromptInv`. Those inside a handler are one step as well, since the window's own
thread gets no input while it runs. `initConnection` and `info_query`
are one step, since both run before anything else is read. A card arrives whole;
`ComAsy` shows why it may be taken so. Texts fit their buffers; `Statements` says
when they do not.
Message boxes are taken as dismissed, database calls as returning. Layout,
painting, texts and logging are left out.

### Provider: steps and source

One action per COM method, per provider instance. `GetConnectedStatus` is the
step at which it returns, and it returns only connected. LogonUI is a correct
COM client: it calls and releases what it holds, and enumerates after a
`SetUsageScenario` that succeeded. The class factory is there with its own count,
which `g_cRef` does not include: `CreateInstance` and `LockServer` need a
factory, and one that is kept while the DLL may go must be kept by a lock.
`_cpus` and argument checks are left out (`Credential` has `_cpus`). `Release` is
modelled as written: it deletes on the value found *before* the decrement
(`CSampleProvider.h` 38), so the last `Release` deletes nothing. Crashes and
restarts are left to `CommandWindow`.

### Attendance: the abstract login

Five variables: the stage of the attempt, its card, the stored passwords, and
the two tables. `CommandWindow` maps its program counter to `stage`: an attempt
is *asked* about from the look-up to the insert, *recorded* or *spent* after it
by what `isOK` says, *connected* when `_fConnected` is set, and *away* otherwise
(also when the process has ended or hangs in a reply). `cardAsked` is the card of
the attempt in hand. The mapping hides the window thread: all it may do at this
level is `Enrol`, and only while the card is being asked about. `Refuse` leaves the card
of the failure row open, because after a failed look-up `GetCarNumber` is the
card of an earlier attempt (`MySqlConn.cpp` 180-183). An insert whose reply was
lost is `Record` with the outcome *spent* and the row there.

### ComAsy: steps and source

Characters are numbered as they are sent, so a character that is lost, doubled
or out of place can be seen. `OnRecv` is a thread per opened port with the steps
`OnRecvStart` (it clears `Readinfo` and tests `m_IsOpen`), `Wait`, `Read` with
`Assemble`, `Purge`, `Result` (the second `GetOverlappedResult`, whose failure
sets `isopenCOM`) and `Test`. Main's side has `InitCOM`, which starts the thread
*before* `SetIsOpen`; closing in three steps, `ClearIsOpen`, `CloseCom` and
`UninitCOM`, whose one-second wait may end with the reader still alive
(`straggler`); and, from `GetConnectedStatus`, `ComWrite`, `TakeCard`, `Retry`
and `Clear`. `m_hCom`, `m_IsOpen` and `Readinfo` are shared by all readers, so a
straggler goes on with the next port's handle. `Restart` ends all threads. `Clear`
is also possible once the attempt has been recorded, where the code leaves the loop
before line 603; nothing reads `Readinfo` after that, as the one provider of the
process is connected, so the extra step takes no behaviour's meaning away.

A torn read of the `std::string` `Readinfo` is not told from the text before or
after; if it ends the process, that is a `Restart`.

`ImplementsSerialLine` maps the port, the reader of the open port and the cards
delivered to `SerialLine`, whose steps `CommandWindow` is checked with. It holds
until a reader has outlived its wait; what is promised beyond that point is
`OnePlace` and `NeverReplayed`, which hold always.

### Credential and KerbPack: steps and source

One action per method of `CSampleCredential` that changes something:
`SetUsageScenario` (the provider creates the tile for the first scenario and
keeps it for later ones), `Advise`, `UnAdvise`, `SetSelected`, `SetDeselected`,
`SetStringValue`, and `GetSerialization`, split by its outcome. Every copy of a
string may fail for want of memory, and `Initialize` returns `S_OK` even so
(`CSampleCredential.cpp` 62-103). A string is a model value with a number of
characters; `heap` counts the blocks that have been allocated and not freed.
`KerbPack` has `KerbInteractiveUnlockLogonInit` and `...Pack` as operators:
lengths in bytes limited to 16 bits, offsets as sums. Outside a domain
`DomainNameFlat` is `NULL`, and the structure is packed without having been
filled in: `Garbage`, about which `PackedInside` says nothing.

### Statements: steps and source

A text is its length. One behaviour is the course of one login's texts:
replacing `+` in the typed password (`Replace`), the form (`Post`),
`user_update`, or the form with the stored password as it is (`PostStored`, 443);
then `MachineInfo`, card by card (`NextCard`), its copy and
`strtok`; then `user_Print` and `user_insert`, with the lengths of the format
strings. `sprintf_s` and `strcpy_s` end the process when a text does not fit:
`at = "ended"`. The model begins with the machine and the user, which do not
change, and stops when the login's last text is written.

`Sums` gives the lengths of a string as its texts are appended one by one, and
`strtok` the texts found call by call: recursive functions, not operators, so
that the proofs can use them. `strtok` passes over an empty text, which is why an
empty address would put every later field one place too early.

## 3. What is checked

| run | instance | properties | what it shows |
|---|---|---|---|
| `prompt` | a known card and an unknown one, two swipes, a short and a long password, every ending of a reply, every undefined outcome; click Login, click Back, close | `TypeOK`, `ExclusiveConversation`, `PromptInv`, `AttemptInv`, `HeldAtPromptOnly`, `BoxAtPrompt`, `LoginRecorded`, `WakeupKept` | the Login handler never uses the connection and the buffer while main does, it holds main in a message at the prompt only, no handler undoes a wakeup, the next user finds no unstored password in the EDIT box, and nobody is connected without an attendance row |
| `two_users` | two cards of two users, one password with a `+`, two swipes, Enter in the EDIT box as well | `ProceedsWithSession`, `StoredAsPosted` | main goes on only with a session of the card's owner; a password is stored as it was accepted, for its card |
| `restart` | one card, two swipes, one restart at any point, lost replies, hanging requests | `OneRecordPerSwipe`, `OneRowPerMachine`, `OfflineAfterInit`, `ImplementsAttendance` | the tables stay consistent across crashes and retries, and the threads implement the abstract login |
| `progress` | both threads weakly fair, main's messages strongly | `WakeupSeen`, `AttemptComesToRest` | a polling main notices a fallen `empPWCT`; an attempt comes to rest unless one of the threads is lost in a reply |
| `reader` | three swipes of two characters, two openings, a reader that outlives its wait, restarts | `TypeOK`, `OnePlace`, `InOrder`, `CardIsOneSwipe`, `NeverReplayed`, `ImplementsSerialLine` | no character is delivered twice and no finished card comes back; a card is one swipe unless something was lost; the line `CommandWindow` uses is the right abstraction |
| `provider` | two providers, two callbacks, at most two references of each kind, two failed set-ups | `TypeOK`, `RefsAccounted`, `UnloadSafe`, `SinksBalanced` | counts are references; the DLL stays while its threads run; a callback is held once |
| `tile` | typed passwords of 127 and 128 characters, account names of 5, 32767 and 32768, in and out of a domain, memory failing at every copy, three serializations | `TypeOK`, `DeselectedIsCleared`, `PackedIsConfigured`, `PackedInside`, `HeapAccounted`, `EventsBalanced` | what the tile packs is the configured credential, stands on its own, and neither its memory nor its callback is freed twice |
| `statements` | up to three network cards without and with a hardware address, one or four IP addresses, names, typed and stored passwords on both sides of the limits | `TypeOK`, `MacsApart`, `FieldsInPlace`, `OrdinaryNeverEnds` | the fields keep their places, and an ordinary machine never ends the process |

Four runs show a disagreement between a comment of the source and the code; TLC
finds each violated:

| run | comment | what the code does |
|---|---|---|
| `back_race` | `CommandWindow.cpp` 79, `boolGetBack` starts the next round | 1050 wakes main before 1051 says it was Back; main can record the login |
| `lost_wakeup` | `CommandWindow.cpp` 78, `empPWCT` lets main go on | the controls are shown at 421 before the flag is set at 427, which undoes a fast handler's `false` |
| `enter_key` | `CommandWindow.cpp` 930, Enter inside the EDIT box | Enter in any window of the thread runs the Login handler, whatever main is doing |
| `cut_reply` | `HttpConnect.cpp` 100, the user is logged in | any reply without the two refusal texts, an empty one too, is a success |

Four more can be read off the models and have no run of their own: the stored
password is posted without the replacement line 963 makes for a typed one (443);
`ComWrite` leaves the bytes written in the global `len`, which nothing sets back,
so that after one short write every later request is short (575); a reader that
found `m_IsOpen` still false has ended and never marks the line (`ComAsy.cpp` 60),
so that the loop does not reopen it; and on a machine with a second network card
the attendance statement may not fit `query[255]` (`MySqlConn.cpp` 208), which
`OrdinaryNeverEnds` therefore excludes.

Because of `enter_key`, `ExclusiveConversation` and `PromptInv` are checked with
Enter pressed in the EDIT box only; the proofs state this as the assumption
`EnterOnlyInEdit`. The other passing runs keep to the same inputs, as their properties
rest on the same exclusion. Because of `back_race` and `cut_reply`,
`ProceedsWithSession` names these two exceptions: there is no third way past the
prompt.

**Bounds.** One card in hand at a time and one loop body per card make two
swipes enough for every pair "this card, the one before it" (stale
`GetCarNumber`, stale `strlogUser`, a card that overwrites another); a third
repeats the second. One known and one unknown card give both answers of the
look-up, two known ones the confusion of two users. Two passwords separate the
two results of the length test and of the gateway's judgement; the initial
`CarTable` is any of empty, right and wrong, and so are the initial session and
the initial row of `PrintUser`. One restart reaches every pair of "tables as a
process left them" and "fresh process". `ReadyLen = 1` suffices to tell a whole
request from a short one. Two provider instances let one outlive the other, two
references of each kind let one be released while another is held, and two
failed set-ups are a failure and its retry. `progress` has one swipe,
since liveness is about one attempt, and the loop returns to its start.

In `reader` a card of two characters has a beginning and an end, which is all
that framing needs: one lost character shifts every card after it. Three swipes
let a shifted card consist of two of them and another follow; two openings let a
reader outlive its port and meet the next reader. In `tile` the lengths lie on
both sides of each comparison of the code (127 and 128 at line 186, 32767 and
32768 where bytes stop fitting a `USHORT`); a third serialization repeats the
second. In `statements` the lengths again lie on both sides of each buffer's
limit; the third network card is the first whose separators follow both a card
with and a card without an address.

**Deadlock** is not checked for `CommandWindow`: the process can end or hang in a
reply for good, and main polling with nobody left to type is a state without a
step (polling again changes nothing). The bad cases among those are what
`WakeupSeen`, `AttemptComesToRest` and `lost_wakeup` are about. Nor is it checked
for `reader`, where the bounds on swipes and openings are used up, and for
`statements`, where a login's last text has been written. It is checked for
`provider` and `tile`.

**Fairness.** `WF_vars(MainProgress)` and `WF_vars(WindowNext)`: both threads are
scheduled by Windows, and a call they have made ends in one of its modelled ways
(not returning is one of them, `stuck`). `MainProgress` leaves out LogonUI's
decision to call, and the ping round, which need not ever succeed. Main's messages
to the window are strongly fair besides: between two handlers the window's thread
is in `GetMessage`, which takes what other threads have *sent* before it retrieves
what was posted, so a user who goes on clicking does not keep main out. Nothing is
assumed of the user, of the reader or of the machine staying up.

A Login handler that is lost in `recv` never comes back to `GetMessage`. If that
happens while main still has controls to show (422-424, 477-479) or the text of
481 to send, main is held there for good. `AttemptComesToRest` therefore counts a
lost window thread as an end, and `HeldAtPromptOnly` says that a running or lost
Login handler can hold main at these places only.

**Symmetry** is used in `provider` only, over instances and callbacks; its
properties are invariants and one action property, and treat all of them alike.

## 4. What is proved

For all values of the constants that meet the assumptions the modules state
(`DomainAssumption`, `UBAssumption`, `RepliesAssumption`, `SerialAssumption`,
`WindowAssumption`; `ProviderAssumption`; `ComAsyAssumption`;
`KerbPackAssumption`, `CredentialAssumption`; `StatementsAssumption`). Theorems
marked (E) assume `EnterOnlyInEdit` besides, for the reason `enter_key` gives.

**The two threads** (`CommandWindowProofs`).

- `TypeCorrect`: `[]TypeOK`. One lemma per method of the three component
  modules, then one per group of actions.
- `PromptAlways`, `Exclusion` (E): `[]PromptInv`, `[]ExclusiveConversation`. The
  latter is not inductive: nothing in it keeps a posted Login message from
  being handled after main has gone on. `PromptInv` closes the gap. A login is
  *possible* while the controls are shown, a Login message is posted or its
  handler runs; then main is showing controls or polls (`AtPrompt`), and once `empPWCT` has been
  set it cannot leave, because it is still true. That needs the order inside the handlers: the
  controls are hidden (`ok1`, Back) before the flag falls (`ok3`, `back1`), and
  a message is posted only to an idle pump with an empty queue.
- `LoginHoldsMainAtPromptOnly` (E): `[]HeldAtPromptOnly`. `PromptInv` keeps main at
  the prompt while the handler runs; that it is there too when the thread is lost in
  a reply is `LostInv`: the thread was lost while main was at the prompt, and a held
  main can do nothing but set the flag it polls. It bounds where
  `AttemptComesToRest` needs its exception for a lost thread.
- `WakeupNotOverwritten` (E): `WakeupKept`, from `PromptInv`: a handler that would
  assign `TRUE` runs only while `empPWCT` is still true. It is the safety part of
  `WakeupSeen`; the rest of that is fairness.
- `AttemptAlways`, `RecordedBeforeConnected` (E): `[]AttemptInv`,
  `LoginRecorded`. `isOK` is written by both threads. The invariant is
  `AttemptInv`: from the look-up to the insert `GetCarNumber` is the card in
  hand; at `inserted` a true `isOK` is the insert's. The window thread preserves
  it because of `PromptInv`: it cannot be at `update` while main is at
  `inserted`.

**Sessions** (`SessionProofs`).

- `NobodyElsesSession`, `PasswordsStoredAsPosted` (E): `ProceedsWithSession`,
  `StoredAsPosted`. Both from one invariant in four parts: the user looked up is
  the owner of the card in hand (`UserInv`); what the Login handler posted is
  what it will store (`PostInv`); where a success has been read, the user is
  admitted (`JudgedInv`); the polling loop ends for an admitted user or for Back
  (`LeavingInv`). The globals the handler reads again have not moved because
  main is at the prompt all the while.
- `BoxHoldsNothingUnstored` (E): `[]BoxAtPrompt`. The invariant `BoxInv` follows the
  text through the Login handler: nobody can type while it runs, so the text that it
  stored is the text it leaves in the box (`UpdateStores` needs `AttemptInv` and
  `UserInv` for the row to exist). Hidden text is stored text, except where the
  user has closed the window over it; then main is held for good (`Stranded`), and
  nobody is shown the box again.

**The tables** (`AttendanceProofs`).

- `SwipesRecordedOnce`: `[]OneRecordPerSwipe`. The sum of the rows is not
  inductive; with `Pending`, the row that a card still in `Readinfo` may lead to,
  it is. That a card being worked on is still in `Readinfo` is `TakenInv`. This
  needs no assumption on Enter: the window thread inserts nothing.
- `MachineHasOneRow`: `[]OneRowPerMachine`, assuming that a garbage result pointer
  does not lead to an insert. Without that the property is false.
- `InitializationPublishes` (E): `[]OfflineAfterInit`, assuming that a garbage
  result pointer ends the process.
- `LoginImplementsAttendance` (E): `ImplementsAttendance`. `Init` maps to `Init`;
  each action of either thread maps to one action of `Attendance` or to none.
  `AttemptInv` gives the card in `Record`, `PromptInv` and `AttemptInv` the card
  in `Enrol`.
- `OfficeSeesEveryLogin`, `AttemptsWriteOneRow` (E): what `Attendance` promises
  (`ConnectedIsRecorded`, `OneRowPerAttempt`), carried over to `CommandWindow`
  by the refinement.

**The reader** (`ComAsyProofs`, `LineProofs`), for any length of a card and any number of
swipes and openings.

- `CharactersInOnePlace`: `[]OnePlace`, by itself inductive with the types it
  needs; characters move between queue, `TempReadinfo`, delivered and lost, and
  no two readers take the same ones.
- `FinishedCardsStayAway`: `[]NeverReplayed`. What main has in hand was
  delivered, what is delivered later is new by `OnePlace`.
- `CardsInOrder`: `[]InOrder`. The invariant extends the order from `Readinfo`
  over the one live reader's `TempReadinfo` to the queue and what will be sent;
  that there is one live reader is why a straggler is excepted.
- `ReaderImplementsLine`: `ImplementsSerialLine`. `LinkInv` ties the handle, the
  flag and the open port's reader to where main is (a reader that has ended in an
  open port did so on its first test); `CountInv` says that characters do not
  repeat and that whole frames were delivered, so that `SerialLine`'s swipes can be
  counted by characters. Each step is then one of `SerialLine`'s or none.
- `CardsAreSwipes`: `[]CardIsOneSwipe`. While nothing is lost the characters stand
  in a row: k swipes delivered, then `TempReadinfo`, then the queue (`InRow`). No
  induction over a sequence is needed.
- `ReaderTypes`: `[]TypeOK`.

**Lifetimes** (`ProviderProofs`), for any number of instances, callbacks,
references and failures.

- `CountsAccounted`: `[]RefsAccounted`. Strengthened with the types of
  the counts and with what an instance that was never created looks like (no
  references, no tiles). `Release` deletes at a count of zero; the invariant
  shows that the client's reference keeps the count above it, so what LogonUI
  can call exists.
- `NeverUnloadedInUse`: `[]UnloadSafe`. The DLL's count is never below the locks
  plus one for each instance ever made, as no destructor runs; a window thread
  needs an instance that made it.
- `CallbacksBalanced`, `ProviderTypes`: `[]SinksBalanced`, `[]TypeOK`, for finitely
  many instances, as a callback's count is the number of instances that hold it.

**The connected tile** (`CredentialProofs`), for all texts, lengths and scenarios.

- `PackedBlocksStandAlone`: `[]PackedInside`, from `CanInit`'s limits and the sums
  in `Pack`.
- `CredentialIsConfigured`: `[]PackedIsConfigured`. `FieldInv` says which texts a
  field can hold and that a tile whose password field is not editable holds none.
- `OnlySerializingLeaks`: `[]HeapAccounted`; `CallbackHeldOnce`:
  `[]EventsBalanced`; `DeselectingClears`: `[]DeselectedIsCleared`; `TileTypes`:
  `[]TypeOK`.

**The statements** (`StatementsProofs`), for any number of network cards, addresses
and lengths.

- What a sum is: `Sums` is a recursive function, and the lemmas about it
  (`SumsIs`, `TotalNat`, `PartOfTotal`, `TotalFour`) go by induction over its index.
  The induction theorems of the library take an operator, which the provers cannot
  instantiate, so `UpTo` states induction for a *set* of numbers: one that holds 0
  and with each i also i + 1 holds all up to n. It follows from the well-foundedness
  of `<` by its minimal element. `StrtokFindsAll` is proved with it too: without an
  empty text `strtok` finds every text in its place.
- `StatementTypes`: `[]TypeOK`. `plus` and `strUserPW` move together.
- `MacsStayApart`: `[]MacsApart`, assuming `LongAddresses`: no address of one to three
  bytes. Such an address has at most eight characters, and alone it is not long
  enough for the test on 1308, so two of them would run into each other; the
  hardware the code meets has six bytes or none. `SeparatorsFollow` is the
  strengthening: the first address alone has more than ten characters, and the whole
  string is at least as long (`PartOfTotal`), so every later test on 1308 succeeds.
- `FieldsStayInPlace`: `[]FieldsInPlace`. The cards read so far have made `strIP`
  non-empty if there is one, and no text is empty, so the four arguments of the split
  are positive lengths.
- `OrdinaryMachinesLogIn`: `[]OrdinaryNeverEnds`. At most one card, so the sums have
  one summand each (`FirstCard`); what remains is arithmetic over the buffers.

**Model-checked only.** `WakeupSeen` and `AttemptComesToRest`: liveness under
fairness is outside what the proof system does. Their safety parts, `WakeupKept` and
`HeldAtPromptOnly`, are proved. Every other property of a run that passes is proved.

## 5. What is not modelled, and why

- The MySQL client headers under `include/` are third-party and make up four
  fifths of the lines counted under `src/` (the program's own files have about
  4900); nothing of them is modelled, beyond what the calls into the library may
  answer.
- `user_delete`, `FreeConnect`, `byteToHexStr`, `OnConnectStatusChanged` and the
  command branch of `_WndProc` that nothing posts: never called.
- The destructors of `CSampleProvider`, `CSampleCredential` and
  `CMessageCredential`: they never run (see `Provider`), and with them the window's.
- Methods of the tiles that only read fields, those that return `E_NOTIMPL`, and
  `ReportResult`, which looks a message up, asks LogonUI to show an empty password
  and changes nothing of the tile. The disconnected tile has nothing else; only its
  lifetime is modelled.
- `FieldDescriptorCopy` beyond its outcome, and the field tables: constants.
- The number of database connections (one is left open for each card,
  `MySqlConn.cpp` 19): nothing in the process reads it, and the server's limit is
  not in the source.
- The heap after `delete cmdstr` (352): either it crashes or nothing is seen of it.
- How often a behaviour happens: the ping's file is read one second after the
  command was started, complete or not; the answer is a choice.
- Adapter enumeration, registering and painting the window, program directory and
  configuration file: calls of the system and layout.

Hazards of the code without a property are listed in `PROJECT.json` with the
reason; two more are visible in the model but contradict no statement of the
source: the print mark left on after a failed insert (517), and a card swiped
between the failure message and line 603, which is cleared unread.

## 6. Plan

Done: the threads, the abstract login, the reader, the lifetimes, the connected
tile with its packing, the statements, and the proofs above. Left, in this order:

1. Closing the window while main prompts, which leaves nobody to wake it: in
   `CommandWindow`, as a leads-to property once waiting for a user and waiting for
   nobody are told apart. `Stranded` in `SessionProofs` is the state it is about.
2. Connections counted in `MySqlConn`, with a limit as a constant, and what the
   loop does once the server refuses.
3. `Credential` composed with `Provider`: a tile per instance, instead of one.
