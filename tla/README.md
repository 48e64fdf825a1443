# A TLA+ model of mremoteng-go

TLA+ modules, TLC runs and TLAPS proofs about mremoteng-go, a remote-connection
manager in Go.  Paths are relative to `internal/` of the repository unless they
start with `cmd/`.

## 1. The system

| component | state | operations | who else touches it |
|---|---|---|---|
| connection tree (`connection/tree.go`) | `parent` of every node, `children` of every container | AddChild, InsertChild, AddChildAbove/Below, RemoveChild, SetChildPosition, Descendants, Walk | serializers build it, the tree view and the panel read it; one goroutine, no locks |
| inheritance (`connection/inheritance.go`, `model.go`) | `Raw` values and `Inheritance` flags of every node | Effective, SetAll, ApplyInheritanceToChildren, direct writes | the panel writes both; `protocol.New` and CSV read `Effective` |
| properties panel (`ui/properties.go`) | target node, the widgets of each row, the `refreshing` flag | SetTarget, refresh, commit (the callback of every widget) | writes `Raw` and flags |
| session lifecycle (`protocol/lifecycle.go`) | `onError`, `onClose`, `closed`, one mutex | OnError, OnClose, FireError, FireClose | embedded by every backend, called from any goroutine |
| byte-stream sessions (`protocol/raw`, `telnet`, `serial`, `rlogin`, `ssh`) | `stream` (a `WatchedStream` with a `sync.Once`), the transport | Connect, Read, Write, Resize, Disconnect | pump goroutine, UI goroutine, whoever disconnects |
| external-client sessions (`protocol/rdp`, `anydesk`) | `cmd`, `waitDone`, `closeOnce`, the process | Connect, Disconnect | exit-watcher goroutine |
| VNC session (`protocol/vnc`) | framebuffer, `frames`, `done`, `closeOnce` | Connect, read loop with keepalive, SendKey/SendPointer, Disconnect | read loop, view goroutine |
| WinRM session (`protocol/winrm`) | growing output buffer, `waitDone`, `closeOnce` | Connect, Read, Write, Disconnect | two copiers, one waiter |
| web session (`protocol/web`) | webview, window handle, `closeOnce` | Connect, Resize, Disconnect | locked window thread |
| session tabs (`ui/sessiontabs.go`, `framebuffer.go`) | tab strip, queue of `fyne.Do` | Open, removal on OnClose, wiring after Connect | one Connect goroutine and one pump per tab |
| terminal (`ui/terminal.go`, `ansi.go`), telnet codec | parser mode, parameters, cursor, grid | Feed, TypedKey; IAC handling inside Read | UI goroutine; pump |
| tree view (`ui/tree.go`) | index from ID to node | Reload, SetRoot, selection | reads the connection tree live |
| documents (`serialize/csv`, `serialize/xml`) | none between calls | Serialize, Deserialize | build a tree through AddChild |
| credential clients (`credential/*`) | only Delinea keeps a token | Secret, tokenFor | any goroutine |
| settings and files (`settings`, `ui/connectionsfile.go`) | two files | Load, Save | startup, menu, shutdown |
| window embedding, factory, security, shell, changelog | — | — | see "Not modelled" |

A tab (`SessionTabs.Open`) builds the view, registers `OnClose`, and calls
`Connect` in a goroutine under a 30 s context; when it returns nil the view is
wired: a terminal gets a pump goroutine that reads until an error.  Every
backend reports failures and its end through the embedded `Lifecycle`.

What is hard here, and what makes each part correct:

* *Tree.*  Two directions of one relation are written by hand in four
  functions; the cycle check, the climb of inheritance and every traversal rely
  on their agreement.  Correct: the links agree, no list repeats a node, no node
  is its own ancestor, a call moves one node and leaves the order of the others.
* *Inheritance.*  Three rules (flag, root, child of a root) decide where a value
  comes from, over a tree that changes.  Correct: the nearest node on the way up
  that keeps its own value wins.
* *Panel.*  Setting a widget calls the callback that writes the model.  Correct:
  what is displayed is what the model holds, and toggling Inherit loses nothing.
* *Sessions.*  Three or more goroutines observe the same end; callbacks are
  called outside the lock and may call back; the context can expire at any
  stage; nothing watches the transport but its readers and writers.  Correct:
  the end is reported once, and is reported; Disconnect and Connect return; no
  client process is left behind, no output is lost before the end, and the tab
  goes with the session and not before it, whatever order the UI goroutine
  learns of things in.
* *Telnet.*  Commands and text share one stream that the network cuts anywhere;
  replies are written beside the user's input, and the server may go in the
  middle of a command.  Correct: the pump gets exactly the text of what arrived
  whole, the server exactly the input and one refusal per option.
* *View.*  The tree widget's index is as old as its last reload.  Correct: the
  rows follow the tree as long as no container is new, and a reload catches up.
* *Documents.*  A writer flattens inheritance and filters; a reader rebuilds a
  tree from untrusted rows or elements.  Correct: what a format keeps is read
  back, in the shape it had, and no CSV rows make a cycle, lose a record or leave
  one out of reach of the root.

`PROJECT.json` lists every hazard with its line and the properties that cover
it; the three without a property, and the five whose properties leave something
out, carry a note that says why.

## 2. Modules

| module | role |
|---|---|
| `Forest` | abstract: nodes move below containers, no cycle, roots stay on top |
| `ConnectionTree` | `tree.go`; implements `Forest` |
| `ConnectionTreeProofs` | TLAPS proofs about `ConnectionTree` |
| `Inheritance` | EXTENDS `ConnectionTree`: values, flags, `Effective` |
| `PropertiesPanel` | EXTENDS `Inheritance`: the panel over one node of the tree |
| `SessionContract` | abstract: a session ends once, its owner is told at most once and not before |
| `Lifecycle` | `lifecycle.go`; implements `SessionContract` |
| `LifecycleProofs` | TLAPS proofs about `Lifecycle` |
| `StreamSession` | EXTENDS `Lifecycle`: WatchedStream and the byte-stream backends |
| `StreamSessionProofs` | TLAPS proofs about `StreamSession` |
| `BackgroundSession` | EXTENDS `Lifecycle`: what the backends with a goroutine of their own share |
| `ProcessSession` | EXTENDS `BackgroundSession`: rdp and anydesk |
| `VncSession` | EXTENDS `BackgroundSession`: Connect, the read loop, frames |
| `WinrmSession` | EXTENDS `BackgroundSession`: the copiers and the growing buffer |
| `WebSession` | EXTENDS `BackgroundSession`: the window thread |
| `SessionTabs` | EXTENDS the four: a tab over any of them, the UI goroutine's queue, the views |
| `SessionTabsProofs` | TLAPS proofs about `SessionTabs` and the backends under it |
| `Terminal` | `ansi.go`: the interpreter of terminal output, byte by byte |
| `TerminalProofs` | TLAPS proofs about `Terminal` and `TelnetCodec`, the two decoders a telnet server's bytes pass |
| `TelnetCodec` | `telnet.go`: Read's commands, negotiation and subnegotiation, Write's escapes |
| `TreeView` | EXTENDS `ConnectionTree`: the widget's index and rows |
| `TreeDocuments` | EXTENDS `Inheritance`: what both file formats share; a read tree as a record |
| `CsvDocuments` | EXTENDS `TreeDocuments`: `serialize/csv` |
| `Aead` | what `serialize/xml` relies on of `security/aead.go` |
| `XmlDocuments` | EXTENDS `TreeDocuments`, `Aead`: `serialize/xml` |
| `Documents` | EXTENDS both: a tree that is edited and saved, or a document from elsewhere |
| `DocumentsProofs` | TLAPS proofs about `Documents` |
| `InheritanceProofs` | TLAPS proofs about `Inheritance` |
| `ViewProofs` | TLAPS proofs about the two widgets over a tree, `TreeView` and `PropertiesPanel` |
| `MC*` | the small instances TLC checks |

Some modules hold operators marked `MUTANT`: each is the definition that
follows it with a plausible mistake in it.  Put in that definition's place
it makes TLC report one property, which shows that the property depends on
the code.  No specification uses them.

### How state and actions correspond to the code

*ConnectionTree.*  `parent` and `children` are the fields of the same name.
A Go `Node` is a handle: the object and whether it is reached as the container
or as the `*ConnectionInfo` inside it (`container.Base()`), which is what
`ErrNodeAlias` is about.  `outcome` is the last return value.  Each call is one
action, with its early returns in the order of the code (`InsertError`).  The
loop of `wouldCreateCycle` is the set of ancestors, defined as a least closed
set so that it means something on any pointer structure; `ClimbEnds` checks
that the loop as written ends and computes that set.

*Inheritance.*  `raw` and `inherit` are `Raw` and `Inheritance`; a flagged field
is a member of `inherit[n]`.  `Effective` is the recursion of the code as a
recursive function.  Moves are the tree's own AddChild and RemoveChild.

*PropertiesPanel.*  `shown`, `ticked` and `editable` are the state of the
widgets.  One user event, the `commit` it causes and the `refresh` at its end
are one action, since all of it happens in one callback of the UI goroutine.  The
callbacks that `refresh` itself triggers return at once, because of the flag
`refreshing`; the flag and those callbacks are folded into the action, so the
runs would not notice if it were not set in time.  Text that does not parse is
one value, `Malformed`.

*Lifecycle.*  Each critical section is a step and the call of the callback a
later one: `firing[t]` is the function a goroutine has read and has not called
yet.  `closeRuns` and `errorRuns` are history.

*StreamSession.*  `connect` is the stage of Connect (dialling, handshake, ssh's
channel setup), `stream` says that `s.stream` has been set, `socket` and
`remote` are the two ends of the transport, `once` is `closeOnce`, `pc` is where
each goroutine is.  `closing` separates entering `closeOnce` from the end of
`Close`, so that a second Disconnect can be seen to wait.  What a blocked Read
can return is `ReadFailures`: a closed or broken transport gives an error,
a hangup `io.EOF`; an ssh channel may give `io.EOF` in every case.  An answer to
rlogin's handshake after the context has expired is no step: it goes into a
buffered channel that nobody reads any more (`protocol/rlogin/rlogin.go:94-112`).

*BackgroundSession.*  The owner registers OnClose and connects in one goroutine
(`Connector`); `Watcher` is the goroutine Connect starts (exit watcher, read
loop, waiter, window thread).  `FireCloseThen` is a FireClose and where its
goroutine goes on; a callback that calls Disconnect continues in it, which for
the Watcher means that it may wait for itself.

*ProcessSession.*  `proc` is the client, `cmd` and `waitDone` the fields;
publishing `cmd` and making `waitDone` are two steps, as in the code.  The
window search of Windows succeeds or fails; Linux skips it.  `Disconnect` is
`KillOnce` and then the wait on the channel.

*VncSession.*  `conn` and `server` are the two sides of the connection.  The
client library reads the connection in a goroutine of its own and closes it when
that fails (`LibraryCloses`); a request written between the server's end and
that moment may succeed, so the loop may only learn of the end from its timer
(`Tick`).  `inbox` is the library's channel, `frames` the session's, which drops
the newest frame when it is full.  A screen is its version number.  `quit` is
`s.done`; `QuitLoop` is the select's branch for it.

*WinrmSession.*  `connect` goes through the shell, the command and the two steps
in which Connect publishes them: the fields Disconnect looks at (`PublishShell`),
then its channel and the waiter (`WatchCommand`).  There is a copier per output
stream, the waiter (`CloseBuffer`, `Release`, `ReportExit`), and `once` with the
state "running" because stopping the command is a round trip.  Output is counted,
not spelled: `produced`, `pending`, `buffered` and `taken` say where each chunk is.
The command and the streams are the server's and the client library's.  The
comment at `protocol/winrm/winrm.go:256-265` reports that a Disconnect before any
read can still hang, with the cause not found; so a `StopCommand` while nothing
has been taken may leave streams `stuck`, which never end.  The errors of the two
Close calls (`:269-272`) are dropped, so a `StopCommand` may also have no effect.

*WebSession.*  The Watcher is the locked window thread.  Connect waits for
`ready` or its context, whichever it picks when both are there; `terminate` is
the message Disconnect leaves for the loop.

*SessionTabs.*  `kind` chooses the backend; `Process(step)`, `Vnc(step)` and so
on are the step of a backend together with what it does to the tab.  A run of
the callback `CloseTab` appends "remove" to `queue`, Connect's result appends
"wire" or "error" (both are `fyne.Do`), and `UILoop` serves the queue in order.
A session of the kind "any" calls the methods of Lifecycle in any order from any
goroutine, so that the run checks the lifecycle beyond what the four backends do
with it; it has no tab.

*TelnetCodec.*  A byte is its meaning to the protocol.  `wire` is what the
network still holds, `br` the reader's buffer, which a `Fill` gets any prefix of
the wire into; `at` is where Read is, inside a command or not, across calls.  When
the server hangs up, what is under way is cut off anywhere, inside a command or a
subnegotiation too; the rest is `lost`, and Read fails where it stands
(`ReadFails`).  A reply may fail once the server has gone.

*TreeView.*  A node stands for its ID.  `nodes` is the index; `Rows` is what the
widget asks for when every branch is open.

*TreeDocuments, CsvDocuments, XmlDocuments, Documents.*  A reader's tree is a
value, the record of what the variables of `Inheritance` hold for the tree being
edited; `Linked`, `Under` and `EffectiveOf` say of such a record what `WellLinked`,
`Below` and `Effective` say of the variables.  The fields are cut down to one for
each thing a format does with some fields and not with others, not to one for each
combination of these:

| field | what it stands for |
|---|---|
| `Name` | a node's own, never inherited; XML trims the root's (`serialize/xml/deserialize.go:86`) |
| `Username`, `Password` | filtered; XML encrypts the password, and not where it is inherited |
| `VNCProxyUsername`, `VNCProxyPassword` | secondary credentials: filtered and encrypted by XML, also where inherited, and never filtered by CSV |
| `RDGatewayAccessToken` | an encrypted attribute and its flag, but no column for either |
| `Color` | no column and no attribute |
| `SoundQuality`; `VaultOpenbaoMount` | a flag's column without the value's; no column, and an attribute of version 2.7 |
| `Hostname` | a text with nothing special about it |
| `Colors`, `RDPVersion` | enumerations, in every version or from 2.7 on; what is no member is read as a value of its own |
| `CacheBitmaps` | a boolean, and the column a reader knows a document's flags by |
| `RedirectDiskDrives` | a boolean before version 2.8 (`node26.go:83-87`), an enumeration from then on (`node28.go:6`) |
| `RedirectDiskDrivesCustom`, `RedirectPorts` | two columns whose headers are run together |
| `RedirectAudioCapture`, `RDPVersion`, `UserViaAPI` | three flags under each other's headers |

`FlagsWithoutColumn` and `ValuesWithoutColumn` name what CSV loses and `KeptValue`
what each version of XML keeps.  A text that should name a member of an
enumeration is typed in like any other: `Canonical` is the spelling a member is
read back in, `Fallback` what any other text is read as.  `Trimmed`,
`WithoutSeparator` and `Trues` are what the formats do to a text or take it for;
`Broken` are the texts with a line break, which end their row early: what is read
of such a document is not modelled, and `CsvReadsBack` is about the documents
that are `Intact`.  Which positions the run-together and exchanged headers stand
at is the code's defect and the model's.  An XML
document lists its elements in the order in which they open, each with the one it
is nested in (`around`); `addNode` is the decoder's handler for one of them, and
`Entered` says whether the recursion of the code gets to it.  A ciphertext is its
text in a box with the password on it (`Aead`).  `file` holds a document and what
it was saved from; once there is one the tree is left alone, so that what is read
of the file can be compared with it.

*Terminal.*  A byte is the branch of the code's switches it takes.  `rows` and
`cells` separate the grid's rows from the arrays they refer to, because scrolling
copies the references; an array nothing refers to is read as blank.  `mode`,
`params`, `paramAccum` and `haveParam` are the fields; `typed` (the digits that
were sent) and `terminator` (how much of ESC \ was) are history.

## 3. Runs

| run | checks | size |
|---|---|---|
| `connection_tree` | `TypeOK`, `WellLinked`, `ClimbEnds`, `DescendantsOnce`, `ViewFollowsTree`, `OneNodeMoves`, `ImplementsForest`, `ReloadCatchesUp` | a root, 3 folders (symmetric), a connection, a view of the root |
| `inheritance` | `InheritanceTypeOK`, `EffectiveIsNearestLocal`, `RootValuesStayAtRoot`, `TemplateReachesDescendants` | a root, 2 folders, a connection, 1 field, 2 values |
| `documents` | `CsvReadsBack`, `CsvLoadsEveryRecord`, `XmlReadsBack` | a root, 2 folders (symmetric), a connection; 18 fields, one edited at a time or all flags set; 8 texts; 2 passwords; foreign documents of up to 3 rows and 2 IDs that no row has; 35,588 states |
| `properties_panel` | `PanelTypeOK`, `DisplayFollowsModel`, `TickingKeepsLocalValue` | root > folder > host, a numeric inheritable field and a text field |
| `panel_untick` | `UntickingRestoresLocalValue` is violated | same |
| `stream_session` | `TypeOK`, `ImplementsContract`, `WaitsForTheClose`, `EndIsReported`, `DisconnectReturns`, `ConnectReturns` | raw, rlogin and ssh; reader, writer, closer; a callback that disconnects |
| `stream_connect_ctx` | `ConnectReturnsOnceCtxDone` is violated | same |
| `stream_early_write` | `IOBeforeConnectReturns` is violated | same |
| `session_tabs` | `TabsTypeOK`, `OneCloser`, `NoOrphan`, `TabStaysWithSession`, `OutputComplete`, `ImplementsContract`, `EndIsReported`, `DisconnectReturns`, `TabClosesWithSession`, `ViewEnds` | each backend; connector, watcher, closer; the tab's callback and one that disconnects; 2 streams and 2 chunks of output, 2 screens and 1 slot for frames; 86,988 states |
| `process_disconnect` | `DisconnectWaitsForOnClose` is violated | watcher and 2 closers |
| `terminal` | `TypeOK`, `RowsNotShared`, `NumbersReachTheCommand`, `TextAppearsAtCursor`; `DeliversText`, `ServerUnderstands` | interpreter: 2 lines of 3 cells, 3 arrays (symmetric), digits 0 to 3, up to 3 digits and separators; codec: 2 items of the server, one input, Reads of 2 bytes, the connection cut anywhere; 427,783 states |
| `terminal_osc` | `OscEndsAtST` is violated | same |

Why the bounds are enough.  *Tree*: three folders are what a cycle over more than
a parent and its child needs, with four siblings below the root order matters,
and every index from -1 to one past the end is tried; the proofs cover any
number of nodes.  *Inheritance*: a value travels over a folder to a leaf, below a
root or not; fields do not influence one another, so one is enough.  *Documents*:
fields do influence one another there (one column off, and a value lands in the
next field), so all the fields of the table above are there at once, and
one of them differs at a time, at any node (`MaxEdits`), from what a new
connection has; the password, whose attribute depends on flags above it, has flags
at two nodes (`MaxFlags`).  The texts a field is set to are those its readers tell
apart (`Edits`): with a separator, with space around it, with a line break, a
member in another spelling, `true`.  The module `MCDocuments` leaves out what
repeats itself (`EditsInScope`, `EditsLeft`, `SaveInScope`): fields other than the
credentials and the name are edited in one shape of the tree; the two credentials are filtered
together, since their columns and attributes do not meet; filters and passwords
vary only where no other field was edited; a folder is saved alone without
a filter.  Three foreign rows
(`MaxRows`) are two that name each other and a third below them or with an ID
again; two unknown parents are one more than a document may omit.  *Panel*: the
target can be a root, a child of a root or a node that inherits; the second
field catches an edit that spills over.  *Sessions*: two Disconnects, one of them
from OnClose, meet a reader and a writer, or the watcher.  `MaxErrors` limits
the reports of errors (for byte streams one stays reserved for the reader, whose
report ends the session); it is named in the guards that use it.  With one slot
(`FrameSlots`) the second of two screens (`MaxScreens`) finds the channel full;
with two chunks (`MaxChunks`) each copier can be the slower one.  *Terminal*: two
lines are what scrolling needs, three columns distinguish before, at and after
the cursor, three bytes make two numbers; `TabWidth` is 2 instead of 8 so that a
tab can stop inside the line.  *Codec*: two items (`MaxItems`), the longest of
nine bytes, cut anywhere, put every state of Read before and after every other;
`Room` 2 lets a Read end by a full buffer and by an empty one.
`CHECK_DEADLOCK FALSE` is set for the sessions, which stop when they are over,
and for the documents, where a saved document is the end.

### Fairness

Go schedules a runnable goroutine eventually, so every step of a goroutine that
is inside a call is weakly fair (`ThreadStep`, `Goroutine`, `Connects`, `Watches`,
`Copiers`, `StartPump`, `PostResult`, the views).  The UI goroutine serves its
queue (`UILoop`).  The timers of a context and of VNC's keepalive fire
(`Timeout`, `Tick`), a `select` on a context is served (`ContextNoticed`), a Read
whose transport is gone returns (`ReadReturns`), and go-vnc notices a connection
whose other end is gone (`LibraryCloses`).  `QuitLoop` is strongly fair: the
select of VNC's read loop picks among its ready cases at random, so a closed
channel is not passed over for ever by updates and ticks.  A killed process goes
away, a command told to stop ends, and a window's loop gets to the message that
ends it (`PeerObeys`).  Nothing is assumed of the server, of the user or of a
client that has not been told to end: stages of Connect may stay without an
answer for ever, nobody has to type or disconnect.

For WinRM two of these need care.  `StoppedCommandEnds` is assumed only of a command
that the server has been told to stop, and no fairness ends a stream that is
`stuck`.  A comment (`protocol/winrm/winrm.go:256-265`) records as a "known gap, found by
testing and not fully root-caused" that a Disconnect "before any data has ever been
read from the session can still hang" against the tests' fake server, and suspects
that server; the code also drops the errors of the Close calls.  In the model the
waiter then waits for ever, and so does Disconnect.  `EndIsReported` and
`DisconnectReturns` therefore promise WinRM's end only under `WinrmOver`: the
command is ending or has ended, and no stream is stuck.  What they do show is that
nothing in this code adds a wait: not a reader that has stopped, not the buffer,
not a second Disconnect or one called by OnClose.  In the same way
`DisconnectReturns` leaves out a Disconnect of an rdp or anydesk session whose
`closeOnce` was used up before there was a client to kill
(`protocol/rdp/rdp.go:109`): it waits for a client that nobody ends.

### What disagrees with the repository's own words

1. `panel_untick`: clearing Inherit stores the inherited value as the local one
   (`ui/properties.go:228`), where the test's comment says the local value comes
   back (`ui/properties_test.go:159`).
2. `stream_connect_ctx`: ssh's channel setup (`protocol/ssh/ssh.go:100`) does
   not return when the context is done, as `protocol/protocol.go:20` says.
3. `stream_early_write`: `Write` before Connect has succeeded dereferences nil
   (`protocol/raw/raw.go:74`, input wired at `ui/sessiontabs.go:84`), where
   `protocol/terminal.go:13` promises an error.
4. `process_disconnect`: Disconnect can return before OnClose has fired
   (`protocol/rdp/embed_linux.go:49`), where `protocol/rdp/rdp.go:104` says it
   waits for that.  The obvious repair, firing first, would make a Disconnect
   called by OnClose wait for itself.
5. `terminal_osc`: an OSC payload ended by ESC \ is not over
   (`ui/ansi.go:86`): everything after it is discarded until a BEL, where the
   comment above (`ui/ansi.go:80`) calls it self-correcting.

Seen while modelling and without a run: `AddChildAbove`/`Below` do not reorder a
node that is already a child; a panel row whose text does not parse stays
enabled when its Inherit box is ticked, against the comment at
`ui/properties.go:211`; after a local Disconnect a reader reports the "closed
connection" error through OnError; a Disconnect that overtakes Connect reports
the end of a session that then opens, and in rdp/anydesk uses up `closeOnce`
(VNC, too, then leaves the connection open); a Disconnect of an rdp, winrm or
web session that was never connected does not call OnClose, against
`protocol/protocol.go:28`.  When VNC's first request fails, Connect disconnects:
OnClose takes the tab away and the error is shown to nobody; a view that is slow
loses the newest frame, not the oldest.  A Resize or Disconnect of a web session
after its window is destroyed still dispatches to it.  A leaf added under a
container of the index without a Reload shows its raw ID and cannot be selected,
where `ui/tree.go:50` says that no Reload is needed, and after another file is
opened the panel still edits a node of the old tree.  XML loses a password that
is inherited when the flags are filtered out or set all the way up
(`serialize/xml/serialize_node.go:65`, see `PasswordLost`); a line break in a
value breaks the rows of a CSV document (`serialize/csv/csv.go:136`), which also
loses the inheritance flags `Color` and `RDGatewayAccessToken`
(`serialize/csv/columns.go`; `csv_test.go:28` asserts it of the latter).  A WinRM session whose
Close calls fail goes on, and its Disconnect waits for it.

## 4. Proofs

All by TLAPS, for every value of the constants that satisfies the modules'
ASSUMEs:

| assumption | what it says |
|---|---|
| `TreeAssumption` | roots are containers, containers and leaves are disjoint, `NoNode` is neither |
| `FinitelyManyNodes` | there are finitely many nodes, as a program's memory has; that a climb or a descent ends needs it, the links, effective values and the panel do not |
| `InheritanceAssumption`, `PanelAssumption` | inheritable and numeric fields are fields, the shipped default is a value, `Malformed` is not |
| `LifecycleAssumption` | `NoCallback` is not a callback |
| `StreamAssumption`, `BackgroundAssumption` | who the goroutines are |
| `VncAssumption`, `WinrmAssumption` | the bounds are naturals, a command has finitely many streams |
| `TabsAssumption` | the tab's callback does not disconnect |
| `TerminalAssumption` | the grid is not empty; a sequence has at most 18 digits and separators, so that integers and Go's `int` agree |
| `TelnetAssumption` | a Read asks for at least one byte (`Room`) |
| `DocumentsAssumption`, `PasswordAssumption` | an attribute that is not there reads as a value, the reader makes a root, members of an enumeration are values and the shipped default is one, the default password is a password |
| `FieldsAssumption` | the fields are the eighteen of the table in section 2, as in the run; trees, values, passwords and documents are arbitrary |
| `TextsAssumption` | a text less the space around it is a value, a member's own spelling is a member, and so are the two members the decoders name themselves |
| `CsvAssumption` | no ID is empty (the constructors make one), a text without its semicolons is a value, and the texts with a line break are texts |

The theorems about the panel also name the chain of nodes it starts from and
assume `IsPath(chain)`: distinct nodes, all but the last containers, none but the
first a root.

| what | theorems (property of a run, where one is named) |
|---|---|
| tree | `TreeTypeCorrect`, `LinksAlwaysAgree`, `TreeStaysAcyclic`, `TreeImplementsForest`, `ClimbAlwaysEnds` (`ClimbEnds`), `DescendantsAlwaysOnce` (`DescendantsOnce`), `OnlyOneNodeMoves` (`OneNodeMoves`) |
| view | `ViewRefinesTree`, `ViewAlwaysFollows` (`ViewFollowsTree`), `ReloadAlwaysCatchesUp` (`ReloadCatchesUp`) |
| inheritance | `InheritanceTypeCorrect`, `InheritanceRefinesTree`, `InheritanceClimbsAForest`, `EffectiveAlwaysNearestLocal`, `RootValuesAlwaysStayAtRoot`, `TemplateAlwaysReachesDescendants` |
| panel | `PanelTypeCorrect`, `DisplayAlwaysFollowsModel`, `TickingKeepsValues` |
| lifecycle | `LifecycleTypeCorrect`, `OneCloserAlways`, `OnCloseFiresOnce`, `LifecycleImplementsContract` |
| byte streams | `StreamTypeCorrect`, `StreamRefinesLifecycle`, `StreamImplementsContract`, `DisconnectWaitsForTheClose` |
| tabs | `TabsTypeCorrect`, `TabsRefineLifecycle`, `TabsOneCloser`, `TabsImplementContract`, `TabsStayWithSessions`, `TabsLeaveNoOrphan`, `OutputAlwaysComplete` |
| terminal | `TerminalTypeCorrect`, `RowsNeverShared`, `TextOnlyAtCursor`, `NumbersAlwaysReachTheCommand` |
| documents | `CsvAlwaysReadsBack` (`CsvReadsBack`), `CsvAlwaysLoadsEveryRecord` (`CsvLoadsEveryRecord`), `XmlAlwaysReadsBack` (`XmlReadsBack`) |
| telnet | `TextAlwaysDelivered` (`DeliversText`), `ServerAlwaysUnderstands` (`ServerUnderstands`) |

*Links of the tree.*  `TypeOK` and `WellLinked` are not inductive alone.  InsertChild puts the
node into one list after taking it out of the list its back pointer names: that
leaves no duplicate only if back pointers and lists agreed before, and the
agreement includes that a list holds a node once.  That a root never gets a
parent, and that no cycle arises, is needed for the refinement.  So the invariant
is `TreeInv == TypeOK /\ WellLinked /\ RootsDetached /\ Acyclic`, and `TreeStep`
proves one step of it together with the step of `Forest`:

* lemmas about sequences say what RemoveAt and InsertAt leave in a sequence and
  that both keep it without duplicates;
* `SeparatingSet` turns "n is not among c's ancestors" into a set of nodes that
  is closed upwards, contains c and not n; `ReparentKeepsForest` uses it to show
  that hanging n below c closes no cycle;
* `InsertStep`, `RemoveStep` and `RepositionStep` are the three kinds of calls,
  and `TreeStep` has one case per disjunct of `TreeNext`.

`TreeTypeCorrect`, `LinksAlwaysAgree`, `TreeStaysAcyclic` and
`TreeImplementsForest` follow by PTL.  `OnlyOneNodeMoves` follows from
`OthersFacts`, `OthersAfterRemoveAt` and `OthersAfterInsertAt`: a list without n
is the same before and after n has been taken out of it or put into it.

*Induction.*  The library's induction theorems take an operator as a parameter,
which these provers cannot instantiate.  The proofs use the set of naturals that
have the property instead: `LeastNat` and `Induction` follow from the
well-foundedness of the naturals, which the library states without such a
parameter.  Over trees the proofs use the invariant itself: in a forest every non-empty set
of nodes has one whose parent is not in it (`Acyclic`), so a counterexample
that depends on the parent has a topmost one (`EffectiveValue`,
`RootKeepsOthers`); over finitely many nodes every non-empty set has one with
no child in it (`LowestNode`), so a counterexample that depends on the
children has a lowest one (`DescendantsAreBelow`, `DescendantsInOnePiece`,
`ViewFollows`).  A recursive function, which TLA+ defines by CHOOSE, is first shown
to exist, and then satisfies its equation: `ClimbDefined`, `ListingDefined`,
`EffectiveUnfold`, `FoldDefined`.

*Climb and descent.*  `ClimbFacts` says that each turn of the loop of
ContainsRecursively looks at an ancestor it has not met before; there are only
finitely many, so the loop comes to the root, and then it has looked at all of
them (`ClimbHolds`).  A `Listing` is what a fold over the children with their subtrees gives;
`DescendantsInOnePiece` shows that it repeats no node and has each subtree right
behind its container, because `SiblingsApart` (no node is below two siblings)
keeps the parts of a concatenation disjoint.

*View.*  Reload and SetRoot move no node, so `ViewSpec` implements `Spec` and has
`TreeInv`.  As long as the index holds every container below the root, `Rows` and
`Descendants` satisfy one equation (`RowsUnfold`, `DescendantsUnfold`), and
`ViewFollows` compares them from the leaves up.

*Inheritance and panel.*  Editing values moves no node, so `InheritanceSpec`
implements the tree's `Spec` and inherits its theorems; `InheritanceInv` is
`TreeInv` with the types of values and flags.  `Sources(n, f)` are the nodes that
`EffectiveIsNearestLocal` allows a value to come from; a node that keeps the field
is its own only source, and any other has its parent's.  The two action
properties compare `Effective` before and after a step, from the top down.
`PathIsTree` shows that the tree the panel starts from has `TreeInv`.
`TickingKeepsLocalValue` needs `LocalRowsShowRaw`: a commit writes back what the
row shows, so the row of a field that is not inherited must show the node's own
value or text that is not stored.  `DisplayFollowsModel` needs the same, and that
an edit of one field changes no effective value of another
(`OtherFieldsKeepEffective`), because `commit` writes all rows back.

*Lifecycle.*  "At most one call of OnClose" needs the goroutine that has captured
the callback and not called it yet: `OneCloser` says that the session is closed
if there is a pending or finished call, and that there is one of them only.
`OnCloseFiresOnce` and `LifecycleImplementsContract` follow from it.

*Sessions.*  Every step of a session, whatever the backend, is a step of
`Lifecycle` or leaves it alone (`StreamUsesLifecycle`, `TabsUseLifecycle`, one
lemma per backend).  So each session implements `LifecycleSpec`, and "at most one
closer" and the contract hold of it without another proof
(`StreamImplementsContract`, `TabsImplementContract`, `TabsOneCloser`).
`WaitsForTheClose` needs `OnceMeansClosed`: the once is entered only when the
stream is set, after which Connect opens nothing more, and it is done only when
the transport is closed.  `NoOrphan` needs `ClientAccounted`: the Watcher comes
to the report only when the client has exited, and before Connect there is no
client.  `TabStaysWithSession` needs `RemovalFollowsEnd`, which speaks of the
queue: a removal that is waiting there belongs to a session that has ended,
since the callback runs only then and a session stays closed.

*Types of the tabs, and their output.*  `TabsTypeOK` is about more than types
(frames come in order and no channel is overfilled, the queue asks for nothing
twice), and is not inductive: it says nothing of where the goroutines are.
`BackendInv` does, in one part per backend: the Watcher runs exactly while there is
something to watch (`ProcessInv`, `WebInv`), `frames` is closed only by the
read loop's end (`VncInv`), a copier that has returned left nothing in its stream
(`WinrmInv`); `FramesInv` says that the frames of the session and the updates still in the
library's channel ascend up to the server's last screen, and `TabInv` that every
entry of the queue has its cause and stands there once.
`OutputComplete` needs a sum over the streams: `Numbers` numbers them, and
`OutputAccounted` says that what the command has produced is what was taken, what
is buffered and the last of the partial sums of what waits in the streams.

*Terminal.*  The invariant is `TypeOK /\ RowsNotShared`.  That a write to one line
shows in no other needs the rows to be different arrays, and that a row index is
in range needs the cursor's bounds, one past the last column included.
`ScreenStep` proves for each kind of byte that both are kept and where text may
appear; `TerminalTypeCorrect`, `RowsNeverShared` and `TextOnlyAtCursor` follow.
`NumbersReachTheCommand` needs `NumbersRead`, which holds in the middle of a
number: `params` are the values of the numbers that are complete, and
`paramAccum` is what the digits of the current one say so far.  `ValueFacts` says
what one more digit does to a value, which is a fold.

*Telnet.*  The invariant is `CodecInv`, the codec's types and two halves.  `ReadInv`: what the server
has sent is a list of items done and one of items left; text found and refusals
sent are those of the items done (`Handled`); and the bytes at hand and under way
are what the items left are encoded as (`Between`), or begin with the rest of an
item of which Read has seen k bytes, `at` being the place for that item and k
(`Midway`, `Where`).  Under way is what the network holds and what is lost of it
(`Coming`): the server's end only moves bytes from the one to the other, so
`BytesKept` carries the invariant over it, and a Read that fails inside an item
leaves the third case, that the rest of this item and of all that follow will not
come (`CutOff`).  `NextFound` then says that the byte a step looks at is the
next one of an item, wherever the network has cut the stream, and there is one
lemma per action of Read.  `WriteInv`: the server, reading the client's bytes one
by one (`Viewed`), has found exactly the input in them and waits for nothing.
The two halves share the stream: a reply adds no text and an input adds no
refusal because neither starts while the other is unfinished
(`ViewedMessages`, `InputUnderstood`), which the code owes to each being one write
to the stream.  The theorems are about `TelnetSpec`, the codec alone; the run
`terminal` checks it beside the interpreter.

*Documents.*  The three properties are about what a reader makes of a value, so
the work is in the lemmas; the invariant that carries them is short.
`DocumentsInv` is `InheritanceInv`, the forms a file has (`FileForms`: a foreign
document is one whose rows are `ForeignRow`s), and the two properties themselves.
It is kept because a save happens in a state that has `InheritanceInv`, and because
the tree is left alone afterwards (`SavedStays`, `VersionStays`).  The argument for
a save has five parts, and the formats share all but the third:

* *Order.*  Both writers list a subtree by joining what they write for each child
  (`Joined`, a fold).  `WalkLists`, from the leaves up, says that the list has
  every node of the subtree once and siblings in their order, and, for XML, each
  node behind its parent.
* *Loop.*  Both readers are folds over what they read; `TreeOfTurns` and `XmlTurns`
  turn the fold into the sequence of trees after each turn.
* *What a turn reads.*  CSV: the table has its 30 columns (`ColumnTable`), a filter
  can be told from the header it leaves (`HeaderTellsColumns`), so the reader uses
  the columns of the writer, and `RowReadBack` follows each cell through both.  XML: a
  text opens under the password it was encrypted with and under no other
  (`DecryptEncrypt`, `OtherKeyRefused`), and `NodeDecoded` follows the attributes
  through a version.
* *Shape.*  `Growth`: hanging nodes one after the other where no cycle is closed
  keeps a forest whose links agree, siblings in the order in which they came.
  `NoCycleClosed`: hanging a node where it hung closes none, in whatever order the
  nodes come.  For XML `ElementsRebuilt` shows besides that every element is inside
  one that was attached before it, so none is passed over.  `RebuiltShape` and
  `SameOrder` conclude that the sibling lists are those of the saved tree: two
  lists of the same nodes that both follow one order are equal.
* *Values.*  A node of the tree that was read resolves a field to what was saved
  for it, if it holds that itself or takes it from a parent for which the same was
  saved (`ValueReaches`, by the topmost counterexample).  For CSV that is so
  because the effective values are written; for an XML password it is so except
  where `PasswordLost` says, and finding the chain of folders that lose it is what
  `KeptReaches` does.

`CsvLoadsEveryRecord` uses the same `Growth`: the reader's fallback to the root is
what makes its condition hold of any rows, and `ReachedFromRoot` turns the forest
that results into "every record is below the root".  Where a record is not where it
asks to be, a cycle would have been closed at its turn, and `AncestorsStay` says
that it still would be in the end.

Only model-checked: the liveness properties (`EndIsReported`, `DisconnectReturns`,
`ConnectReturns`, `TabClosesWithSession`, `ViewEnds`), because fairness and ENABLED
are beyond this prover.

## 5. Not modelled

`PROJECT.json` lists every component with its status.  Left out:

* ciphers, key derivation and the legacy format (`security`): arithmetic on
  bytes; the model has what the documents rely on;
* the names of attributes and columns beyond those of section 2, numbers as text,
  line splitting (and so what is read of a row that a line break has split) and
  malformed XML: data, and pure functions of it;
* `winembed`, `nativewindow` and the embedding of a window: calls of Win32; a
  window that is found or not is a choice in `ProcessSession`;
* the credential clients: sequential HTTP requests that no other package calls
  yet; the one with state, Delinea's token under its mutex, can at worst refresh
  twice when two callers get a 401 (`credential/delinea/delinea.go:121`);
* `settings` and `ui/connectionsfile.go`: one `os.WriteFile` each, which
  truncates the only copy; there is no recovery to model (an unreadable file ends
  the program at the next start);
* the protocol registry (filled before main, then read only), widget layout,
  theme and shell, colours of the terminal, keyboard and mouse tables, and the
  changelog tool;
* numbers of nineteen digits or more in an escape sequence, which wrap Go's
  `int`: `TerminalAssumption` stays below them.

## 6. Plan

1. (done) tree, inheritance, panel; lifecycle, stream and process sessions;
   terminal; the proofs of the tree, the lifecycle and the terminal.
2. (done) the telnet codec; VNC, WinRM and web sessions; the tabs over them; the
   tree view; both file formats; the proofs about sessions, tabs, inheritance
   and the panel.
3. (done) every invariant and action property of the runs: the climb, the
   listing, the view, effective values, the panel's display, the types of the
   backends under a tab, WinRM's output, the numbers of an escape sequence, both
   directions of the telnet codec, and both file formats, what they write and
   what they read of it.
4. (left) the tab over byte-stream sessions as a composition, in place of the
   environment `StreamSession` has; Delinea's token once something calls it.
