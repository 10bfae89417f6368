# TLA+ models of Swish

Swish is a Windows Explorer namespace extension that shows a remote SFTP
directory as a folder.  This directory holds TLA+ specifications of the parts
of Swish whose behaviour is in this repository's sources, the TLC
configurations that check them, and this description of what the checks show.

All commands are run in this directory:

    tlasany HostInfoDialog.tla
    tlc -workers 2 -config HostInfoDialog.cfg MCHostInfoDialog

## 1. Inventory

| Part | Source | State it keeps | Operations | Module |
|---|---|---|---|---|
| Host-connection dialog `CHostInfoDialog` | `src/HostInfoDialog.cpp` | members `m_strUser`, `m_strHost`, `m_strPath`, `m_uPort`; the four edit controls; the enabled state of the OK button; the window | `OnInitDialog`, `OnChange`, `OnOK`, `OnCancel`, `_IsValid`, `_HandleValidity`, four getters, four setters | `HostInfoDialog`, implementing `ConnectionForm` |
| `StorageMedium`, owner of a `STGMEDIUM` | `src/swish/shell_folder/data_object/ShellDataObject.hpp` 39-98 | `m_medium` | constructor, copy constructor, `operator=`, destructor, `out`, `get`, `empty` | `StorageMedium`, implementing `Ownership` |
| Remote path type `ssh::filesystem::path` and its iterator | used by `src/test/ssh/path_test.cpp`; the header is not in the sources | the stored text; an iterator is an offset into it | construction, copy, assignment, `native`, `empty`, `is_absolute`, `is_relative`, `==`, `<`, `/`, `/=`, `begin`, `end`, `*it`, `++it` | `SshPath`, `PathSession` |
| Test suite of the path type | `src/test/ssh/path_test.cpp` | which cases ran, which failed | 131 checks in 14 groups of cases | `PathTests` |
| Test fixture of the PuTTY provider | `src/UnitTests/PuttyProvider_test.cpp` | COM initialisation, `m_pProvider`, BSTRs, the listing enumerator | `setUp`, `testQueryInterface`, `testInitialize`, `testGetListing`, `tearDown`, helpers | `PuttyProviderTest` |
| `ShellDataObject`, `PidlFormat` | `ShellDataObject.hpp` 100-138 | — | declarations only | not modelled |
| Explorer commands | `src/swish/shell_folder/explorer_command.hpp` | — | declarations only | not modelled |
| `announce_error`, `rethrow_and_announce` | `src/swish/shell_folder/announce_error.hpp` | — | declarations only | not modelled |

### How the parts interact

The parts do not call each other in the sources at hand.  In the product the
dialog collects the user, host, path and port of a connection; the path it
returns becomes a remote path that the folder composes with entry names
(`parent / name`) while listing and navigating; data objects hand file
contents to Explorer in `STGMEDIUM`s that `StorageMedium` owns.  The models
are therefore separate specifications, one per part, and are not composed
with each other; each of the two parts with a contract of its own is composed
with an abstract specification of that contract, which it is shown to
implement.

Within a part the interaction is between the code and its environment:

* the dialog and the user (edits, clicks) and the dialog and its caller
  (setters before it is shown, getters after it ends);
* a `StorageMedium` and the producers that write a medium through the pointer
  `out()` returns, and the Win32 calls `CopyStgMedium` (which can fail) and
  `ReleaseStgMedium`;
* a path and a client that copies, appends and iterates.

### What is hard, and what must hold

*Dialog.*  Every value exists twice, in a member and in a control.  `OnOK`
copies controls to members without validating: it relies on the OK button
having been disabled whenever the controls were invalid
(`@pre The _IsValid() function must have passed`).  It reads the port with no
success flag and narrows it with `(USHORT)`.  What must hold: the button is
enabled exactly when the controls are valid, and what OK stores is what the
user saw and nothing else.  `_IsValid` also asserts that the port control
always holds a number, and it runs not only when the user edits: loading a
control in `OnInitDialog` makes the control report a change, so the handler
is re-entered on a form that is half loaded.

*StorageMedium.*  The object owns its medium: each medium that enters an
object must be released exactly once.  Copies can fail halfway; assignment is
copy-and-swap; `out()` exposes the member to be overwritten.  What must hold:
no leak, no double release, no copy from a medium already released, a failed
operation changes nothing, and every
step of an object, the failed copies and the self-assignment included, is a
step of the ownership contract (`ImplementsOwnership`).

*Path.*  Segment decomposition has special cases (the root as a segment, a
`"."` sentinel after a trailing separator, the empty path, the bare root) and
concatenation has five rules that interact.  What must hold: the iterator
yields exactly the decomposition; concatenation joins the names of its
operands; a child built as `parent / name` has the parent's segments followed
by the name; the order and the equality of paths agree with each other; and
the description of the type agrees with the repository's tests.

*Test fixture.*  A failed `CPPUNIT_ASSERT` throws, so every assertion is an
exit that skips the releases written after it, and `tearDown` runs after
whatever `setUp` and the test left behind, including a `setUp` that failed at
its first line.  `testGetListing` loops for as long as the provider's
enumerator returns `S_OK`.  What must hold: no call through a null provider;
a fixture whose assertions hold gives back all it took; COM is uninitialised
as often as it was initialised; every fixture that starts is torn down.

## 2. Modules

### `HostInfoDialog` (`MCHostInfoDialog`)

| Model | Code |
|---|---|
| `m` | `m_strUser`, `m_strHost`, `m_strPath`, `m_uPort` |
| `fld` | the text of `IDC_USER`, `IDC_HOST`, `IDC_PATH`, `IDC_PORT` |
| `okEnabled` | the enabled state of `IDOK` |
| `dlg` | `"none"` before the first `DoModal`, `"open"` while `m_hWnd` exists, `"ok"` / `"cancel"` after `EndDialog` |
| `OnInitDialog`, `OnChange(c, v)`, `OnOK`, `OnCancel` | the message handlers, each with every call it makes (`_HandleValidity`, `EndDialog`) |
| `_IsValid(f)`, `StringFieldsValid(f)` | `_IsValid()`; the string checks are named separately because the assertion sits between them and the port check |
| `GetUser` ... `SetPort` | the accessors |
| `LoadOrder`, `Loaded(mm, k)` | the four `SetDlgItem` calls of `OnInitDialog` in their order, and the controls after the first `k` of them |
| `Asserted(f)` | the condition under which `ASSERT(fTranslated)` holds on controls `f` |
| `Display(mm)` | what `OnInitDialog` puts into the controls for members `mm`: the strings, and the port as `SetDlgItemInt` formats it |

Data abstraction.  A string is `[len, has]`: its length and the classes of
character it contains (`"plain"`; `"punct"` for `@ : space '`; `"ctrl"` for
`" \t \n \r \b \`), which is all `_IsValid` looks at: `FORBIDDEN_CHARS` is
`{"punct", "ctrl"}` and `FORBIDDEN_PATH_CHARS` is `{"ctrl"}`.  The text of the
port control is `"blank"` (empty or not a numeral), a `"number"`, or `"huge"`
(a numeral that does not fit a `UINT`, for which `GetDlgItemInt` reports
failure).  `ToUSHORT` is the cast: the value modulo 65536.

Assumptions, for what is not in the sources:

* the message map (in `HostInfoDialog.h`) sends `EN_CHANGE` of all four
  controls to `OnChange`.  The notification is sent synchronously by the
  control, so an edit and its `OnChange` are one step;
* a single-line edit control sends `EN_CHANGE` also when its text is set by
  the program, so each `SetDlgItemText` and the `SetDlgItemInt` of
  `OnInitDialog` runs `OnChange` before the next line of `OnInitDialog`.
  `Loaded(mm, k)` is the form after the first `k` loads, in
  `LoadOrder`; `OnInitDialog` remains one step, since nothing else runs on
  the thread meanwhile and the button ends as the last `_HandleValidity()`
  leaves it;
* Windows sends `IDOK` only while the button is enabled (a disabled default
  button takes neither clicks nor Enter), which is the guard of `OnOK`;
* a new window starts from the dialog template: empty controls, OK enabled;
* `MAX_USERNAME_LEN`, `MAX_HOSTNAME_LEN`, `MAX_PATH_LEN` and `MAX_PORT` come
  from `remotelimits.h`, and the initial port from the constructor; all are
  constants of the module.

Setters and getters are enabled in every state, because nothing in the code
stops a caller from using them while the dialog is shown.

`ConnectionForm` is what the dialog promises its caller, with no members, no
button and no validation routine: a stored record, the record shown while the
form is open, and a status.  `Open` shows the stored record, `Edit` changes
what is shown, `Accept` is possible only when what is shown is valid and
makes it the stored record, `Cancel` leaves the stored record alone, and
`Preset` (the caller's setters) changes only the stored record.  The
refinement mapping of `HostInfoDialog` reads the stored record through the
four getters, `shown` is `fld` and `status` is `dlg`; `OnChange` is an
`Edit`, `OnOK` an `Accept`, and a step that only moves the OK button
stutters.

### `StorageMedium` (`MCStorageMedium`)

| Model | Code |
|---|---|
| `live` | the objects between their constructor and their destructor |
| `medium[o]` | `m_medium`, abstracted to the resource it refers to, or `NULL` |
| `claims[r]` | the calls of `ReleaseStgMedium` that resource `r` is still owed: one per producer call and per successful `CopyStgMedium` |
| `thrown` | whether the last operation left by exception |
| `copiedReleased`, `Released` | whether `CopyStgMedium` was ever given a medium whose last release had already happened.  The counts alone cannot tell copy-then-release from release-then-copy, which end in the same numbers; this records what the copy read |
| `result` | what the last operation returned to its caller: the medium from `get()`, the object from `operator=`, otherwise `NULL` |
| `Construct`, `CopyConstruct`, `Assign`, `Destroy`, `out`, `get` | the member functions; `Assign` is the whole of `a = b`: the copy into the by-value parameter (which can throw before the body runs), the swap, and the parameter's destructor |
| `OutAssertion`, `GetAssertion` | the conditions of the `assert`s in `out()` and `get()`: `empty() \/ TRUE` and `~empty() \/ TRUE`, a string literal being true |
| `Indeterminate` | the values a caller can find in the result of `operator=`, which ends without a `return` statement: any object, or none |

`out(o, r)` is the call of `out()` together with the producer's write of a
medium for `r` through the pointer: the pointer is used in the same
expression that obtains it (`GetData(&fmt, medium.out())`).

Two specifications share every action: `Spec`, where any caller may call
`out()` and `get()` on any object (what the code permits, since the
assertions are always true), and `SpecByContract`, where callers keep to the
documented preconditions ("This should only be used on an empty STGMEDIUM";
`get()` on a medium that "must be initialised").

`Ownership` is the contract without the mechanism: each owner holds a thing
or nothing, and each thing is owed one release per owner holding it.
`Acquire`, `Release` and `Exchange` move both together.  `StorageMedium`
maps `holds` to the medium of the live objects and `owed` to `claims`; a copy
construction or a contract-abiding `out` is an `Acquire`, a destruction a
`Release`, an assignment an `Exchange`, and a step that throws stutters.

### `SshPath`, `PathSession` (`MCPathSession`) and `PathTests`

`ssh/path.hpp` is not in the sources.  `SshPath` defines the type from its
description: a path is its text, a sequence of characters; `combine` has the
rules of the concatenation algebra; the iterator is a cursor (`begin`, `end`,
`deref`, `increment`), and `Segments` is the decomposition defined on the
whole text, which the cursor is compared with.  `less` is the order of the
description, by text; `less_by_segment` is the order two test cases are named
after and expect, by the sequence of segments; both are instances of
`Lexicographic`, and a configuration chooses between them
(`less <- less_by_segment`).  Texts with doubled separators
are legal input ("no validation"); the description does not say what their
segments are, and the model takes the split literally: `"a//b"` has an empty
name between the separators.

`PathSession` is a client: variables holding paths, `Construct`, `Assign`,
`Concatenate` (`x = y / z`), `AppendTo` (`x /= y`), and one iterator
(`Begin`, `Advance`) over the variable `Walked`.  Changing the text of
`Walked` ends the iterator's life, as for the iterators of any C++ container;
whether the real cursor survives an append cannot be told without the header.

`PathTests` translates the test suite: one definition per group of test cases
on the same fixture, one conjunct per thing checked, with the suite's texts
shortened to the characters the cases tell apart.  `RunGroup` is the runner:
it executes groups in any order and records those with a failed check.

### `PuttyProviderTest` (`MCPuttyProviderTest`)

The fixture of `src/UnitTests/PuttyProvider_test.cpp`.  `Start(t)` is the
runner constructing the fixture of test `t`; `setUp`, `testQueryInterface`,
`testInitialize` and `tearDown` are one action each, taken in the order
CppUnit calls them: `setUp`, the test only if `setUp` did not throw,
`tearDown` always.  `testGetListing` is three: the function up to its loop,
`checkEntry` for one turn of the loop (the checks on the entry, then
`Next`), and `releaseEnum` for what follows the loop.  A function without a
loop runs to its end or to its first failed assertion in one step, since the
tests are single-threaded; the set of
outcomes of a function (`Initialize`, `GetListing`) has one member for each
assertion it can stop at, recording what is allocated and not yet freed at
that line.

| Variable | Code |
|---|---|
| `env` | `TEST_USER_NAME`, `TEST_HOST_NAME`, `TEST_HOST_PORT` (unset, or the length / number the helpers test) and whether `testRegistryStructure` finds what it asserts |
| `m_pProvider`, `provRefs` | the member, and the reference count of the object it points to |
| `com` | successful `CoInitialize` calls minus `CoUninitialize` calls on the thread |
| `listing` | the entries of the directory that the loop has not yet checked; its head is the entry in `lt`.  Fixed when the enumerator is created, shortened by each `Next` |
| `lost` | per kind, what was allocated and can no longer be released: BSTRs, `Listing` strings (counted per entry), enumerator references, provider references |
| `nullCall` | set when a method is called through a null `m_pProvider` |
| `running`, `phase`, `ran`, `failed` | the runner; `phase` is where the running fixture stands: `setUp`, `test`, `listing` (in the loop), `release` (after it), `tearDown` |

Assumptions, where the sources are silent.  The header of the fixture is not
in the sources: `m_pProvider` is taken to be null in a new fixture.
`CPuttyProvider` is not in the sources: each of its calls succeeds or fails
by choice, it counts references as COM requires, and its enumerator may or
may not hold a reference to the provider (`holds`).  The checks on the fields
of a listing entry (lines 123-178) are one pass-or-throw per entry.

## 3. Runs

| Run | Module, cfg | Result | States (distinct) | Time |
|---|---|---|---|---|
| `dialog` | `MCHostInfoDialog`, `HostInfoDialog.cfg` | pass | 168,282 | 16 s |
| `dialog_assert` | `MCHostInfoDialog`, `HostInfoDialogAssert.cfg` | violation | | |
| `medium_contract` | `MCStorageMedium`, `StorageMedium.cfg` | pass | 1,881 | 2 s |
| `medium_out` | `MCStorageMedium`, `StorageMediumOut.cfg` | violation | | |
| `medium_get` | `MCStorageMedium`, `StorageMediumGet.cfg` | violation | | |
| `medium_assign` | `MCStorageMedium`, `StorageMediumAssign.cfg` | violation | | |
| `path_session` | `MCPathSession`, `PathSession.cfg` | pass | 121,460 | 40 s |
| `path_tests` | `PathTests`, `PathTests.cfg` | pass | 16,384 | 2 s |
| `path_tests_by_segment` | `PathTests`, `PathTestsBySegment.cfg` | pass | 16,384 | 2 s |
| `path_session_by_segment` | `MCPathSession`, `PathSessionBySegment.cfg` | violation | | |
| `fixture` | `MCPuttyProviderTest`, `PuttyProviderTest.cfg` | pass | 30,685 | 4 s |
| `fixture_give_back` | `MCPuttyProviderTest`, `PuttyProviderTestGiveBack.cfg` | violation | | |

### `dialog`

* `OkButtonTracksValidity`: while the dialog is shown, OK is enabled exactly
  when the controls pass `_IsValid`.
* `ImplementsConnectionForm`: every step of the dialog is a step of
  `ConnectionForm` or changes nothing the form has.  In particular every
  step that ends the dialog with `IDOK` starts from valid controls and leaves
  the getters returning a record that the dialog would display as exactly
  what the controls showed, which is where the `(USHORT)` cast and the
  ignored success flag of `OnOK` would show; a cancelled dialog changes no
  member; and the controls of a new window show the members, the port in the
  form `SetDlgItemInt` gives it.
* `TypeOK`: in particular `m.port` is a `USHORT`.

All hold.  The dialog is opened repeatedly, with presets changed in between
and while it is open.

Bounds.  The limits are 1, 2 and 3 characters for user, host and path, and the
typed texts have 0 to 4 characters, so every field is seen empty, at its
limit, and one past it; the three classes of character each occur.  Port
texts are blank, 22, 65535 (`MAX_PORT`), 65536 (the first value the cast
would wrap to 0) and a numeral too large for a `UINT`.  Presets include a
string with forbidden characters and the port 65535.

### `dialog_assert`

`PortFieldAlwaysTranslates` states the assertion `ASSERT(fTranslated)` of
`_IsValid` (line 178): whenever `_IsValid` runs and the three strings are
valid, the port control translates.  It is violated in two ways.

* The caller presets a valid user, host and path and opens the dialog
  (`SetUser`, `SetHost`, `SetPath`, `OnInitDialog`).  `OnInitDialog` loads the port
  last: when the path control reports its change (line 46), the three
  strings are valid and the port control is still blank.  A dialog opened
  with empty presets does not get that far, because `_IsValid` returns at
  the first empty string.
* The dialog is open with valid strings and the user empties the port, or
  types something that is no number (`OnInitDialog`, then `OnChange` until
  the strings are valid and the port is blank).

TLC reports whichever of the two its search reaches first, which depends on
the order in which its workers take the states; both are behaviours of the
model.

The `if (!fTranslated) return false;` that follows the assertion shows that
the case was expected; the assertion contradicts it and stops a debug build.

### `medium_contract`

Under `SpecByContract`:

* `NoLeak`: every outstanding obligation to release a resource is held by a
  live object.
* `NoDoubleRelease`: every live object holding a resource has an obligation
  of its own.
* `NoCopyOfAReleasedMedium`: `CopyStgMedium` is never given a medium whose
  resource has had its last release.  This is what the order inside
  `operator=` is for: the argument is copied before the old medium of the
  target is released, so that `a = a`, and `a = b` with both holding the
  same resource, copy from a medium that is still owed a release.
* `ThrowChangesNothing`: a step that throws changes no object and no
  obligation.
* `ImplementsOwnership`: every step is an `Acquire`, a `Release` or an
  `Exchange` of `Ownership`, or changes neither what is held nor what is
  owed: no operation moves a medium without its obligation, or an obligation
  without its medium.
* `TypeOK`: in particular no obligation count goes below zero.

All hold, for self-assignment and for objects sharing a resource as well.
`NoLeak`, `NoDoubleRelease` and `ImplementsOwnership` count, and do not
depend on the order of copy and release in an assignment that succeeds;
`NoCopyOfAReleasedMedium` and, for an assignment that fails,
`ThrowChangesNothing` do.

Bounds.  Four objects allow a source, a target and two bystanders holding the
same resource; two resources allow a target to hold something else than what
is assigned to it; `MaxClaims = 4` lets every object hold the same resource.

### `medium_out`

Under `Spec`, `NoLeak` is violated by `Construct`, `out`, `out`: the second
producer overwrites the first medium.  The `assert` in `out()` (line 75) was
meant to stop this, but `empty() || "text"` is always true; `&&` was meant.

### `medium_get` and `medium_assign`

`GetReturnsAMedium` states the comment and the assertion of `get()` (lines
81-84): the medium returned is initialised.  Under `Spec` it is violated by
`get()` on an object that has only been constructed: the assertion
`!empty() || "text"` is always true, so `get()` on an empty object returns
the zeroed structure, which the caller takes for a medium.  TLC's trace has
three steps and not two, and labels the last two `Assign`: `get()` straight
after `Construct` leaves every variable as it was (`result` is already
`NULL`), which is no step for TLC, so the trace first has a self-assignment
put an object into `result`; the step that follows sets `result` back to
`NULL`, and is at once a `get()` of the empty object and a self-assignment
that returns nothing.

`AssignReturnsItsTarget` states the signature of `operator=` (line 54),
which promises a reference to the object assigned to.  The body (lines
55-57) swaps and ends without `return *this`: using the result is undefined
behaviour, and the model lets the caller find any object, or none, in it.
TLC finds it with one object alive: `Construct`, then a self-assignment
whose result denotes another object, one that was never constructed.  No
code in the sources uses the result.

### `path_session`

* `WalkFollowsSegments`: what the cursor has produced so far is a prefix of
  `Segments` of the text, and the cursor equals `end()` exactly when it has
  produced all of them.
* `CombineJoinsNames`: for every pair of paths held, the names of `l / r` are
  the names of `l` followed by those of `r`, no empty name appears that
  neither operand had, the result is rooted as `l` is (as `r` when `l` is
  empty), and has the directory form of `r` (of `l` when `r` is empty).
* `ChildIsLastSegment`: for every path and every name held, the segments of
  `parent / name` are the segments of the parent without its sentinel,
  followed by the name.
* `TypeOK`: in particular the cursor never passes `end()`.

All hold.

Bounds.  Paths are constructed from every text of up to three characters over
`/`, `.` and one letter (40 texts, doubled separators included), and appended
while the result has at most five characters.  That covers every combination
of absolute or relative, file or directory form, root and empty on both sides
of a concatenation, and paths of up to three segments with a sentinel.  One
letter suffices because the operations look only at whether a character is
the separator; the dot is in the alphabet so that a real `"."` name and the
sentinel can meet, and because it sorts before the separator.

The order is not among the properties of this run.  That the order of texts
is strict, total and agrees with the equality of texts is a fact about
lexicographic orders, true whatever the header does; what the sources say
about the order is in the test suite, and is asked below.

Two observations that are not properties of a run.  Rule 3 of `combine`
(root with root) follows from rule 4: the root already ends in a separator,
and the root stripped of its leading separator is empty.  And although the
description warns that concatenation is not associative, no triple of texts
within the bounds distinguishes `(a / b) / c` from `a / (b / c)`.

### `path_tests`, `path_tests_by_segment` and `path_session_by_segment`

`OnlyOrderBySegmentFails`: whatever groups of the suite have run, none has
failed except the group of the two cases
`multi_segment_relative_path_compares_less_than_lexi_by_segment` and
`..._greater_than_...`.  This is what ties `SshPath` to the sources.

That group fails under the order of the description.  The cases expect
`path("a/ad") < path("a+/c")`, an order by segment, while the description
says the order is that of the stored texts, "not a segment-wise comparison":
under it `"a+/c"` comes first, because `+` sorts before `/`.

`SuitePasses` (run `path_tests_by_segment`, with `less <- less_by_segment`):
under the order by segment every group passes, the other cases that use `<`
and `>` included.  The tests are consistent with one order, and it is not the
one described.

`OrderAgreesWithEquality` (run `path_session_by_segment`, same override) is
then violated by the first two paths constructed: `"./"` and `"./."` have the segments `.`, `.` and
different texts, so neither is less than the other and they are not equal;
`"a/"` and `"a/."` are another such pair.  The description's "a == b iff
neither a < b nor b < a" cannot hold for an order by segment and an equality
by text.  Either the header compares by segment in `==` as well, or the two
test cases are wrong about it; an ordered container keyed on paths would
treat such a pair as one key.

### `fixture` and `fixture_give_back`

Bounds: the user name is unset or of length 2, 3 or 64 and the host name
unset or of length 2, 3 or 255, the values on both sides of each limit the
helpers assert (`> 2`, `< 64`, `< 255`); the port is unset, -1, 22, 65535 or
65536; the registry check passes or not; directories of up to
`MaxEntries = 3` entries, each passing or failing its checks, enough for the
loop to run, repeat, stop, and be left by an assertion in its first turn and
in a later one.  The three tests run in
every order, each once.

`NoCallThroughNull`: the tests call through `m_pProvider` without testing
it, `tearDown` tests it; both are right given that a test runs only after a
`setUp` that reached its end.

`PassedFixturesReleaseTheirOwn`: when no assertion has failed, every BSTR
the tests allocated is freed, every interface reference released, and COM
uninitialised as often as initialised.

`ComStaysUpOnlyAfterListingFailure`: COM is left initialised after a fixture
only by one chain of events, which takes three functions: an assertion of
`testGetListing` fails while the enumerator is alive, the enumerator holds
the provider, `Release` in `tearDown` returns 1, and the assertion on line
192 throws before `CoUninitialize`.

`FixturesGiveBackWhatTheyTook` (run `fixture_give_back`): after a fixture,
COM is uninitialised as often as it was initialised, and when no assertion
failed nothing is left allocated.  It is violated in three ways, each of
which violates it alone:

* `CoInitialize` fails, the assertion on line 18 throws, and `tearDown`
  calls `CoUninitialize` for an initialisation that never happened (the
  counterexample TLC reports: `Start`, `setUp`, `tearDown`);
* the chain of `ComStaysUpOnlyAfterListingFailure`, in the other direction;
* a `testGetListing` in which every assertion holds: the strings `Next`
  puts into the `Listing` (`bstrFilename` and the others) are the caller's
  to free and never are (lines 119 and 180), once for every entry of the
  directory.  The model counts them in `lost.listing`, which is why
  `PassedFixturesReleaseTheirOwn` speaks of what the fixture allocated
  itself.

A run reports one counterexample, and this run's is the first.  The other
two are behaviours of the same model (`testGetListing`, `checkEntry`,
`releaseEnum`, `tearDown` with nothing failed and `lost.listing = 1` for the
third), read off the actions; they are listed because the code shows them,
at the lines named.

`EveryFixtureIsTornDown`: a fixture that is running is eventually finished.
The loop of `testGetListing` ends because each turn calls `Next` (line 180)
and the directory has an end; a turn that did not call it would check the
same entry for ever.


## 4. Fairness and liveness

The fixture is the one part with a process that must go on: the CppUnit
runner calls `setUp`, the test and `tearDown` one after the other on one
thread, and nothing in the sources suspends it.  `PuttyProviderTest` is
therefore specified with `WF_vars(Next)`: while the runner has a step to
take, it takes one.  Calls of the provider are assumed to return.
`EveryFixtureIsTornDown` is checked under it.

No fairness is assumed elsewhere.  The dialog's steps are taken by the user
and the caller, who need never act; a `StorageMedium` lives as long as its
owner wants; the path type has no operation that can fail to finish.  The
terminating processes modelled, the two test runners, are checked with
deadlock detection off because their last state, every test run, is where
they stop.

## 5. Mutants

Every property of a passing run is paired with a changed form of a definition
that breaks it, to show that the property depends on the code it is about:
`OnChange` without `_HandleValidity`, `_IsValid` without the range check,
`OnOK` reachable over a disabled button and storing the port uncast; a destructor that releases twice, an
assignment that overwrites without releasing, a member-wise copy constructor,
an assignment that releases before it copies (for two properties: what it
copies from, and what it leaves behind when the copy fails), a destructor that forgets
`ReleaseStgMedium`; an `end()` that forgets the
sentinel, a `++` that always skips a separator, `combine` without the
separator and with one too many, the order
by text in place of the order by segment; the test of
`relative / absolute` rewritten to expect the conventional result; a
`testQueryInterface` that keeps one of the references it was given, a
`tearDown` without its null test, a `tearDown` with `CoUninitialize` moved
inside the `if`, an `Initialize` that never frees its strings, and a loop of
`testGetListing` that does not call `Next`.

## 6. Not modelled

* `ShellDataObject` and `PidlFormat` (`ShellDataObject.hpp` 100-138), the
  explorer commands (`explorer_command.hpp`) and `announce_error`
  (`announce_error.hpp`): the sources declare these classes and functions
  and define none of their member functions; the definitions are in files
  that are not in the repository's sources, and the description of the
  system does not cover them.  There is no state change to translate, and a
  model of them would be invented.  These files are about half of the
  implementation's lines; what the sources do define, the dialog and
  `StorageMedium`, is modelled in full.
* The contents of a `STGMEDIUM` beyond which resource it refers to.
* Wording, layout and focus of the dialog; the characters of a string beyond
  their class and number.
* `CPuttyProvider` and its enumerator, which the fixture tests: not in the
  sources.  The contents of a listing entry.

## 7. Plan

Done, in this order: the dialog (the only part with an environment that acts
on its own), `StorageMedium`, the path type with its tests, the fixture of
the PuTTY provider.

Then: the abstract specifications `ConnectionForm` and `Ownership` with
the refinements; the result of `get()` and of `operator=`; the loop of
`testGetListing` step by step, with the liveness of the fixture; the order by
segment beside the order by text; the notifications that re-enter
`OnInitDialog`.

Nothing else in the sources defines behaviour: the remaining files are
declarations (section 6).

Left:

1. The iterator of a path across an append, if the header becomes available:
   the model ends the iterator's life where the real cursor may survive.
2. The helpers of the fixture that read the environment, as actions of
   their own, if a property comes to depend on the order in which they read.
