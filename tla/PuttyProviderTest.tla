-------------------------- MODULE PuttyProviderTest --------------------------
(***************************************************************************)
(* The CppUnit fixture of src/UnitTests/PuttyProvider_test.cpp: setUp, the *)
(* three tests and tearDown, and what they acquire and release.            *)
(*                                                                         *)
(* The runner makes a fixture object for each test and calls setUp, the    *)
(* test if setUp did not throw, and tearDown in every case.  A failed      *)
(* CPPUNIT_ASSERT throws, so each assertion is a point where a function    *)
(* can stop, and whatever it holds at that point and releases only later   *)
(* is lost.  A function runs to its end or to its first failed assertion   *)
(* in one step, nothing else running on the thread meanwhile; the loop of  *)
(* testGetListing takes one step for each entry.                           *)
(*                                                                         *)
(* The environment decides what the code cannot: the variables             *)
(* TEST_USER_NAME, TEST_HOST_NAME and TEST_HOST_PORT and the registry,     *)
(* fixed for the life of the process, and the result of each COM call.     *)
(* The provider and its enumerator count references as COM objects must;   *)
(* an enumerator may or may not hold a reference to its provider.          *)
(***************************************************************************)
EXTENDS Integers, SequencesExt

CONSTANTS
  NULL,        \* the null interface pointer
  Unset,       \* an environment variable that is not set
  UserNames,   \* TEST_USER_NAME: Unset or the length of its value
  HostNames,   \* TEST_HOST_NAME: Unset or the length of its value
  Ports,       \* TEST_HOST_PORT: Unset or the number StrToInt makes of it
  MaxEntries   \* bound on the entries of the listing of LISTING_PATH

ASSUME MaxEntries \in Nat \ {0}

Tests     == {"testQueryInterface", "testInitialize", "testGetListing"}
Provider  == "CPuttyProvider"
Resources == {"bstr", "listing", "enum", "provider"}

VARIABLES
  env,          \* the environment variables and the registry
  running,      \* the test whose fixture exists, or NULL
  phase,        \* what runs next: "setUp", "test", "listing", "release",
                \* "tearDown"
  ran,          \* the tests whose fixture is gone
  failed,       \* the tests in which an assertion failed
  m_pProvider,  \* the fixture's member
  provRefs,     \* the reference count of the fixture's provider
  com,          \* successful CoInitialize calls minus CoUninitialize calls
  lost,         \* lost[k]: resources of kind k that nothing will release
  listing,      \* testGetListing: the entries the enumerator has not handed
                \* out, after the one in lt; TRUE is a well-formed entry
  nullCall      \* has a method been called through a null pointer?

vars == <<env, running, phase, ran, failed, m_pProvider, provRefs, com,
          lost, listing, nullCall>>

-----------------------------------------------------------------------------
(* The private functions: TRUE when they return, FALSE when they throw *)

\* testRegistryStructure(): the key opens and closes, the path is read, and
\* psftp.exe exists beside the DLL.
testRegistryStructure == env.registry

GetHostName ==
  /\ env.host # Unset               \* CPPUNIT_FAIL("Please set ...")
  /\ env.host # 0
  /\ env.host > 2
  /\ env.host < 255

GetUserName ==
  /\ env.user # Unset
  /\ env.user # 0
  /\ env.user > 2
  /\ env.user < 64

\* An unset variable is the default port, and never throws.
GetPort ==
  env.port # Unset => env.port >= 0 /\ env.port <= 65535

-----------------------------------------------------------------------------
(* How a test ends *)

Threw(b, e) == [threw |-> TRUE, bstr |-> b, enum |-> e]
Returned    == [threw |-> FALSE, bstr |-> 0, enum |-> 0]

\* The test ends with outcome o: what it threw over is lost.
EndTest(o) ==
  /\ failed' = IF o.threw THEN failed \cup {running} ELSE failed
  /\ lost' = [lost EXCEPT !.bstr = @ + o.bstr, !.enum = @ + o.enum]
  /\ phase' = "tearDown"

\* A call through m_pProvider.
CallProvider == nullCall' = (nullCall \/ m_pProvider = NULL)

Initialize_NeverFrees ==
  CASE ~GetUserName                            -> {Threw(0, 0)}
    [] GetUserName /\ ~GetHostName             -> {Threw(1, 0)}
    [] GetUserName /\ GetHostName /\ ~GetPort  -> {Threw(2, 0)}
    [] OTHER -> {Threw(2, 0), [Returned EXCEPT !.bstr = 2]}

\* The lines testInitialize and testGetListing share.  Two BSTRs are
\* allocated, one from GetUserName() and one from GetHostName(); Initialize
\* is called with them and GetPort() and asserted to succeed; then the BSTRs
\* are freed.
Initialize ==
  CASE ~GetUserName                            -> {Threw(0, 0)}
    [] GetUserName /\ ~GetHostName             -> {Threw(1, 0)}
    [] GetUserName /\ GetHostName /\ ~GetPort  -> {Threw(2, 0)}
    [] OTHER                                   -> {Threw(2, 0), Returned}

\* The directories GetListing can list: their entries, well-formed or not.
Directories == BoundedSeq(BOOLEAN, MaxEntries)

NextEntry_NotCalled == UNCHANGED <<listing, lost>>

\* hr = pEnum->Next(1, &lt, NULL) in the loop: the next entry, whose strings
\* are now the caller's, or S_FALSE after the last.
NextEntry ==
  /\ listing' = Tail(listing)
  /\ lost' = [lost EXCEPT !.listing = @ + (IF listing' = <<>> THEN 0 ELSE 1)]

\* The fixture is destroyed.
EndFixture ==
  /\ ran' = ran \cup {running}
  /\ running' = NULL
  /\ phase' = "setUp"

-----------------------------------------------------------------------------

Init ==
  /\ env \in [user : UserNames, host : HostNames, port : Ports,
              registry : BOOLEAN]
  /\ running = NULL
  /\ phase = "setUp"
  /\ ran = {}
  /\ failed = {}
  /\ m_pProvider = NULL
  /\ provRefs = 0
  /\ com = 0
  /\ lost = [k \in Resources |-> 0]
  /\ listing = <<>>
  /\ nullCall = FALSE

\* The runner constructs the fixture of a test that has not run.
Start(t) ==
  /\ running = NULL
  /\ t \notin ran
  /\ running' = t
  /\ m_pProvider' = NULL
  /\ provRefs' = 0
  /\ listing' = <<>>
  /\ UNCHANGED <<env, phase, ran, failed, com, lost, nullCall>>

\* setUp(): CoInitialize, testRegistryStructure and CoCreateInstance, each
\* asserted to succeed.
setUp ==
  /\ running # NULL /\ phase = "setUp"
  /\ \E hrInit, hrCreate \in BOOLEAN :
       LET created == hrInit /\ testRegistryStructure /\ hrCreate IN
       /\ com' = IF hrInit THEN com + 1 ELSE com
       /\ m_pProvider' = IF created THEN Provider ELSE NULL
       /\ provRefs' = IF created THEN 1 ELSE 0
       /\ failed' = IF created THEN failed ELSE failed \cup {running}
       /\ phase' = IF created THEN "test" ELSE "tearDown"
  /\ UNCHANGED <<env, running, ran, lost, listing, nullCall>>

testQueryInterface_KeepsReference ==
  /\ running = "testQueryInterface" /\ phase = "test"
  /\ CallProvider
  /\ \/ EndTest(Threw(0, 0)) /\ UNCHANGED provRefs
     \/ EndTest(Returned) /\ provRefs' = provRefs + 1
  /\ UNCHANGED <<env, running, ran, m_pProvider, com, listing>>

\* testQueryInterface(): every reference QueryInterface gives is released
\* before the assertion that follows it can throw.
testQueryInterface ==
  /\ running = "testQueryInterface" /\ phase = "test"
  /\ CallProvider
  /\ \E o \in {Threw(0, 0), Returned} : EndTest(o)
  /\ UNCHANGED <<env, running, ran, m_pProvider, provRefs, com, listing>>

testInitialize ==
  /\ running = "testInitialize" /\ phase = "test"
  /\ CallProvider
  /\ \E o \in Initialize : EndTest(o)
  /\ UNCHANGED <<env, running, ran, m_pProvider, provRefs, com, listing>>

\* testGetListing() up to its loop.  Initialize throws, as above.  GetListing
\* fails: the directory's BSTR is freed before the assertion throws.  It
\* returns an enumerator, which holds a reference to its provider or not:
\* Reset fails, or the directory is empty and Next gives no first entry, and
\* the assertion throws over the enumerator; or the loop is entered.
testGetListing ==
  /\ running = "testGetListing" /\ phase = "test"
  /\ CallProvider
  /\ \E i \in Initialize :
       \/ /\ i.threw
          /\ EndTest(i) /\ UNCHANGED <<provRefs, listing>>
       \/ /\ ~i.threw
          /\ EndTest(Threw(0, 0)) /\ UNCHANGED <<provRefs, listing>>
       \/ /\ ~i.threw
          /\ \E holds \in 0 .. 1 : provRefs' = provRefs + holds
          /\ \/ EndTest(Threw(0, 1)) /\ UNCHANGED listing
             \/ /\ listing' \in Directories \ {<<>>}
                /\ lost' = [lost EXCEPT !.listing = @ + 1]
                /\ phase' = "listing"
                /\ UNCHANGED failed
  /\ UNCHANGED <<env, running, ran, m_pProvider, com>>

\* One turn of the loop: the assertions on the entry in lt, one of which
\* throws if it is not well-formed, then Next; the loop ends when Next does
\* not return S_OK.
checkEntry ==
  /\ running = "testGetListing" /\ phase = "listing"
  /\ \/ /\ ~Head(listing)
        /\ EndTest(Threw(0, 1)) /\ UNCHANGED listing
     \/ /\ Head(listing)
        /\ NextEntry
        /\ phase' = IF Len(listing') > 0 THEN "listing" ELSE "release"
        /\ UNCHANGED failed
  /\ UNCHANGED <<env, running, ran, m_pProvider, provRefs, com, nullCall>>

\* After the loop: the enumerator is released and the count Release returns
\* asserted to be 0.  Released for the last time, the enumerator gives up its
\* reference to the provider, if it held one; a count that is not 0 means
\* it lives on, with a reference nobody is left to release and with its hold
\* on the provider.
releaseEnum ==
  /\ running = "testGetListing" /\ phase = "release"
  /\ \/ EndTest(Returned) /\ provRefs' = 1
     \/ EndTest(Threw(0, 1)) /\ UNCHANGED provRefs
  /\ UNCHANGED <<env, running, ran, m_pProvider, com, listing, nullCall>>

tearDown_Unguarded ==
  /\ running # NULL /\ phase = "tearDown"
  /\ nullCall' = (nullCall \/ m_pProvider = NULL)
  /\ provRefs' = 0
  /\ m_pProvider' = NULL
  /\ com' = com - 1
  /\ EndFixture
  /\ UNCHANGED <<env, failed, lost, listing>>

tearDown_UninitializeInsideIf ==
  /\ running # NULL /\ phase = "tearDown"
  /\ \/ /\ m_pProvider = NULL
        /\ UNCHANGED <<m_pProvider, provRefs, failed, lost, com>>
     \/ /\ m_pProvider # NULL /\ provRefs - 1 = 0
        /\ provRefs' = 0
        /\ m_pProvider' = NULL
        /\ com' = com - 1
        /\ UNCHANGED <<failed, lost>>
     \/ /\ m_pProvider # NULL /\ provRefs - 1 # 0
        /\ provRefs' = provRefs - 1
        /\ failed' = failed \cup {running}
        /\ lost' = [lost EXCEPT !.provider = @ + 1]
        /\ UNCHANGED <<m_pProvider, com>>
  /\ EndFixture
  /\ UNCHANGED <<env, listing, nullCall>>

\* tearDown(): without a provider, CoUninitialize only.  With one, Release,
\* and the count it returns is asserted to be 0: if it is not, the
\* assertion throws before the member is cleared and before CoUninitialize.
tearDown ==
  /\ running # NULL /\ phase = "tearDown"
  /\ \/ /\ m_pProvider = NULL
        /\ com' = com - 1
        /\ UNCHANGED <<m_pProvider, provRefs, failed, lost>>
     \/ /\ m_pProvider # NULL /\ provRefs - 1 = 0
        /\ provRefs' = 0
        /\ m_pProvider' = NULL
        /\ com' = com - 1
        /\ UNCHANGED <<failed, lost>>
     \/ /\ m_pProvider # NULL /\ provRefs - 1 # 0
        /\ provRefs' = provRefs - 1
        /\ failed' = failed \cup {running}
        /\ lost' = [lost EXCEPT !.provider = @ + 1]
        /\ UNCHANGED <<m_pProvider, com>>
  /\ EndFixture
  /\ UNCHANGED <<env, listing, nullCall>>

Next ==
  \/ \E t \in Tests : Start(t)
  \/ setUp
  \/ testQueryInterface
  \/ testInitialize
  \/ testGetListing
  \/ checkEntry
  \/ releaseEnum
  \/ tearDown

\* The runner and the tests are one thread that nothing suspends: whatever
\* comes next is executed.
Spec == Init /\ [][Next]_vars /\ WF_vars(Next)

-----------------------------------------------------------------------------
(* Properties *)

TypeOK ==
  /\ env \in [user : UserNames, host : HostNames, port : Ports,
              registry : BOOLEAN]
  /\ running \in Tests \cup {NULL}
  /\ phase \in {"setUp", "test", "listing", "release", "tearDown"}
  /\ ran \subseteq Tests /\ failed \subseteq Tests
  /\ m_pProvider \in {NULL, Provider}
  /\ provRefs \in 0 .. 2
  /\ com \in -Cardinality(Tests) .. Cardinality(Tests)
  /\ lost \in [Resources -> Nat]
  /\ lost.bstr <= 4            \* two in each of the two tests that allocate
  /\ lost.listing <= MaxEntries
  /\ lost.enum <= 1 /\ lost.provider <= 1    \* testGetListing's only
  /\ listing \in Directories
  /\ nullCall \in BOOLEAN

\* No method is ever called through a null interface pointer: the tests
\* run only when setUp has created the provider, and tearDown runs after
\* a setUp that failed before CoCreateInstance, which is what its
\* "if (m_pProvider)" is for.
NoCallThroughNull == ~nullCall

\* When no assertion has failed, the fixtures have released what they
\* acquired themselves: every BSTR they allocated, every interface
\* reference they were given, and COM as often as they initialised it.
PassedFixturesReleaseTheirOwn ==
  running = NULL /\ failed = {} =>
    com = 0 /\ lost.bstr = 0 /\ lost.enum = 0 /\ lost.provider = 0

\* COM stays initialised after a fixture only by this chain: an assertion
\* of testGetListing fails between GetListing and Release, the enumerator
\* it leaves behind holds the provider, Release in tearDown then returns a
\* count that is not 0, and the assertion on it throws before
\* CoUninitialize.  No other test and no failure of setUp can cause it.
ComStaysUpOnlyAfterListingFailure ==
  com > 0 /\ running = NULL => "testGetListing" \in failed

\* A fixture that is gone has given back what it took.  "Start up COM" in
\* setUp, "Shut down COM" in tearDown: CoUninitialize has been called
\* exactly as often as CoInitialize succeeded, whether assertions failed or
\* not.  And when none failed, nothing is left allocated, the strings that
\* IEnumListing::Next hands to its caller in a Listing included.
FixturesGiveBackWhatTheyTook ==
  running = NULL =>
    /\ com = 0
    /\ failed = {} => \A k \in Resources : lost[k] = 0

\* Every fixture that is set up is torn down: no test hangs.  The loop of
\* testGetListing runs until Next stops returning S_OK, so it ends because
\* each turn calls Next and the directory has an end.
EveryFixtureIsTornDown ==
  \A t \in Tests : running = t ~> t \in ran

=============================================================================
