--------------------------- MODULE HostInfoDialog ---------------------------
(***************************************************************************)
(* The host-connection dialog of src/HostInfoDialog.cpp.                   *)
(*                                                                         *)
(* The dialog keeps every value twice: in the member variables m_strUser,  *)
(* m_strHost, m_strPath and m_uPort, which the accessors read and write,   *)
(* and in the Win32 edit controls, which the user edits.  OnInitDialog     *)
(* copies members to controls, OnOK copies controls to members, and the    *)
(* OK button is enabled or disabled by _HandleValidity each time a control *)
(* reports a change.  OnOK does not validate: it relies on the button      *)
(* having been disabled whenever the controls were invalid.                *)
(*                                                                         *)
(* Data abstraction.  A string is the pair of its length and the classes   *)
(* of character it contains; the port control's text is blank (empty or    *)
(* not a numeral), a numeral that fits a UINT, or a numeral that does not. *)
(***************************************************************************)
EXTENDS Naturals, FiniteSets

CONSTANTS
  MAX_USERNAME_LEN,  \* remotelimits.h
  MAX_HOSTNAME_LEN,  \* remotelimits.h
  MAX_PATH_LEN,      \* remotelimits.h
  MAX_PORT,          \* remotelimits.h: 65535
  DEFAULT_PORT,      \* m_uPort of a freshly constructed dialog
  PresetTexts,       \* strings callers pass to SetUser, SetHost, SetPath
  PresetPorts,       \* USHORTs callers pass to SetPort
  TypedTexts,        \* strings the user can leave in a string control
  TypedPorts         \* texts the user can leave in the port control

VARIABLES
  m,          \* the members: [user, host, path: Text, port: USHORT]
  fld,        \* the Win32 controls: [user, host, path: Text, port: PortText]
  okEnabled,  \* is the IDOK button enabled?
  dlg         \* "none": never shown; "open": m_hWnd exists;
              \* "ok" / "cancel": ended with IDOK / IDCANCEL

vars == <<m, fld, okEnabled, dlg>>

-----------------------------------------------------------------------------
(* Strings and numbers *)

\* "ctrl" stands for the characters " \t \n \r \b \ , "punct" for @ : space '
\* and "plain" for every other character.
CharClass == {"plain", "punct", "ctrl"}

FORBIDDEN_CHARS      == {"punct", "ctrl"}
FORBIDDEN_PATH_CHARS == {"ctrl"}

Text == [len : Nat, has : SUBSET CharClass]

\* A string has a class only if it has a character, and no more classes than
\* characters.
WellFormed(t) ==
  /\ Cardinality(t.has) <= t.len
  /\ t.len > 0 => t.has # {}

EmptyText == [len |-> 0, has |-> {}]

IsEmpty(t)           == t.len = 0
GetLength(t)         == t.len
FindOneOf(t, chars)  == t.has \cap chars # {}   \* FindOneOf(chars) > -1

PortText == [kind : {"blank", "number", "huge"}, val : Nat]

BlankPort == [kind |-> "blank", val |-> 0]

USHORT_RANGE == 65536
USHORT       == 0 .. (USHORT_RANGE - 1)
ToUSHORT(n)  == n % USHORT_RANGE

\* SetDlgItemInt(IDC_PORT, n, FALSE): the control shows the numeral of n.
SetDlgItemInt(n) == [kind |-> "number", val |-> n]

\* GetDlgItemInt(IDC_PORT, &fTranslated, false): the UINT the text denotes,
\* or 0 with fTranslated FALSE when it denotes none.
GetDlgItemInt(pt) ==
  [translated |-> pt.kind = "number",
   value      |-> IF pt.kind = "number" THEN pt.val ELSE 0]

ASSUME
  /\ {MAX_USERNAME_LEN, MAX_HOSTNAME_LEN, MAX_PATH_LEN} \subseteq Nat
  /\ MAX_PORT \in USHORT /\ DEFAULT_PORT \in USHORT
  /\ PresetPorts \subseteq USHORT
  /\ PresetTexts \cup TypedTexts \subseteq Text
  /\ \A t \in PresetTexts \cup TypedTexts : WellFormed(t)
  /\ TypedPorts \subseteq PortText

-----------------------------------------------------------------------------
(* Validation *)

\* The string checks of _IsValid(): each early "return false" of the code is
\* a disjunct that must not hold.
StringFieldsValid(f) ==
  /\ ~ (IsEmpty(f.user) \/ IsEmpty(f.host) \/ IsEmpty(f.path))
  /\ ~ (\/ FindOneOf(f.user, FORBIDDEN_CHARS)
        \/ FindOneOf(f.host, FORBIDDEN_CHARS)
        \/ FindOneOf(f.path, FORBIDDEN_PATH_CHARS))
  /\ ~ (\/ GetLength(f.user) > MAX_USERNAME_LEN
        \/ GetLength(f.host) > MAX_HOSTNAME_LEN
        \/ GetLength(f.path) > MAX_PATH_LEN)

_IsValid_NoPortRange(f) ==
  /\ StringFieldsValid(f)
  /\ GetDlgItemInt(f.port).translated

\* _IsValid() on the four controls f: the strings first, the port only when
\* the strings passed.
_IsValid(f) ==
  /\ StringFieldsValid(f)
  /\ GetDlgItemInt(f.port).translated
  /\ ~ (GetDlgItemInt(f.port).value > MAX_PORT)

\* _HandleValidity(): EnableWindow(IDOK, _IsValid()) on the controls f.
_HandleValidity(f) == okEnabled' = _IsValid(f)

-----------------------------------------------------------------------------
(* The window *)

\* The controls of a window that does not exist; a new window starts from
\* the dialog template: empty edit controls and an enabled OK button.
NoControls ==
  [user |-> EmptyText, host |-> EmptyText, path |-> EmptyText,
   port |-> BlankPort]

\* EndDialog(wID) destroys the window and hands wID to the caller.
EndDialog(wID) ==
  /\ dlg' = wID
  /\ fld' = NoControls
  /\ okEnabled' = TRUE

Init ==
  /\ m = [user |-> EmptyText, host |-> EmptyText, path |-> EmptyText,
          port |-> DEFAULT_PORT]
  /\ fld = NoControls
  /\ okEnabled = TRUE
  /\ dlg = "none"

-----------------------------------------------------------------------------
(* Message handlers *)

\* What OnInitDialog puts into the controls for members mm.
Display(mm) ==
  [user |-> mm.user, host |-> mm.host, path |-> mm.path,
   port |-> SetDlgItemInt(mm.port)]

\* The order in which OnInitDialog loads the controls.
LoadOrder == <<"user", "host", "path", "port">>

\* The controls of a new window after the first k loads of members mm.  A
\* control that is given text reports a change as it does when the user
\* types, so OnChange, and with it _IsValid, runs on each of these before
\* OnInitDialog goes on to the next control.
Loaded(mm, k) ==
  [c \in DOMAIN NoControls |->
     IF \E i \in 1 .. k : LoadOrder[i] = c THEN Display(mm)[c]
                                            ELSE NoControls[c]]

\* DoModal() or Create() makes the window, which receives WM_INITDIALOG.
\* The button is left as the last _HandleValidity() sets it, whatever the
\* notifications in between made of it.
OnInitDialog ==
  /\ dlg # "open"
  /\ dlg' = "open"
  /\ fld' = Loaded(m, 4)
  /\ _HandleValidity(fld')
  /\ UNCHANGED m

OnChange_NoRevalidation(c, v) ==
  /\ dlg = "open"
  /\ fld' = [fld EXCEPT ![c] = v]
  /\ UNCHANGED <<m, dlg, okEnabled>>

\* The user leaves text v in control c; the control reports the change and
\* the handler revalidates all four controls.
OnChange(c, v) ==
  /\ dlg = "open"
  /\ fld' = [fld EXCEPT ![c] = v]
  /\ _HandleValidity(fld')
  /\ UNCHANGED <<m, dlg>>

OnOK_AnyTimeNoCast ==
  /\ dlg = "open"
  /\ m' = [user |-> fld.user, host |-> fld.host, path |-> fld.path,
           port |-> GetDlgItemInt(fld.port).value]
  /\ EndDialog("ok")

\* A click on OK, which Windows delivers only while the button is enabled.
\* The handler copies the controls without looking at them again.
OnOK ==
  /\ dlg = "open"
  /\ okEnabled
  /\ m' = [user |-> fld.user, host |-> fld.host, path |-> fld.path,
           port |-> ToUSHORT(GetDlgItemInt(fld.port).value)]
  /\ EndDialog("ok")

OnCancel ==
  /\ dlg = "open"
  /\ EndDialog("cancel")
  /\ UNCHANGED m

-----------------------------------------------------------------------------
(* Accessors: callable in every state, they touch the members only *)

GetUser == m.user
GetHost == m.host
GetPath == m.path
GetPort == m.port

SetUser(pszUser) == m' = [m EXCEPT !.user = pszUser] /\ UNCHANGED <<fld, okEnabled, dlg>>
SetHost(pszHost) == m' = [m EXCEPT !.host = pszHost] /\ UNCHANGED <<fld, okEnabled, dlg>>
SetPath(pszPath) == m' = [m EXCEPT !.path = pszPath] /\ UNCHANGED <<fld, okEnabled, dlg>>
SetPort(uPort)   == m' = [m EXCEPT !.port = uPort]   /\ UNCHANGED <<fld, okEnabled, dlg>>

-----------------------------------------------------------------------------

Typed(c) == IF c = "port" THEN TypedPorts ELSE TypedTexts

Next ==
  \/ OnInitDialog
  \/ \E c \in DOMAIN fld : \E v \in Typed(c) : OnChange(c, v)
  \/ OnOK
  \/ OnCancel
  \/ \E t \in PresetTexts : SetUser(t)
  \/ \E t \in PresetTexts : SetHost(t)
  \/ \E t \in PresetTexts : SetPath(t)
  \/ \E p \in PresetPorts : SetPort(p)

Spec == Init /\ [][Next]_vars

-----------------------------------------------------------------------------
(* Properties *)

TypeOK ==
  /\ m \in [user : Text, host : Text, path : Text, port : USHORT]
  /\ fld \in [user : Text, host : Text, path : Text, port : PortText]
  /\ okEnabled \in BOOLEAN
  /\ dlg \in {"none", "open", "ok", "cancel"}

\* While the dialog is shown, the OK button is enabled exactly when the
\* controls pass _IsValid.  OnOK trusts the button instead of validating, so
\* a button left enabled over invalid controls (a change that was not
\* followed by _HandleValidity, or an initial load that was not) lets
\* invalid values through.
OkButtonTracksValidity ==
  dlg = "open" => (okEnabled <=> _IsValid(fld))

\* ASSERT(fTranslated) on controls f: reached when the three strings pass.
Asserted(f) == StringFieldsValid(f) => GetDlgItemInt(f.port).translated

\* _IsValid asserts (ASSERT(fTranslated)) that whenever it reaches the port
\* check, the port control holds text GetDlgItemInt can translate.  It runs
\* on the controls as every change leaves them: each edit of the user, and
\* each load of a control by OnInitDialog, the port being loaded last.
PortFieldAlwaysTranslates ==
  [][/\ dlg' = "open" => Asserted(fld')
     /\ OnInitDialog => \A k \in DOMAIN LoadOrder : Asserted(Loaded(m, k))]_vars

-----------------------------------------------------------------------------
(* Refinement *)

Form == INSTANCE ConnectionForm WITH
  Display <- Display,
  Valid   <- _IsValid,
  Blank   <- NoControls,
  stored  <- [user |-> GetUser, host |-> GetHost, path |-> GetPath,
              port |-> GetPort],
  shown   <- fld,
  status  <- dlg

\* The dialog implements ConnectionForm, with what the getters return as the
\* record and the controls as what is shown: the setters are Preset, OnInitDialog is
\* Open, OnChange is Edit, OnOK is Accept and OnCancel is Cancel.  The OK
\* button does not appear in ConnectionForm: that OnOK, which looks at the
\* button only, is an Accept, which requires valid controls and a record
\* that displays as what was accepted, is what the button is there for.
\* OnOK reads the port without a success flag and narrows it with (USHORT):
\* 65536 would be stored as 0, and so would text that is no number.
ImplementsConnectionForm == Form!Spec

=============================================================================
