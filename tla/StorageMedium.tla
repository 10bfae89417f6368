---------------------------- MODULE StorageMedium ----------------------------
(***************************************************************************)
(* The RAII wrapper StorageMedium of                                       *)
(* src/swish/shell_folder/data_object/ShellDataObject.hpp.                 *)
(*                                                                         *)
(* A StorageMedium owns the STGMEDIUM in its member m_medium: whatever the *)
(* member holds when the object dies is handed to ReleaseStgMedium.  A     *)
(* medium enters an object through the pointer out() returns, which a      *)
(* producer such as IDataObject::GetData writes through, or by copy.       *)
(*                                                                         *)
(* Data abstraction.  A STGMEDIUM is the resource it refers to, or NULL    *)
(* (tymed == NULL).  Each producer call and each successful CopyStgMedium  *)
(* creates one obligation to call ReleaseStgMedium on the resource; claims *)
(* counts the obligations outstanding, whoever holds them.                 *)
(***************************************************************************)
EXTENDS Integers, FiniteSets

CONSTANTS
  Objects,    \* the places a StorageMedium can be constructed in
  Resources,  \* what a STGMEDIUM can refer to
  NULL,       \* the zeroed STGMEDIUM
  MaxClaims   \* bound on the obligations per resource

ASSUME
  /\ IsFiniteSet(Objects) /\ IsFiniteSet(Resources)
  /\ NULL \notin Resources
  /\ MaxClaims \in Nat \ {0}

VARIABLES
  live,    \* the objects constructed and not yet destroyed
  medium,  \* medium[o]: m_medium of o
  claims,  \* claims[r]: calls of ReleaseStgMedium that r is still owed
  thrown,  \* did the last operation leave by an exception?
  copiedReleased,  \* was CopyStgMedium ever given a medium that had
                   \* already been released for the last time?
  result   \* what the last operation returned: a medium from get(), the
           \* object a StorageMedium& denotes from operator=, else NULL

vars == <<live, medium, claims, thrown, copiedReleased, result>>

-----------------------------------------------------------------------------
(* The Win32 calls *)

\* CopyStgMedium succeeding on medium s: the copy is one more thing to release.
CopyStgMedium(c, s) ==
  IF s = NULL THEN c ELSE [c EXCEPT ![s] = @ + 1]

\* ReleaseStgMedium on medium s; a no-op on the zeroed medium.
ReleaseStgMedium(c, s) ==
  IF s = NULL THEN c ELSE [c EXCEPT ![s] = @ - 1]

\* Medium s, as the counts c stand, has had its last release: the resource
\* behind it is gone, and a call that reads it reads what was freed.
Released(c, s) == s # NULL /\ c[s] = 0

-----------------------------------------------------------------------------
(* The class *)

empty(o) == medium[o] = NULL

\* What a StorageMedium& can denote when nothing was returned: any object,
\* alive or not, or none at all.
Indeterminate == Objects \cup {NULL}

\* StorageMedium(): the member is zeroed.
Construct(o) ==
  /\ o \notin live
  /\ live' = live \cup {o}
  /\ medium' = [medium EXCEPT ![o] = NULL]
  /\ thrown' = FALSE /\ result' = NULL
  /\ UNCHANGED <<claims, copiedReleased>>

CopyConstruct_Bitwise(o, src) ==
  /\ o \notin live /\ src \in live
  /\ live' = live \cup {o}
  /\ medium' = [medium EXCEPT ![o] = medium[src]]
  /\ thrown' = FALSE /\ result' = NULL
  /\ UNCHANGED <<claims, copiedReleased>>

\* StorageMedium(const StorageMedium&): CopyStgMedium either succeeds, or
\* fails, and then the constructor throws and the object never lives.
CopyConstruct(o, src) ==
  /\ o \notin live /\ src \in live
  /\ \/ /\ claims[medium[src]] < MaxClaims
        /\ live' = live \cup {o}
        /\ medium' = [medium EXCEPT ![o] = medium[src]]
        /\ claims' = CopyStgMedium(claims, medium[src])
        /\ thrown' = FALSE
     \/ /\ thrown' = TRUE
        /\ UNCHANGED <<live, medium, claims>>
  /\ copiedReleased' = (copiedReleased \/ Released(claims, medium[src]))
  /\ result' = NULL

Assign_Overwrite(a, b) ==
  /\ a \in live /\ b \in live
  /\ \/ /\ claims[medium[b]] < MaxClaims
        /\ medium' = [medium EXCEPT ![a] = medium[b]]
        /\ claims' = CopyStgMedium(claims, medium[b])
        /\ thrown' = FALSE /\ result' \in Indeterminate
     \/ thrown' = TRUE /\ result' = NULL /\ UNCHANGED <<medium, claims>>
  /\ copiedReleased' = (copiedReleased \/ Released(claims, medium[b]))
  /\ UNCHANGED live

Assign_ReleaseThenCopy(a, b) ==
  /\ a \in live /\ b \in live
  /\ \/ /\ claims[medium[b]] < MaxClaims
        /\ medium' = [medium EXCEPT ![a] = medium[b]]
        /\ claims' = CopyStgMedium(ReleaseStgMedium(claims, medium[a]),
                                   medium[b])
        /\ thrown' = FALSE /\ result' \in Indeterminate
     \/ /\ medium' = [medium EXCEPT ![a] = NULL]
        /\ claims' = ReleaseStgMedium(claims, medium[a])
        /\ thrown' = TRUE /\ result' = NULL
  /\ copiedReleased' =
       (copiedReleased
          \/ Released(ReleaseStgMedium(claims, medium[a]), medium[b]))
  /\ UNCHANGED live

\* operator=(StorageMedium medium): the argument is a copy of b, made before
\* the body runs (it may throw, leaving a untouched); the body swaps members
\* with the copy; the copy's destructor then releases what a held.  The body
\* ends without a return statement: the reference the caller receives is
\* whatever the build left where a result is expected.
Assign(a, b) ==
  /\ a \in live /\ b \in live
  /\ \/ /\ claims[medium[b]] < MaxClaims
        /\ medium' = [medium EXCEPT ![a] = medium[b]]
        /\ claims' = ReleaseStgMedium(CopyStgMedium(claims, medium[b]),
                                      medium[a])
        /\ thrown' = FALSE /\ result' \in Indeterminate
     \/ thrown' = TRUE /\ result' = NULL /\ UNCHANGED <<medium, claims>>
  /\ copiedReleased' = (copiedReleased \/ Released(claims, medium[b]))
  /\ UNCHANGED live

Destroy_NoRelease(o) ==
  /\ o \in live
  /\ live' = live \ {o}
  /\ medium' = [medium EXCEPT ![o] = NULL]
  /\ thrown' = FALSE /\ result' = NULL
  /\ UNCHANGED <<claims, copiedReleased>>

Destroy_ReleasesTwice(o) ==
  /\ o \in live
  /\ live' = live \ {o}
  /\ claims' = ReleaseStgMedium(ReleaseStgMedium(claims, medium[o]), medium[o])
  /\ medium' = [medium EXCEPT ![o] = NULL]
  /\ thrown' = FALSE /\ result' = NULL
  /\ UNCHANGED copiedReleased

\* ~StorageMedium(): ReleaseStgMedium on the member.
Destroy(o) ==
  /\ o \in live
  /\ live' = live \ {o}
  /\ claims' = ReleaseStgMedium(claims, medium[o])
  /\ medium' = [medium EXCEPT ![o] = NULL]
  /\ thrown' = FALSE /\ result' = NULL
  /\ UNCHANGED copiedReleased

\* The condition of assert(empty() || "Taking address of non-empty
\* STGMEDIUM"): the string literal is a non-null pointer, hence true.
OutAssertion(o) == empty(o) \/ TRUE

\* out(), and the producer storing a medium for r through the pointer it got.
out(o, r) ==
  /\ o \in live
  /\ OutAssertion(o)
  /\ claims[r] < MaxClaims
  /\ medium' = [medium EXCEPT ![o] = r]
  /\ claims' = [claims EXCEPT ![r] = @ + 1]
  /\ thrown' = FALSE /\ result' = NULL
  /\ UNCHANGED <<live, copiedReleased>>

\* The condition of assert(!empty() || "Accessing empty STGMEDIUM."), true
\* for the same reason.
GetAssertion(o) == ~empty(o) \/ TRUE

\* get(): the caller reads the member.
get(o) ==
  /\ o \in live
  /\ GetAssertion(o)
  /\ result' = medium[o]
  /\ thrown' = FALSE
  /\ UNCHANGED <<live, medium, claims, copiedReleased>>

-----------------------------------------------------------------------------

Init ==
  /\ live = {}
  /\ medium = [o \in Objects |-> NULL]
  /\ claims = [r \in Resources \cup {NULL} |-> 0]
  /\ thrown = FALSE
  /\ copiedReleased = FALSE
  /\ result = NULL

\* Everything except out() and get(), which the two specifications below
\* differ on.
Lifecycle ==
  \E o \in Objects :
    \/ Construct(o)
    \/ Destroy(o)
    \/ \E src \in Objects : CopyConstruct(o, src) \/ Assign(o, src)

\* Any caller: out() and get() on any live object.
Next ==
  \/ Lifecycle
  \/ \E o \in Objects, r \in Resources : out(o, r)
  \/ \E o \in Objects : get(o)

\* Callers that keep to the documented use: out() on an empty object only,
\* get() on one that is not.
NextByContract ==
  \/ Lifecycle
  \/ \E o \in Objects, r \in Resources : empty(o) /\ out(o, r)
  \/ \E o \in Objects : ~empty(o) /\ get(o)

Spec           == Init /\ [][Next]_vars
SpecByContract == Init /\ [][NextByContract]_vars

-----------------------------------------------------------------------------
(* Properties *)

Holders(r) == {o \in live : medium[o] = r}

TypeOK ==
  /\ live \subseteq Objects
  /\ medium \in [Objects -> Resources \cup {NULL}]
  /\ claims \in [Resources \cup {NULL} -> 0 .. MaxClaims]
  /\ thrown \in BOOLEAN
  /\ copiedReleased \in BOOLEAN
  /\ result \in Objects \cup Resources \cup {NULL}

\* No leak: every outstanding obligation to release a resource is held by a
\* live StorageMedium, whose destructor will meet it.  An assignment that
\* forgot what the target held, or a medium stored over another through
\* out(), leaves an obligation nobody holds.
NoLeak ==
  \A r \in Resources : claims[r] <= Cardinality(Holders(r))

\* No double release: every live StorageMedium holding a resource has an
\* obligation of its own, so that no destructor releases what another object
\* still uses.  A member-wise copy would make two objects share one.
NoDoubleRelease ==
  \A r \in Resources : claims[r] >= Cardinality(Holders(r))

\* An operation that throws (a failed CopyStgMedium in the copy constructor
\* or in the argument of operator=) changes no object and no resource.
ThrowChangesNothing ==
  [][thrown' => UNCHANGED <<live, medium, claims>>]_vars

\* CopyStgMedium is never given a medium whose resource is gone.  operator=
\* copies its argument before the body releases what the target held; in the
\* other order a self-assignment, or one between two objects of which the
\* target holds the last claim, would copy from a medium just released.
NoCopyOfAReleasedMedium == ~copiedReleased

\* get() never hands an empty STGMEDIUM to its caller: what its assertion
\* "Accessing empty STGMEDIUM." is there to say.
GetReturnsAMedium ==
  [][\A o \in Objects : get(o) => result' \in Resources]_vars

\* operator= returns a reference to the object assigned to, as its return
\* type StorageMedium& declares, so that a = b = c assigns to a what b
\* received.
AssignReturnsItsTarget ==
  [][\A a, b \in Objects : Assign(a, b) /\ ~thrown' => result' = a]_vars

-----------------------------------------------------------------------------
(* Refinement *)

Own == INSTANCE Ownership WITH
  Owners <- Objects,
  Things <- Resources,
  None   <- NULL,
  holds  <- [o \in Objects |-> IF o \in live THEN medium[o] ELSE NULL],
  owed   <- [r \in Resources |-> claims[r]]

\* Used as documented, StorageMedium implements Ownership: a constructor
\* and a failed copy are no step of it, a copy or a producer's write into an
\* empty object is Acquire, the destructor of a non-empty object Release,
\* and an assignment Acquire, Release or Exchange by what the two sides hold.
ImplementsOwnership == Own!Spec

=============================================================================
