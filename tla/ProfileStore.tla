----------------------------- MODULE ProfileStore -----------------------------
(***************************************************************************)
(* The profiles: the daemon's store and its file (fortivpn-daemon:         *)
(* profile.rs, ipc.rs), the settings window that edits them (fortivpn-app: *)
(* settings.rs), and the clients that look one up, take its password and   *)
(* ask the daemon to connect to its name (fortivpn-app: main.rs;           *)
(* fortivpn-cli: main.rs).                                                 *)
(*                                                                         *)
(* The handlers of settings windows run one after the other.  One window   *)
(* is modelled; what the others do to the store is one of their saves or   *)
(* deletes at any time.  Of a profile its identity and its name are kept;  *)
(* whether the keychain has its password is left open.                     *)
(***************************************************************************)
EXTENDS SequencesExt

CONSTANTS
  Ids,     \* identities given out, in this order; bounds the profiles made
  Names,
  Alike,   \* pairs of a name and a name that is the same but for case
  Within,  \* pairs of a name and a name that contains it but for case
  None

ASSUME StoreConstants ==
  /\ Ids \in Seq(STRING) /\ IsInjective(Ids)
  /\ ToSet(Ids) \cap Names = {}
  /\ None \notin ToSet(Ids) \cup Names
  /\ \A n \in Names : <<n, n>> \in Alike

VARIABLES
  up,        \* the daemon runs
  store,     \* ProfileStore.profiles; as it was last while there is no daemon
  poisoned,  \* the store's mutex
  file,      \* what profiles.json says
  cut,       \* history: a write since the start of the daemon did not complete
  made,      \* how many identities were given out
  view,      \* the settings window
  list,      \* CACHED_PROFILES of the tray
  request    \* a connect: the profile it is for, and so is the password

daemon == <<up, store, poisoned, file, cut, made>>
vars == <<daemon, view, list, request>>

Profile(i, n) == [id |-> i, name |-> n]
Profiles == [id : ToSet(Ids), name : Names]

\* of: the profile that the fields of the form were loaded from.
Empty == [open |-> FALSE, list |-> <<>>, sel |-> 0, of |-> None, name |-> None]

Init ==
  /\ up = TRUE
  /\ store = <<>> /\ file = <<>>
  /\ poisoned = FALSE /\ cut = FALSE
  /\ made = 0
  /\ view = Empty
  /\ list = <<>>
  /\ request = None

-----------------------------------------------------------------------------
(* The store *)

Given == {Ids[k] : k \in 1 .. made}

Position(ps, i) == SelectInSeq(ps, LAMBDA p : p.id = i)

\* "save_profile": update, or add when the identity is not there.
Saved(p) ==
  LET k == Position(store, p.id)
  IN  IF k = 0 THEN Append(store, p) ELSE ReplaceAt(store, k, p)

\* ProfileStore::remove; no identity is there twice.
Removed(i) ==
  LET k == Position(store, i)
  IN  IF k = 0 THEN store ELSE RemoveAt(store, k)

\* Mutant: the file is not written.
WrittenNot(ps) ==
  /\ store' = ps
  /\ UNCHANGED <<up, poisoned, file, cut>>

\* A change in memory, then the file is truncated and written.
Written(ps) ==
  /\ store' = ps
  /\ file' = ps
  /\ UNCHANGED <<up, poisoned, cut>>

(* The write fails, which panics and poisons the mutex, or the daemon ends *)
(* in it.  There is no answer, and half a file does not parse: load makes  *)
(* an empty store of it.                                                   *)
WriteCut(ps) ==
  /\ store' = ps
  /\ file' \in {file, <<>>}
  /\ cut' = TRUE
  /\ \/ poisoned' = TRUE /\ UNCHANGED up
     \/ up' = FALSE /\ UNCHANGED poisoned

Serves == up /\ ~poisoned

Crash ==
  /\ up
  /\ up' = FALSE
  /\ UNCHANGED <<store, poisoned, file, cut, made, view, list, request>>

Restart ==
  /\ ~up
  /\ up' = TRUE
  /\ store' = file
  /\ poisoned' = FALSE /\ cut' = FALSE
  /\ UNCHANGED <<file, made, view, list, request>>

\* A new identity, or one that was given out, perhaps of a deleted profile.
SaveId(i) ==
  \/ i \in Given /\ UNCHANGED made
  \/ made < Len(Ids) /\ i = Ids[made + 1] /\ made' = made + 1

\* Another settings window.
OtherSaves ==
  /\ Serves
  /\ \E k \in DOMAIN Ids, n \in Names :
       /\ SaveId(Ids[k])
       /\ Written(Saved(Profile(Ids[k], n))) \/ WriteCut(Saved(Profile(Ids[k], n)))
  /\ UNCHANGED <<view, list, request>>

OtherDeletes ==
  /\ Serves
  /\ \E i \in Given : Written(Removed(i)) \/ WriteCut(Removed(i))
  /\ UNCHANGED <<made, view, list, request>>

-----------------------------------------------------------------------------
(* The settings window *)

\* get_profiles; without an answer the list is empty.
Fetched == IF Serves THEN store ELSE <<>>

\* load_profile.
Loaded(v, l, k) == [v EXCEPT !.list = l, !.sel = k, !.of = l[k].id, !.name = l[k].name]

\* Mutant: the form keeps its fields.
ReloadedAsIs(v, l) ==
  [v EXCEPT !.list = l,
            !.sel = CASE v.sel \in 1 .. Len(l) -> v.sel
                      [] v.sel > Len(l) /\ l # <<>> -> 1
                      [] OTHER -> 0]

(* reload_profiles: what is at the index by now is loaded, or the first    *)
(* one.  When nothing is left or fetched the form stays as it is.          *)
Reloaded(v, l) ==
  CASE v.sel \in 1 .. Len(l) -> Loaded(v, l, v.sel)
    [] v.sel > Len(l) /\ l # <<>> -> Loaded(v, l, 1)
    [] OTHER -> [v EXCEPT !.list = l, !.sel = 0]

\* clear_form, with nothing selected.
Cleared(v) == [v EXCEPT !.sel = 0, !.of = None, !.name = None]

OpenSettings ==
  /\ ~view.open
  /\ LET v == [Empty EXCEPT !.open = TRUE]
     IN  view' = IF Fetched = <<>> THEN v ELSE Loaded(v, Fetched, 1)
  /\ UNCHANGED <<daemon, list, request>>

CloseSettings ==
  /\ view.open
  /\ view' = Empty
  /\ UNCHANGED <<daemon, list, request>>

Select ==
  /\ \E k \in DOMAIN view.list : view' = Loaded(view, view.list, k)
  /\ UNCHANGED <<daemon, list, request>>

NewProfile ==
  /\ view.open
  /\ view' = Cleared(view)
  /\ UNCHANGED <<daemon, list, request>>

EditForm ==
  /\ view.open
  /\ \E n \in Names : view' = [view EXCEPT !.name = n]
  /\ UNCHANGED <<daemon, list, request>>

(* save_profile: of the selected profile, or of a new one when nothing is  *)
(* selected.  The list is fetched again, unless the daemon is gone by then.*)
(* Without an answer nothing changes here, whether or not it was saved.    *)
SaveForm ==
  /\ view.open /\ view.name # None
  /\ Serves
  /\ \E k \in DOMAIN Ids :
       /\ IF view.sel # 0 THEN Ids[k] = view.list[view.sel].id /\ UNCHANGED made
                          ELSE k = made + 1 /\ made' = k
       /\ LET ps == Saved(Profile(Ids[k], view.name)) IN
          \/ Written(ps) /\ \E l \in {ps, <<>>} : view' = Reloaded(view, l)
          \/ (Written(ps) \/ WriteCut(ps)) /\ UNCHANGED view
  /\ UNCHANGED <<list, request>>

\* delete_profile.  The password stays in the keychain.
DeleteSelected ==
  /\ view.sel # 0
  /\ Serves
  /\ LET ps == Removed(view.list[view.sel].id) IN
     \/ /\ Written(ps)
        /\ \E l \in {ps, <<>>} : view' = [Cleared(view) EXCEPT !.list = l]
     \/ (Written(ps) \/ WriteCut(ps)) /\ UNCHANGED view
  /\ UNCHANGED <<made, list, request>>

-----------------------------------------------------------------------------
(* Connecting to a profile *)

\* The first profile whose name is so related to the query.
Named(ps, q, relation) == SelectInSeq(ps, LAMBDA p : <<q, p.name>> \in relation)

\* Mutant: a name that contains the query will do.
FindAny(ps, q) ==
  LET i == Position(ps, q)
      k == IF i # 0 THEN i ELSE Named(ps, q, Alike \cup Within)
  IN  IF k = 0 THEN None ELSE ps[k].id

\* find_profile of the daemon, and of the command line client.
FindProfile(ps, q) ==
  LET i == Position(ps, q)
      n == Named(ps, q, Alike)
      k == IF i # 0 THEN i ELSE IF n # 0 THEN n ELSE Named(ps, q, Within)
  IN  IF k = 0 THEN None ELSE ps[k].id

\* At the start, and when a subscription has ended.
TrayFetches ==
  /\ list' = Fetched
  /\ UNCHANGED <<daemon, view, request>>

\* The profile at the index clicked, if its password is known.
TrayConnects ==
  /\ request = None
  /\ request' \in ToSet(list)
  /\ UNCHANGED <<daemon, view, list>>

\* "list"; then the password is looked up, or asked for.
CliConnects ==
  /\ request = None
  /\ Serves
  /\ \E q \in Names \cup Given :
       LET i == FindProfile(store, q)
       IN  i # None /\ request' = store[Position(store, i)]
  /\ UNCHANGED <<daemon, view, list>>

\* The profile "connect_with_password" comes to: it is looked up by the name only.
Reached == FindProfile(store, request.name)

\* The daemon goes on with that one, or finds none.
Find ==
  /\ request # None
  /\ request' = None
  /\ UNCHANGED <<daemon, view, list>>

-----------------------------------------------------------------------------
Settings ==
  \/ OpenSettings \/ CloseSettings \/ Select \/ NewProfile \/ EditForm
  \/ SaveForm \/ DeleteSelected

Connecting == TrayFetches \/ TrayConnects \/ CliConnects \/ Find

Next == Crash \/ Restart \/ OtherSaves \/ OtherDeletes \/ Settings \/ Connecting

Spec == Init /\ [][Next]_vars
=============================================================================
