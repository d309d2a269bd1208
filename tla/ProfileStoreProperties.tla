------------------------ MODULE ProfileStoreProperties ------------------------
\* What must be true of profiles, of their file and of those who name them.
EXTENDS ProfileStore

IsStore(ps) ==
  /\ ps \in Seq(Profiles)
  /\ \A j, k \in DOMAIN ps : ps[j].id = ps[k].id => j = k

OrNone(S) == S \cup {None}

Views ==
  [open : BOOLEAN, list : Seq(Profiles), sel : Nat,
   of : OrNone(ToSet(Ids)), name : OrNone(Names)]

TypeOK ==
  /\ up \in BOOLEAN /\ poisoned \in BOOLEAN /\ cut \in BOOLEAN
  /\ IsStore(store) /\ IsStore(file) /\ IsStore(list)
  /\ made \in 0 .. Len(Ids)
  /\ view \in Views
  /\ IsStore(view.list) /\ view.sel <= Len(view.list)
  /\ request \in OrNone(Profiles)

(* A restart brings back every profile as it was last saved, unless a write *)
(* of the daemon before it was cut short: then whatever was there may be    *)
(* gone, as the file is written in place and one that does not parse is     *)
(* read as an empty store (profile.rs:31-79).                               *)
RestartKeeps == [][~up /\ up' /\ ~cut => store' = store]_vars

(* Saving changes the profile whose fields the form shows, or adds one; it  *)
(* never gives one profile the fields of another, although the list under   *)
(* the index has been fetched again after others saved and deleted          *)
(* (settings.rs:114-219).                                                   *)
SaveTouchesTheShown ==
  [][SaveForm =>
       \A k \in DOMAIN store : store'[k] # store[k] => store[k].id = view.of]_vars

(* A client names the profile it has the password of: the daemon connects   *)
(* to that one as long as it still has it under that name and no other name *)
(* differs from it in case only, whoever has edited profiles since the      *)
(* client's list was fetched (ipc.rs:337-346, 493-512).                     *)
PasswordMeetsItsProfile ==
  request # None =>
    \A k \in DOMAIN store :
      /\ store[k] = request
      /\ \A j \in DOMAIN store : <<request.name, store[j].name>> \in Alike => j = k
      => Reached = request.id
=============================================================================
