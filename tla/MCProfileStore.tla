---------------------------- MODULE MCProfileStore ----------------------------
(* ProfileStore for TLC: two profiles, and two names of which one contains  *)
(* the other.  Names that differ in case only are looked up like equal ones.*)
EXTENDS ProfileStoreProperties

MCIds == <<"1", "2">>
MCNames == {"work", "workshop"}
MCAlike == {<<n, n>> : n \in MCNames}
MCWithin == MCAlike \cup {<<"work", "workshop">>}
=============================================================================
