------------------------------ MODULE FileMaps ------------------------------
(***************************************************************************)
(* File maps: what clients put into a project's store and get out of it.   *)
(* A map's keys are kept in files (FsProjectStore._rel, stores.py): keys   *)
(* that differ only in slashes share one, and a key that would leave the   *)
(* project's directory has none.  The order of a map's keys is left out.   *)
(***************************************************************************)
EXTENDS Integers, FiniteSets

CONSTANTS
  Clients,            \* who calls the store
  Keys, Contents,     \* the keys of file maps, and what a file holds
  Path, NoPath,       \* the file each key is kept in, named by its plain key
  Maps                \* the file maps that clients put

FileMap == UNION {[D -> Contents] : D \in SUBSET Keys}
NoFiles == [k \in {} |-> {}]

ASSUME PathAssumption == /\ Path \in [Keys -> Keys \cup {NoPath}] /\ NoPath \notin Keys
                         /\ \A k \in Keys : Path[k] \in Keys => Path[Path[k]] = Path[k]
ASSUME MapsAssumption == Maps \subseteq FileMap

\* Mutation: a key that leaves the directory is kept like any other.
KeptAll(m) == DOMAIN m

\* The keys of m that are kept, and the files they are kept in.
Kept(m)   == {k \in DOMAIN m : Path[k] \in Keys}
Files(ks) == {Path[k] : k \in ks}

\* v is what a store keeps of m: of keys that share a file, one wins.
Stores(m, v) ==
  /\ DOMAIN v = Kept(m)
  /\ \A k \in Kept(m) : \E j \in Kept(m) : Path[j] = Path[k] /\ v[k] = m[j]
  /\ \A j, k \in Kept(m) : Path[j] = Path[k] => v[j] = v[k]

\* What a client asks for, and what it is given.
Nothing == [kind |-> "none", files |-> NoFiles]
Applied == [kind |-> "applied", files |-> NoFiles]
Done    == [kind |-> "ok", files |-> NoFiles]
Get     == [kind |-> "get", files |-> NoFiles]
Put(m)  == [kind |-> "put", files |-> m]
Got(v)  == [kind |-> "got", files |-> v]
Jobs    == {Get} \cup {Put(m) : m \in Maps}
=============================================================================
