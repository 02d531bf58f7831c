---------------------------- MODULE SessionFiles ----------------------------
(***************************************************************************)
(* The sessions directory as a set of paths.  A path is the sequence of    *)
(* its components: <<key>> is a session, <<key, "sourcecode", name>> a     *)
(* file of it.  The operators are the calls of std::filesystem that        *)
(* src/server.cpp, src/content.cpp and src/LRUSessionsCache.cpp make, as   *)
(* functions from the set of paths before the call to the set after it.    *)
(***************************************************************************)
EXTENDS Naturals, Sequences, FiniteSets

Parent(path) == SubSeq(path, 1, Len(path) - 1)

\* path is dir, or inside it.
Inside(path, dir) ==
    Len(path) >= Len(dir) /\ SubSeq(path, 1, Len(dir)) = dir

\* A file can be created: its directory exists.
CanCreate(disk, path) == Len(path) = 1 \/ Parent(path) \in disk

Names(disk, dir) ==
    {path[Len(path)] : path \in {p \in disk : Len(p) = Len(dir) + 1 /\ Parent(p) = dir}}

CreateDirectories(disk, dir) ==
    disk \cup {SubSeq(dir, 1, n) : n \in 1 .. Len(dir)}

RemoveAll(disk, dir) == {path \in disk : ~Inside(path, dir)}

Add(disk, dir, names) == disk \cup {Append(dir, name) : name \in names}

=============================================================================
