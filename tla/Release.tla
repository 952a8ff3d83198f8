------------------------------- MODULE Release ------------------------------
(***************************************************************************)
(* What a release directory holds: the mappings of a target, as validated  *)
(* by internal/config, the tree that internal/deploy writes for them under *)
(* the umask of the process, and the check of a tree that is there         *)
(* already.  A path is the tuple of its components, a mode the set of      *)
(* those who may access.                                                   *)
(***************************************************************************)
EXTENDS Bundle, SequencesExt

Who == {"owner", "group", "other"}
MarkerPath == <<".pemcast-digest">>
MarkerMode == {"owner"}

Entry(path, mode, content) == [path |-> path, mode |-> mode, content |-> content]

(* What is written to a file: a PEM text, or the line of the digest file.  *)
PemText(pem) == [pem |-> pem]
DigestLine(digest) == [line |-> digest]

Mappings(t) == ToSet(t.mappings)

(* Target.Validate.  Local names are compared as paths, so "a" next to     *)
(* "a/b", and the name of the digest file, are accepted.                   *)
TargetValid(t) ==
    /\ t.type \in Types
    /\ t.dirMode # {}
    /\ \A i \in DOMAIN t.mappings :
          /\ t.mappings[i].mode # {}
          /\ t.mappings[i].local # <<>>
          /\ t.mappings[i].local[1] # ".."
    /\ \A i, j \in DOMAIN t.mappings :
          t.mappings[i].remote = t.mappings[j].remote \/ t.mappings[i].local = t.mappings[j].local
             => i = j
    /\ {m.remote : m \in Mappings(t)} = NameSet(t.type)
    /\ t.policy.serverNames # {} => t.type = "tls-server"

(* The directories below a release that the mappings need.                 *)
Parents(t) ==
    UNION {{SubSeq(m.local, 1, n) : n \in 1..Len(m.local) - 1} : m \in Mappings(t)}

(* The files of a release; as many as they should be when no two of them,  *)
(* the digest file included, have one path.                                *)
LocalPaths(t) == {m.local : m \in Mappings(t)} \cup {MarkerPath}
Distinct(t) == Cardinality(LocalPaths(t)) = Len(t.mappings) + 1

(* ensureRelease can create every file: none is a directory of another,    *)
(* none is the digest file.                                                *)
Writable(t) == Distinct(t) /\ LocalPaths(t) \cap Parents(t) = {}

(* Mutant: nested directories get a mode of their own. *)
DefaultDirMode(t, umask) == Who \ umask

DirModeOf(t, umask) == t.dirMode \ umask
FileModeOf(m, umask) == m.mode \ umask

(* The tree that writeReleaseFile builds: created modes pass the umask,    *)
(* the staging directory itself is given its mode with chmod.              *)
Written(t, files, digest, umask) ==
    [mode |-> t.dirMode,
     files |-> {Entry(m.local, FileModeOf(m, umask), PemText(files[m.remote])) : m \in Mappings(t)}
               \cup {Entry(MarkerPath, MarkerMode \ umask, DigestLine(digest))},
     dirs |-> {[path |-> p, mode |-> DirModeOf(t, umask)] : p \in Parents(t)}]

(* Mutant: the digest file alone is believed. *)
DigestOnly(tree, t, files, digest) ==
    Entry(MarkerPath, MarkerMode, DigestLine(digest)) \in tree.files

(* verifyRelease: the expected entries with their exact modes; then every  *)
(* entry that is there is one of these, and they are counted.              *)
Verifies(tree, t, files, digest) ==
    /\ Entry(MarkerPath, MarkerMode, DigestLine(digest)) \in tree.files
    /\ \A m \in Mappings(t) : Entry(m.local, m.mode, PemText(files[m.remote])) \in tree.files
    /\ Distinct(t)
    /\ \A f \in tree.files : f.path \in LocalPaths(t)
    /\ Cardinality(tree.files) = Len(t.mappings) + 1
    /\ tree.mode = t.dirMode
    /\ \A d \in tree.dirs : d.path \in Parents(t) /\ d.mode = t.dirMode
=============================================================================
