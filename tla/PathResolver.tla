---------------------------- MODULE PathResolver ----------------------------
(***************************************************************************)
(* CloudPath and ProviderId of cloudsync-core (types.rs) and PathResolver  *)
(* of cloudsync-ipc.  A cloud path is the sequence of its parts between    *)
(* slashes behind the first one, empty and "." parts included; the root is *)
(* the empty sequence.  A local path is a sequence of names, a name the    *)
(* sequence of its parts between backslashes (nearly always one part),     *)
(* which CloudPath::new turns into slashes.                                *)
(***************************************************************************)
EXTENDS Integers, Sequences, FiniteSets, SequencesExt

ProviderId == {"GoogleDrive", "Dropbox", "OneDrive"}

\* ProviderId::as_str, the folder of a provider below the sync root.
as_str(provider) ==
    CASE provider = "GoogleDrive" -> <<"gdrive">>
      [] provider = "Dropbox" -> <<"dropbox">>
      [] provider = "OneDrive" -> <<"onedrive">>

\* ProviderId::from_slug; an unknown slug is None.
from_slug(slug) ==
    LET found == {p \in ProviderId : as_str(p) = slug}
    IN  IF found = {} THEN "None" ELSE CHOOSE p \in found : TRUE

-----------------------------------------------------------------------------
(* CloudPath                                                               *)

\* The part, or name, without a character.
Empty == "(empty)"

Root == <<>>
is_root(path) == path = Root

\* One empty part behind the first slash is the root.
OfParts(parts) == IF parts = <<Empty>> THEN Root ELSE parts

\* CloudPath::new, of a relative or absolute path of names.
CloudPath(names) == OfParts(FlattenSeq(names))

\* trim_end_matches('/') and trim_start_matches('/')
TrimEnd(parts) == SubSeq(parts, 1, Max({0} \cup {i \in DOMAIN parts : parts[i] # Empty}))
TrimStart(parts) == Reverse(TrimEnd(Reverse(parts)))

\* CloudPath::parent and file_name; the root has neither.
parent(path) ==
    IF is_root(path) THEN "None"
    ELSE IF TrimEnd(path) = <<>> THEN Root ELSE OfParts(Front(TrimEnd(path)))
file_name(path) ==
    IF is_root(path) THEN "None"
    ELSE IF TrimEnd(path) = <<>> THEN Empty ELSE Last(TrimEnd(path))

\* CloudPath::join, with a component that may hold slashes itself.
join(path, component) ==
    LET c == TrimStart(component)
    IN  OfParts(TrimEnd(path) \o IF c = <<>> THEN <<Empty>> ELSE c)

-----------------------------------------------------------------------------
(* PathResolver                                                            *)

\* Path::components, by which a Path is compared and stripped: neither empty names nor
\* "." count, so the kth component is the kth of the other names.
Ignored == {<<Empty>>, <<".">>}
components(names) ==
    LET kept == {i \in DOMAIN names : names[i] \notin Ignored}
    IN  [k \in 1..Cardinality(kept) |->
            names[CHOOSE i \in kept : Cardinality(kept \cap 1..i) = k]]

\* PathResolver::resolve_local: strip the sync root, take the first component for the
\* provider and the rest for the cloud path.  The sync root is given by components.
resolve_local(sync_root, local) ==
    LET names == components(local)
        n == Len(sync_root)
    IN  IF ~ IsPrefix(sync_root, names) \/ Len(names) = n
        THEN [inside |-> FALSE]
        ELSE [inside |-> TRUE, provider_slug |-> names[n + 1],
              cloud_path |-> CloudPath(SubSeq(names, n + 2, Len(names)))]

\* PathResolver::to_local, by the components of the path it returns.
to_local(sync_root, slug, path) ==
    components(sync_root \o <<slug>> \o [i \in 1..Len(path) |-> <<path[i]>>])

\* Cloud paths without the parts that a local path does not keep.
Proper(path) == \A i \in DOMAIN path : path[i] \notin {Empty, "."}
=============================================================================
