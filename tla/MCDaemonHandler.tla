-------------------------- MODULE MCDaemonHandler ---------------------------
(* Instances of DaemonHandler for TLC.                                     *)
EXTENDS DaemonHandler, TLC

CONSTANTS d1, m1, m2, a1, a2, f1, f2, me, other

MCSyncRoot == <<<<"UniCloudST">>>>
\* Of the file x, with names that Path::components leaves out; and one that is not below
\* the sync root.
MCLocals == {MCSyncRoot \o <<<<Empty>>, <<"gdrive">>, <<".">>, <<"x">>>>,
             <<<<"elsewhere">>>>}

Symmetry == Permutations(MountTasks) \cup Permutations(Emails) \cup Permutations({f1, f2})

\* Files by the names x and ".", whole, without a name or trashed; changes with and
\* without them.
DriveFiles(id) ==
    {[id |-> id, name |-> <<n>>, modifiedTime |-> 1] : n \in {"x", "."}}
        \cup {[id |-> id, modifiedTime |-> 1],
              [id |-> id, name |-> <<"x">>, modifiedTime |-> 1, trashed |-> TRUE]}
MCDriveChanges ==
    UNION {{[fileId |-> id, removed |-> r, file |-> {f}] : r \in BOOLEAN, f \in DriveFiles(id)}
            \cup {[fileId |-> id, removed |-> r, file |-> {}] : r \in BOOLEAN} : id \in {f1, f2}}
    \cup {[removed |-> FALSE, file |-> {}]}

-----------------------------------------------------------------------------
(* CloudPath and PathResolver on all paths of up to three parts.           *)

Parts == {"docs", "report.pdf", ".", Empty}
CloudPaths == UNION {[1..n -> Parts] : n \in 0..3} \ {<<Empty>>}
Slugs == {as_str(p) : p \in ProviderId}

\* What is resolved is what to_local was given, but for the parts that local paths do
\* not keep: a cloud path that has any is not found again.
ASSUME RoundTrip ==
    /\ \A s \in Slugs, c \in CloudPaths :
        LET r == resolve_local(MCSyncRoot, to_local(MCSyncRoot, s, c))
        IN  /\ r.inside /\ r.provider_slug = s
            /\ r.cloud_path = SelectSeq(c, LAMBDA part : part \notin {Empty, "."})
            /\ r.cloud_path = c <=> Proper(c)
    /\ ~ resolve_local(MCSyncRoot, MCSyncRoot).inside

\* A local name with a backslash is found at the path that CloudPath::new made of it,
\* but that path leads back to another local path.
ASSUME Backslash ==
    LET local == MCSyncRoot \o <<<<"gdrive">>, <<"docs", ".", "report.pdf">>>>
        r == resolve_local(MCSyncRoot, local)
    IN  /\ r.cloud_path = CloudPath(<<<<"docs", ".", "report.pdf">>>>)
        /\ to_local(MCSyncRoot, r.provider_slug, r.cloud_path) # components(local)

\* parent and file_name take apart what join puts together, but for slashes at the end
\* of the path and at the beginning of the component.
ASSUME Joined ==
    \A c \in CloudPaths, n \in Parts \ {Empty} :
        /\ parent(join(c, <<n>>)) = OfParts(TrimEnd(c))
        /\ file_name(join(c, <<n>>)) = n
        /\ join(c, <<Empty, n>>) = join(c, <<n>>)

\* Slugs, and the names in the database, name the providers one to one.
ASSUME ProviderNames == \A p \in ProviderId : from_slug(as_str(p)) = p /\ FromRow(DbName(p)) = p

\* The states of files, too.
ASSUME StateNames == \A s \in FileState : FileOfRow(ToRow([state |-> s])) = [state |-> s]

\* Every file with content of its own is downloaded, every other one has a page; a
\* folder has one too, the viewer's.
ASSUME WebUrls ==
    \A m \in {<<"google-apps", "document">>, <<"google-apps", "map">>, Folder, NoType,
              <<"image", "png">>} :
        /\ (build_web_url("id", m) = <<>>) = ~ is_cloud_native(m)
        /\ file_to_cloud_item([id |-> "id", name |-> <<"n">>, mimeType |-> m]).is_folder
             => build_web_url("id", m) = <<"viewer", "id">>
=============================================================================
