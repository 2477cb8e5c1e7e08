--------------------------- MODULE MCTokenStorage ---------------------------
(* Instances of TokenStorage for TLC.                                      *)
EXTENDS TokenStorage, TLC

CONSTANTS t1, t2

Symmetry == Permutations(Tasks)

\* The scopes that every client asks for, and one of them alone.
Full == default_gdrive("id", "secret").scopes
MCScopeSets == {Full, {"drive.file"}}

\* scopes_covered_by, on the cases of its tests: exact, superset, missing scope.
ASSUME CoversCases ==
    Covers(Full, Full) /\ Covers(Full, {"drive.file"}) /\ ~ Covers({"drive.file"}, Full)

\* A configuration survives the secrets file up to its scopes, which are the same for
\* all; a file without redirect URIs gets the default one.
ASSUME SecretFile ==
    /\ \A r \in {Localhost, "http://localhost:9000"} :
        LET c == OAuthConfig("id", "secret", r, {"drive"})
        IN  from_secret_file(to_application_secret(c)) = [c EXCEPT !.scopes = Full]
    /\ LET s == [client_id |-> "id", client_secret |-> "secret", redirect_uris |-> <<>>]
       IN  from_secret_file(s) = default_gdrive("id", "secret")

\* The client of the daemon and of the examples never uses SecureTokenStorage.
ASSUME ClientStorage ==
    \A p \in BOOLEAN :
        LET client == GoogleDriveClient(default_gdrive("id", "secret"), p)
        IN  client.storage \notin Backends /\ client.scopes \in ScopeSets
=============================================================================
