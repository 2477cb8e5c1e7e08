-------------------------------- MODULE OAuth -------------------------------
(***************************************************************************)
(* OAuthConfig and OAuthAuthenticatorBuilder of cloudsync-providers        *)
(* (oauth.rs) and GoogleDriveClient::new (client.rs): what the             *)
(* authenticator is asked for, and where it keeps its tokens.              *)
(***************************************************************************)
EXTENDS Sequences

None == "none"
Localhost == "http://localhost:8080"

OAuthConfig(id, secret, redirect, scopes) ==
    [client_id |-> id, client_secret |-> secret, redirect_uri |-> redirect, scopes |-> scopes]

\* OAuthConfig::default_gdrive
default_gdrive(id, secret) ==
    OAuthConfig(id, secret, Localhost, {"drive.file", "drive.metadata.readonly"})

\* OAuthConfig::to_application_secret; the URIs of Google are left out.
to_application_secret(config) ==
    [client_id |-> config.client_id, client_secret |-> config.client_secret,
     redirect_uris |-> <<config.redirect_uri>>]

\* OAuthConfig::from_secret_file, of what the file holds
from_secret_file(secret) ==
    [default_gdrive(secret.client_id, secret.client_secret) EXCEPT
        !.redirect_uri = IF secret.redirect_uris = <<>> THEN @ ELSE Head(secret.redirect_uris)]

\* OAuthAuthenticatorBuilder::build: a custom storage wins over a token cache path.
Build(custom, cachePath) ==
    IF custom # None THEN custom ELSE IF cachePath THEN "Disk" ELSE "Memory"

\* GoogleDriveClient::new: the builder is given no custom storage.
GoogleDriveClient(config, cachePath) ==
    [scopes |-> config.scopes, storage |-> Build(None, cachePath)]
=============================================================================
