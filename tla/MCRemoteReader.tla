---------------------------- MODULE MCRemoteReader ----------------------------
(* Small instances of RemoteReader for TLC. *)
EXTENDS RemoteReader

\* A descriptor with a URL to try first and one of a scheme that is skipped.
UrlsMixed == <<"other", "web">>

\* docker.ConfigureDefaultRegistries gives one host, with all capabilities.
HostsDefault == <<TRUE>>
=============================================================================
