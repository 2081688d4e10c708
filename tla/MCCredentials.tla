---------------------------- MODULE MCCredentials ----------------------------
(* Credentials with every way the client may be configured, for TLC. *)
EXTENDS Credentials

\* The captcha's mode matters on the legacy path only.
AllConfigurations ==
    {<<"auto_js", "auto">>, <<"vkcalls", "auto">>} \union ({"legacy"} \X {"wv", "rjs", "auto"})
=============================================================================
