--------------------------- MODULE MCExampleService ---------------------------
(***************************************************************************)
(* An instance of ExampleService for TLC.                                  *)
(***************************************************************************)
EXTENDS ExampleService

Ends == <<Version, CRLF>>

Deploy == <<Word("POST"), Word("/v1/deploy-bundle")>>

\* Deployments with all their parameters, the second longer than the buffer, and
\* with one missing or undecodable; the health check with another request after
\* it, and another method.
SomeRequests ==
    { Deploy \o <<Param("user", "u"), Param("quadletPath", "q")>> \o Ends,
      Deploy \o <<Param("user", "u"), Param("quadletPath", "q"), Param("restart", "false")>> \o Ends,
      Deploy \o <<Param("user", "u")>> \o Ends,
      Deploy \o <<BadEscape>> \o Ends,
      <<Word("GET"), Word("/healthz")>> \o Ends \o Deploy,
      <<Word("GET"), Word("/v1/deploy-bundle")>> \o Ends }
===============================================================================
