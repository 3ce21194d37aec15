----------------------------- MODULE MCGateway ------------------------------
(* A small instance of Gateway for TLC. *)
EXTENDS Gateway

\* A raw request whose client nominates headers, among them those of the gateway.
MCHeaders ==
    {[names |-> {"connection", "x-nominated", "content-type"},
      connection_nominated |-> {"authorization", "host", "x-nominated"},
      host |-> "other", bearer |-> token] : token \in {"gate", "other"}}

NoTokens == [gateway_token |-> None, api_token |-> None, file_gateway_token |-> None,
             file_api_token |-> None, wildcard |-> FALSE, mock |-> FALSE]

\* With the environment before the file, with the file alone, and for
\* development without an agent.
MCStartups ==
    {[NoTokens EXCEPT !.gateway_token = "gate", !.file_gateway_token = "other",
                      !.api_token = "secret", !.file_api_token = "stale"],
     [NoTokens EXCEPT !.file_gateway_token = "other", !.file_api_token = "secret"],
     [NoTokens EXCEPT !.mock = TRUE]}
=============================================================================
