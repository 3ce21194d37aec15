------------------------------- MODULE Gateway ------------------------------
(***************************************************************************)
(* edge-gateway in front of edge-agent: browsers of operators send forms   *)
(* and open pages, other clients send raw requests to /api, and for each   *)
(* of them a handler of the gateway exchanges one request after another    *)
(* with the agent over its Unix socket.  Both processes may stop at any    *)
(* moment, a client may go away while its handler runs, and the request it *)
(* leaves on the socket may be cancelled halfway or still take effect.     *)
(*                                                                         *)
(* What clients ask for is numbered, and followed to its end, also when    *)
(* the client is gone.  A step of a gateway handler is what it does        *)
(* between two awaits.  Of a handler of the agent three moments are seen:  *)
(* that it begins to change something, that it has done everything it was  *)
(* asked for and answers, and that it fails before or in between.  (What   *)
(* it changes is in SqliteStore, Reconciler and OciLifecycle, as are       *)
(* commands that outlive the handler that started them.)                   *)
(***************************************************************************)
EXTENDS Integers, Sequences

CONSTANTS
    None,
    Forms,         \* what browsers ask for with forms
    RawRequests,   \* what other clients ask for
    Pages,         \* the pages browsers open
    ClientHeaders, \* the headers of raw requests
    AgentToken,    \* api_token of the agent, None with --allow-no-auth
    Startups,      \* arguments, environment and file the gateway is started with
    MaxRequests,   \* bound on forms, pages and raw requests
    MaxRestarts    \* bound on the ends of the agent and of the gateway

Number == 1 .. MaxRequests

\* Header names, in the classes rewrite_headers tells apart.  Host and the
\* bearer token have fields of their own.
hop_by_hop_headers == {"connection", "te"}
HeaderName == hop_by_hop_headers \cup {"x-nominated", "content-type"}

HeaderType == [names: SUBSET HeaderName,
               connection_nominated: SUBSET (HeaderName \cup {"host", "authorization"}),
               host: {"edge-agent", "other", None}, bearer: STRING \cup {None}]

\* The routes of the agent: those a form stands for, and those that are only read.
mapping_forms == {"create", "enable", "disable", "delete"}
oracle_forms == {"allocate", "release", "nsg_add", "nsg_remove", "vnic_check", "public_ips"}
Action == mapping_forms \cup oracle_forms \cup {"reconcile", "dry_run"}
Get == {"status", "mappings", "topology", "events", "analytics", "netbird", "networks",
        "oci_status"}

Startup == [gateway_token: STRING \cup {None}, api_token: STRING \cup {None},
            file_gateway_token: STRING \cup {None}, file_api_token: STRING \cup {None},
            wildcard: BOOLEAN, mock: BOOLEAN]

Page == {"dashboard", "mappings", "reconcile", "topology", "oracle", "tools", "netbird",
         "events", "raw", "error"}

ASSUME RequestsAssumption == Forms \subseteq Action /\ RawRequests \subseteq Action \cup Get

\* A raw request is no page to open, nor is an error.
ASSUME PagesAssumption == Pages \subseteq Page \ {"raw", "error"}

ASSUME HeadersAssumption == ClientHeaders \subseteq HeaderType

ASSUME StartupsAssumption == Startups \subseteq Startup

ASSUME BoundsAssumption == MaxRequests \in Nat /\ MaxRestarts \in Nat

ASSUME NoneIsNoString ==
    None \notin STRING /\ None \notin {"before", "after"} /\ None \notin HeaderType \cup Startup

VARIABLES
    gateway,   \* what the running gateway was started with, or None
    up,        \* whether the agent listens
    handlers,  \* the gateway's handler for each client's request
    wire,      \* its exchange with the agent, which it may leave behind
    begun,     \* history: how often the agent began to carry a request out
    finished,  \* history: the requests the agent carried out completely
    restarts

vars == <<gateway, up, handlers, wire, begun, finished, restarts>>
history == <<begun, finished>>
processes == <<gateway, up, restarts>>

Outcome == {"none", "ok", "failed"}

\* Whether a list of mappings was read before or after the client's own
\* request had been carried out.
Listing == {"before", "after", None}

Handler == [pc: {"none", "tool", "act", "fetch", "answer", "answered", "gone"},
            page: Page,                   \* what it answers with in the end
            i: 1 .. 6,                    \* the next request of that page
            result: Outcome,              \* how its action ended
            listing: Listing,             \* the mappings it has read
            bearer: STRING \cup {None}]   \* the client's token on a raw request

Exchange == [at: {"none", "request", "working", "mock", "response"},
             op: Action \cup Get \cup {"none"}, headers: HeaderType \cup {None},
             ok: BOOLEAN, listing: Listing]

Fresh == [pc |-> "none", page |-> "error", i |-> 1, result |-> "none", listing |-> None,
          bearer |-> None]

Silent == [at |-> "none", op |-> "none", headers |-> None, ok |-> FALSE, listing |-> None]

Waits(n) == handlers[n].pc \in {"act", "fetch"}

(***************************************************************************)
(* Types, and that a handler that waits for the agent has an exchange to   *)
(* be answered on.                                                         *)
(***************************************************************************)
TypeOK ==
    /\ gateway \in Startup \cup {None} /\ up \in BOOLEAN
    /\ handlers \in [Number -> Handler] /\ wire \in [Number -> Exchange]
    /\ begun \in [Number -> Nat] /\ finished \subseteq Number
    /\ restarts \in 0 .. MaxRestarts
    /\ \A n \in Number : Waits(n) => wire[n].at # "none"

Init ==
    /\ gateway = None /\ up = TRUE
    /\ handlers = [n \in Number |-> Fresh] /\ wire = [n \in Number |-> Silent]
    /\ begun = [n \in Number |-> 0] /\ finished = {}
    /\ restarts = 0

-----------------------------------------------------------------------------
(* main.rs: tokens and headers. *)

or_else(value, fallback) == IF value # None THEN value ELSE fallback

\* Mutant of load_tokens: the file is asked first.
load_tokens_file(s) ==
    [gateway_token |-> or_else(s.file_gateway_token, s.gateway_token),
     api_token |-> or_else(s.file_api_token, s.api_token)]

load_tokens(s) ==
    [gateway_token |-> or_else(s.gateway_token, s.file_gateway_token),
     api_token |-> or_else(s.api_token, s.file_api_token)]

\* The gateway comes up, unless it was given a wildcard address, an empty
\* token, or no token for the agent in a build without the mock feature.
GatewayStart(s) ==
    LET tokens == load_tokens(s) IN
    /\ gateway = None
    /\ ~s.wildcard
    /\ "" \notin {tokens.gateway_token, tokens.api_token}
    /\ tokens.api_token = None => s.mock
    /\ gateway' = s
    /\ UNCHANGED <<up, restarts, handlers, wire, history>>

api_token == load_tokens(gateway).api_token

require_gateway_auth(headers) ==
    LET expected == load_tokens(gateway).gateway_token IN
    expected # None => headers.bearer = expected

\* Mutant of rewrite_headers: the nominated headers are removed last.
rewrite_headers_last(h, token) ==
    [h EXCEPT !.names = (@ \ hop_by_hop_headers) \ h.connection_nominated,
              !.host = IF "host" \in h.connection_nominated THEN None ELSE "edge-agent",
              !.bearer = IF "authorization" \in h.connection_nominated THEN None ELSE token]

\* Host and Authorization are the gateway's, whatever the client sent.
rewrite_headers(h, token) ==
    [h EXCEPT !.names = (@ \ hop_by_hop_headers) \ h.connection_nominated,
              !.host = "edge-agent", !.bearer = token]

NoHeaders == [names |-> {}, connection_nominated |-> {}, host |-> None, bearer |-> None]

-----------------------------------------------------------------------------
(* agent.rs and the pages of ui.rs: the requests of a handler. *)

\* On its way to the agent, or to the mock store when there is no token.
send_raw(op, headers) ==
    IF api_token = None
    THEN [Silent EXCEPT !.at = "mock", !.op = op]
    ELSE [Silent EXCEPT !.at = "request", !.op = op,
                        !.headers = rewrite_headers(headers, api_token)]

get_json(get) == send_raw(get, NoHeaders)

\* Mutant of decode_json: the status is not looked at.
decode_any(e) == {TRUE}

\* Anything but a success status is an error to the caller, and so is a body
\* it cannot make sense of.
decode_json(e) == IF e.ok THEN BOOLEAN ELSE {FALSE}

\* The ruleset is taken as text, and a raw answer passed on as it is.
decode(h, e) == IF h.page = "raw" \/ e.op = "dry_run" THEN {e.ok} ELSE decode_json(e)

\* The requests of a page.  `?` makes the first one necessary; the others may
\* fail (unwrap_or_default, ok).
markup(page) ==
    CASE page = "dashboard" -> <<"status", "mappings", "events", "netbird", "networks">>
      [] page = "mappings"  -> <<"mappings", "topology">>
      [] page = "topology"  -> <<"topology">>
      [] page = "oracle"    -> <<"oci_status", "mappings">>
      [] page = "tools"     -> <<"status", "mappings", "networks">>
      [] page = "netbird"   -> <<"netbird", "networks">>
      [] page = "events"    -> <<"events">>
      [] OTHER              -> <<>>

\* Handler n becomes h and goes on with the next request of its page, or
\* answers with the page.
Continue(n, h) ==
    IF h.i <= Len(markup(h.page))
    THEN /\ handlers' = [handlers EXCEPT ![n] = [h EXCEPT !.pc = "fetch"]]
         /\ wire' = [wire EXCEPT ![n] = get_json(markup(h.page)[h.i])]
    ELSE /\ handlers' = [handlers EXCEPT ![n] = [h EXCEPT !.pc = "answer"]]
         /\ wire' = [wire EXCEPT ![n] = Silent]

\* render_result of an error: a card instead of the page.
error_card(n) ==
    /\ handlers' = [handlers EXCEPT ![n] = [Fresh EXCEPT !.pc = "answer"]]
    /\ wire' = [wire EXCEPT ![n] = Silent]

-----------------------------------------------------------------------------
(* How a handler begins. *)

Ask(n) ==
    /\ gateway # None
    /\ handlers[n].pc = "none" /\ \A m \in 1 .. n - 1 : handlers[m].pc # "none"
    /\ UNCHANGED <<history, processes>>

Act(n, h, op, headers) ==
    /\ handlers' = [handlers EXCEPT ![n] = [h EXCEPT !.pc = "act"]]
    /\ wire' = [wire EXCEPT ![n] = send_raw(op, headers)]

\* The pages that have a form for this.
FormPages(op) ==
    CASE op \in mapping_forms -> {"mappings"}
      [] op \in oracle_forms  -> {"oracle"}
      [] OTHER                -> {"reconcile", "tools"}

\* A form is sent: what it asks for goes to the agent before the page is read.
submit(n, op, page) ==
    /\ Ask(n)
    /\ page \in FormPages(op)
    /\ Act(n, [Fresh EXCEPT !.page = page], op, NoHeaders)

\* clean_port, clean_interface, clean_tcpdump_filter or the parser of an
\* address refuses a field, or to_bytes a body that is too long.
refuse_form(n) == Ask(n) /\ error_card(n)

open_page(n, page) == Ask(n) /\ Continue(n, [Fresh EXCEPT !.page = page])

\* ping, port test and tcpdump run on the gateway's machine ...
run_tool(n) ==
    /\ Ask(n)
    /\ handlers' = [handlers EXCEPT ![n] = [Fresh EXCEPT !.pc = "tool", !.page = "tools"]]
    /\ UNCHANGED wire

\* ... and end by themselves or by the timeout.
tool_ends(n) ==
    /\ handlers[n].pc = "tool"
    /\ error_card(n) \/ Continue(n, handlers[n])
    /\ UNCHANGED <<history, processes>>

proxy(n, op, headers) ==
    /\ Ask(n)
    /\ IF require_gateway_auth(headers)
       THEN Act(n, [Fresh EXCEPT !.page = "raw", !.bearer = headers.bearer], op, headers)
       ELSE error_card(n)

-----------------------------------------------------------------------------
(* How a handler goes on when its request is answered. *)

\* proxy passes on what it got; the forms of the Oracle page keep an error to
\* show it there; the other forms end with it.
after_action(n) ==
    LET h == handlers[n] IN
    /\ h.pc = "act" /\ wire[n].at = "response"
    /\ \E ok \in decode(h, wire[n]) :
         IF ok \/ h.page \in {"raw", "oracle"}
         THEN Continue(n, [h EXCEPT !.result = IF ok THEN "ok" ELSE "failed"])
         ELSE error_card(n)
    /\ UNCHANGED <<history, processes>>

\* Mutant of after_get: unwrap_or_default on every request.
after_get_lenient(n) ==
    LET h == handlers[n] IN
    /\ h.pc = "fetch" /\ wire[n].at = "response"
    /\ Continue(n, [h EXCEPT !.i = @ + 1, !.listing = or_else(wire[n].listing, @)])
    /\ UNCHANGED <<history, processes>>

after_get(n) ==
    LET h == handlers[n] IN
    /\ h.pc = "fetch" /\ wire[n].at = "response"
    /\ \E ok \in decode_json(wire[n]) :
         IF h.i = 1 /\ ~ok
         THEN error_card(n)
         ELSE Continue(n, [h EXCEPT !.i = @ + 1,
                                    !.listing = IF ok THEN or_else(wire[n].listing, @) ELSE @])
    /\ UNCHANGED <<history, processes>>

\* The answer reaches the client.
deliver(n) ==
    /\ handlers[n].pc = "answer"
    /\ handlers' = [handlers EXCEPT ![n] = [Fresh EXCEPT !.pc = "answered"]]
    /\ UNCHANGED <<wire, history, processes>>

-----------------------------------------------------------------------------
(* api.rs: the agent takes a request from the socket and answers it. *)

require_auth(n) == AgentToken # None => wire[n].headers.bearer = AgentToken

\* An answer without a handler to read it is dropped.
Reply(n, ok, listing) ==
    wire' = [wire EXCEPT ![n] =
               IF Waits(n) THEN [@ EXCEPT !.at = "response", !.ok = ok, !.listing = listing]
               ELSE Silent]

\* The handlers that may fail when they have changed something already: they
\* make several changes, or read the row back, or run a command that does its
\* work and ends with an error.
StepByStep == Action \ {"create", "dry_run", "vnic_check", "public_ips"}

\* Nothing may come of a request: no token or a wrong one, no word of
\* confirmation, a mapping that is unknown or not accepted, a command that
\* fails.  Some handlers fail halfway.
api_error(n) ==
    /\ up
    /\ \/ wire[n].at = "request"
       \/ wire[n].at = "working" /\ wire[n].op \in StepByStep
    /\ Reply(n, FALSE, None)
    /\ UNCHANGED <<handlers, history, processes>>

Age(n) == IF n \in finished THEN "after" ELSE "before"

Listed(n) == IF wire[n].op = "mappings" THEN Age(n) ELSE None

\* Requests that are only read.  (They count when they are the client's own.)
api_get(n) ==
    /\ up /\ wire[n].at = "request" /\ wire[n].op \in Get
    /\ require_auth(n)
    /\ Reply(n, TRUE, Listed(n))
    /\ IF handlers[n].pc = "act"
       THEN begun' = [begun EXCEPT ![n] = @ + 1] /\ finished' = finished \cup {n}
       ELSE UNCHANGED history
    /\ UNCHANGED <<handlers, processes>>

\* The first of the changes a request asks for is made ...
carry_out(n) ==
    /\ up /\ wire[n].at = "request" /\ wire[n].op \in Action
    /\ require_auth(n)
    /\ begun' = [begun EXCEPT ![n] = @ + 1]
    /\ wire' = [wire EXCEPT ![n].at = "working"]
    /\ UNCHANGED <<finished, handlers, processes>>

\* ... and the last one, whereupon the handler answers.
complete(n) ==
    /\ up /\ wire[n].at = "working"
    /\ finished' = finished \cup {n}
    /\ Reply(n, TRUE, None)
    /\ UNCHANGED <<begun, handlers, processes>>

AgentStep(n) == api_error(n) \/ api_get(n) \/ carry_out(n) \/ complete(n)

-----------------------------------------------------------------------------
(* mock.rs: the mock store answers under its lock, in one step. *)

\* Mappings are stored and changed, unless one is not found or its body makes
\* no sense.
handle_mapping_action(n) ==
    /\ wire[n].at = "mock" /\ wire[n].op \in mapping_forms
    /\ \/ Reply(n, FALSE, None) /\ UNCHANGED history
       \/ /\ Reply(n, TRUE, None)
          /\ begun' = [begun EXCEPT ![n] = @ + 1] /\ finished' = finished \cup {n}

\* Everything else is a fixture, and changes nothing.
mock_fixture(n) ==
    /\ wire[n].at = "mock" /\ wire[n].op \notin mapping_forms
    /\ Reply(n, TRUE, Listed(n))
    /\ UNCHANGED history

mock_handle(n) ==
    /\ handle_mapping_action(n) \/ mock_fixture(n)
    /\ UNCHANGED <<handlers, processes>>

-----------------------------------------------------------------------------
(* Failures. *)

\* Mutant of connect_fails: it waits for the agent.
connect_waits(n) == ~up /\ wire[n].at = "request" /\ UNCHANGED vars

\* Mutant of connect_fails: the gateway also gives up on an agent that is slow.
connect_gives_up(n) ==
    /\ Waits(n) /\ wire[n].at \in {"request", "working"}
    /\ handlers' = [handlers EXCEPT ![n] = [Fresh EXCEPT !.pc = "answer"]]
    /\ wire' = IF up THEN wire ELSE [wire EXCEPT ![n] = Silent]
    /\ UNCHANGED <<history, processes>>

\* Nobody listens on the socket.
connect_fails(n) ==
    /\ ~up /\ wire[n].at = "request"
    /\ Reply(n, FALSE, None)
    /\ UNCHANGED <<handlers, history, processes>>

\* Mutant of AgentCrash: what the agent had begun is sent again.
AgentCrashResend ==
    /\ up /\ up' = FALSE
    /\ restarts < MaxRestarts /\ restarts' = restarts + 1
    /\ wire' = [n \in Number |-> IF ~Waits(n) THEN Silent
                                 ELSE IF wire[n].headers = None THEN wire[n]
                                 ELSE [wire[n] EXCEPT !.at = "request"]]
    /\ UNCHANGED <<gateway, handlers, history>>

\* Mutant of AgentCrash: the handler of a request the agent had begun is forgotten.
AgentCrashSilent ==
    /\ up /\ up' = FALSE
    /\ restarts < MaxRestarts /\ restarts' = restarts + 1
    /\ wire' = [n \in Number |-> IF wire[n].at = "working" THEN Silent ELSE wire[n]]
    /\ UNCHANGED <<gateway, handlers, history>>

\* The agent stops: the connections are reset, with what it was working on
\* and perhaps with answers on their way.  The gateway's client sends a
\* request again only when it was not written yet.
AgentCrash ==
    /\ up /\ up' = FALSE
    /\ restarts < MaxRestarts /\ restarts' = restarts + 1
    /\ \E lost \in SUBSET {n \in Number : wire[n].at \in {"request", "working", "response"}} :
         /\ {n \in Number : wire[n].at = "working"} \subseteq lost
         /\ wire' = [n \in Number |->
                       IF ~Waits(n) THEN Silent
                       ELSE IF n \notin lost THEN wire[n]
                       ELSE [wire[n] EXCEPT !.at = "response", !.ok = FALSE, !.listing = None]]
    /\ UNCHANGED <<gateway, handlers, history>>

AgentStart ==
    /\ ~up /\ up' = TRUE
    /\ UNCHANGED <<gateway, restarts, handlers, wire, history>>

\* The handlers of some clients are dropped: what they have on the socket is
\* gone too, or left behind for the agent.  (Of what is only read nothing
\* can come any more.)
Drop(N) ==
    /\ handlers' = [n \in Number |-> IF n \in N THEN [Fresh EXCEPT !.pc = "gone"]
                                     ELSE handlers[n]]
    /\ \E left \in SUBSET {n \in N : up /\ wire[n].at \in {"request", "working"}
                                        /\ wire[n].op \in Action} :
         wire' = [n \in Number |-> IF n \in N \ left THEN Silent ELSE wire[n]]
    /\ UNCHANGED history

\* A client goes away.  (A handler that waits for nothing but the mock store
\* is never interrupted.)
Leave(n) ==
    /\ handlers[n].pc \in {"tool", "act", "fetch"} /\ wire[n].at # "mock"
    /\ Drop({n})
    /\ UNCHANGED processes

GatewayCrash ==
    /\ gateway # None /\ gateway' = None
    /\ restarts < MaxRestarts /\ restarts' = restarts + 1
    /\ Drop({n \in Number : handlers[n].pc \in {"tool", "act", "fetch", "answer"}})
    /\ UNCHANGED up

\* The agent notices that the connection is closed, and stops where it is.
cancel(n) ==
    /\ handlers[n].pc = "gone" /\ wire[n] # Silent
    /\ wire' = [wire EXCEPT ![n] = Silent]
    /\ UNCHANGED <<handlers, history, processes>>

-----------------------------------------------------------------------------
Begin(n) ==
    \/ \E op \in Forms, page \in Page : submit(n, op, page)
    \/ \E op \in RawRequests, headers \in ClientHeaders : proxy(n, op, headers)
    \/ refuse_form(n)
    \/ \E page \in Pages : open_page(n, page)
    \/ run_tool(n)

HandlerStep(n) ==
    tool_ends(n) \/ after_action(n) \/ after_get(n) \/ connect_fails(n) \/ deliver(n)

Next ==
    \/ \E s \in Startups : GatewayStart(s)
    \/ \E n \in Number : \/ Begin(n) \/ HandlerStep(n) \/ mock_handle(n) \/ Leave(n)
                         \/ AgentStep(n) \/ cancel(n)
    \/ AgentCrash \/ AgentStart \/ GatewayCrash

Spec == Init /\ [][Next]_vars

\* The handlers of the agent that run a command without a timeout (netbird).
Untimed == {"netbird", "networks"}

(***************************************************************************)
(* The tasks of both processes go on: the runtime polls a handler that can *)
(* go on, and the handlers of the agent end because the commands they run  *)
(* (nft, ip, oci, the health checks) have timeouts.  netbird has none, so  *)
(* nothing is assumed of the handlers that run it.  Nothing is assumed of  *)
(* restarts either: the agent may stay down.                               *)
(***************************************************************************)
Fairness ==
    \A n \in Number :
        /\ WF_vars(HandlerStep(n) \/ mock_handle(n))
        /\ WF_vars(AgentStep(n) /\ wire[n].op \notin Untimed)

FairSpec == Spec /\ Fairness

-----------------------------------------------------------------------------
(* Properties *)

(***************************************************************************)
(* Whatever becomes of a client and of its handler, what it asked for is   *)
(* begun at most once: not by a handler of the gateway that sends it       *)
(* again, nor by what is left on the socket, though the agent may stop     *)
(* between the work and the answer.                                        *)
(***************************************************************************)
AtMostOnce == \A n \in Number : begun[n] <= 1

\* The gateway talks to an agent, not to the mock store.
HasAgent == gateway.api_token # None \/ gateway.file_api_token # None

(***************************************************************************)
(* An answer that reports success (the page of a form, the result box of   *)
(* the Oracle page, the status of a raw request) is true: the agent did    *)
(* carry the request out to the end, whatever stopped or failed meanwhile. *)
(***************************************************************************)
SuccessIsReal ==
    \A n \in Number :
        (handlers[n].pc = "answer" /\ handlers[n].result = "ok" /\ HasAgent) => n \in finished

(***************************************************************************)
(* The mappings page never shows an empty list for one it could not read,  *)
(* and after a form it shows a list read after the form took effect.       *)
(***************************************************************************)
ListingFresh ==
    \A n \in Number :
        (handlers[n].pc = "answer" /\ handlers[n].page = "mappings") =>
            /\ handlers[n].listing # None
            /\ handlers[n].result = "ok" => handlers[n].listing = "after"

(***************************************************************************)
(* Once a client has its answer, success or error, the handlers of the     *)
(* agent change nothing on its behalf any more: send_raw gives up on a     *)
(* request only when the agent did, so the operator who repeats a failed   *)
(* form never races the first one.                                         *)
(***************************************************************************)
NothingAfterAnswer ==
    [][\A n \in Number :
          handlers[n].pc \in {"answer", "answered"} =>
              /\ begun'[n] = begun[n]
              /\ n \in finished' => n \in finished]_vars

\* The tokens the gateway was given: an argument or the environment goes
\* before the file.
TokenForAgent(g) == IF g.api_token # None THEN g.api_token ELSE g.file_api_token
GateToken(g) == IF g.gateway_token # None THEN g.gateway_token ELSE g.file_gateway_token

\* Headers as the agent is to see them.
Rewritten(headers, token) ==
    /\ headers.host = "edge-agent" /\ headers.bearer = token
    /\ headers.names \cap (hop_by_hop_headers \cup headers.connection_nominated) = {}

(***************************************************************************)
(* Every request a handler has on the socket carries the token the gateway *)
(* was given for the agent and the host edge-agent, whatever token and     *)
(* host the client sent and whatever it nominated for removal; it carries  *)
(* no header that ends at the gateway and none that was nominated.         *)
(***************************************************************************)
UpstreamHeaders ==
    \A n \in Number :
        (Waits(n) /\ wire[n].at \in {"request", "working"}) =>
            Rewritten(wire[n].headers, TokenForAgent(gateway))

(***************************************************************************)
(* docs/gui.md on EDGE_GATEWAY_TOKEN: if set, it gates raw /api/* JSON     *)
(* proxy requests.  No raw request gets a handler without that token, be   *)
(* it from the command line, the environment or, failing these, the file.  *)
(***************************************************************************)
ProxyGated ==
    \A n \in Number :
        (handlers[n].page = "raw" /\ GateToken(gateway) # None) =>
            handlers[n].bearer = GateToken(gateway)

\* A handler that waits for a command without a timeout.
Hangs(n) == Waits(n) /\ up /\ wire[n].at = "request" /\ wire[n].op \in Untimed

Served(n) == handlers[n].pc \in {"none", "answered", "gone"}

(***************************************************************************)
(* send_raw has no timeout, but a client is answered in the end: the agent *)
(* answers, refuses the connection, or resets it.  The one exception are   *)
(* pages that wait for netbird, for as long as netbird takes.              *)
(***************************************************************************)
Answered == \A n \in Number : ~Served(n) ~> (Served(n) \/ []Hangs(n))

-----------------------------------------------------------------------------
(* The inductive invariant of GatewayProofs. *)

\* The mappings page has been given a list, and a form one that is fresh.
HasList(h) == h.listing # None /\ (h.result = "ok" => h.listing = "after")

\* What the exchange e of a request that was begun b times has to do with it.
\* f says whether it was finished.
ExchangeSound(g, h, e, b, f) ==
    /\ b <= 1 /\ (f => b = 1)
    /\ e.at # "none" => e.op \in Action \cup Get
    /\ (e.at \in {"request", "mock"} /\ (e.op \in Action \/ h.pc = "act")) => b = 0
    /\ e.at = "working" => e.op \in Action /\ b = 1
    /\ e.at \in {"request", "working"} => e.headers # None
    /\ h.pc = "none" => b = 0
    /\ h.pc \in {"none", "tool", "answer", "answered"} => e.at = "none"
    /\ h.pc = "gone" => e.at \in {"none", "request", "working"}
    /\ (h.pc = "gone" /\ e.at # "none") => e.op \in Action
    /\ e.at = "mock" => TokenForAgent(g) = None
    /\ (h.pc \in {"act", "fetch"} /\ e.at \in {"request", "working"}) =>
         Rewritten(e.headers, TokenForAgent(g))

\* What a handler h, its exchange e and f have to do with each other in a
\* gateway started with g.
HandlerSound(g, h, e, f) ==
    LET claim == f \/ (TokenForAgent(g) = None /\ h.page # "mappings") IN
    /\ h.pc \in {"tool", "act", "fetch", "answer"} => g # None
    /\ h.pc \in {"none", "answered", "gone"} => h.page = "error"
    /\ h.pc \in {"tool", "act"} => h.i = 1 /\ h.result = "none"
    /\ h.pc = "tool" => h.page = "tools"
    /\ h.pc = "act" =>
         /\ h.page = "mappings" => e.op \in mapping_forms
         /\ e.at = "response" /\ e.ok => claim
    /\ (h.pc \in {"fetch", "answer"} /\ h.result = "ok") => claim
    /\ h.pc = "fetch" =>
         /\ h.i <= Len(markup(h.page)) /\ e.op = markup(h.page)[h.i]
         /\ e.at = "response" /\ e.ok =>
              e.listing = IF e.op # "mappings" THEN None ELSE IF f THEN "after" ELSE "before"
    /\ (h.page = "mappings" /\ (h.pc = "answer" \/ (h.pc = "fetch" /\ h.i > 1))) => HasList(h)
    /\ (h.page = "raw" /\ GateToken(g) # None) => h.bearer = GateToken(g)

IInv ==
    /\ TypeOK
    /\ \A n \in Number :
         /\ ExchangeSound(gateway, handlers[n], wire[n], begun[n], n \in finished)
         /\ HandlerSound(gateway, handlers[n], wire[n], n \in finished)
=============================================================================
