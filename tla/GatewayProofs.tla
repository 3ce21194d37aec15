---------------------------- MODULE GatewayProofs ---------------------------
(***************************************************************************)
(* Proofs about Gateway, for any number of requests, any forms, pages and  *)
(* headers, any tokens, and any number of restarts.                        *)
(*                                                                         *)
(* ExchangeSound and HandlerSound say of one request what the theorems     *)
(* need, so that a step that touches one request leaves the others alone   *)
(* (SlotStep).                                                             *)
(***************************************************************************)
EXTENDS Gateway, TLAPS

-----------------------------------------------------------------------------
(* Operators *)

\* The requests of the pages: never more than five, all of them reads.
LEMMA Markup ==
    /\ \A page \in Page : Len(markup(page)) \in 0 .. 5
    /\ \A page \in Page : \A i \in 1 .. Len(markup(page)) : markup(page)[i] \in Get
    /\ Len(markup("raw")) = 0
    /\ Len(markup("mappings")) = 2
    /\ markup("mappings")[1] = "mappings" /\ markup("mappings")[2] = "topology"
<1>1. ASSUME NEW page \in Page
      PROVE  /\ Len(markup(page)) \in 0 .. 5
             /\ \A i \in 1 .. Len(markup(page)) : markup(page)[i] \in Get
  <2>1. CASE page = "dashboard"
    BY <2>1 DEF markup, Get
  <2>2. CASE page = "mappings"
    BY <2>2 DEF markup, Get
  <2>3. CASE page = "topology"
    BY <2>3 DEF markup, Get
  <2>4. CASE page = "oracle"
    BY <2>4 DEF markup, Get
  <2>5. CASE page = "tools"
    BY <2>5 DEF markup, Get
  <2>6. CASE page = "netbird"
    BY <2>6 DEF markup, Get
  <2>7. CASE page = "events"
    BY <2>7 DEF markup, Get
  <2>8. CASE page \in {"reconcile", "raw", "error"}
    BY <2>8 DEF markup
  <2> QED
    BY <2>1, <2>2, <2>3, <2>4, <2>5, <2>6, <2>7, <2>8 DEF Page
<1>2. Len(markup("raw")) = 0
  BY DEF markup
<1>3. /\ Len(markup("mappings")) = 2
      /\ markup("mappings")[1] = "mappings" /\ markup("mappings")[2] = "topology"
  BY DEF markup
<1> QED
  BY <1>1, <1>2, <1>3

\* A form is never only a read.
LEMMA Kinds ==
    /\ Action \cap Get = {} /\ mapping_forms \subseteq Action
    /\ "none" \notin Action \cup Get /\ StepByStep \subseteq Action
  BY DEF Action, Get, mapping_forms, oracle_forms, StepByStep

\* A socket with nothing on it, and handlers that have nothing to tell.
LEMMA AtRest ==
    /\ Silent \in Exchange /\ Silent.at = "none" /\ Silent.op = "none"
    /\ Fresh \in Handler /\ Fresh.pc = "none" /\ Fresh.page = "error" /\ Fresh.i = 1
    /\ Fresh.result = "none" /\ Fresh.listing = None /\ Fresh.bearer = None
    /\ \A pc \in {"answer", "answered", "gone"} :
         LET h == [Fresh EXCEPT !.pc = pc] IN
         /\ h \in Handler /\ h.pc = pc /\ h.page = "error" /\ h.i = 1 /\ h.result = "none"
<1>1. Silent \in Exchange /\ Silent.at = "none" /\ Silent.op = "none"
  BY DEF Silent, Exchange, Listing
<1>2. /\ Fresh \in Handler /\ Fresh.pc = "none" /\ Fresh.page = "error" /\ Fresh.i = 1
      /\ Fresh.result = "none" /\ Fresh.listing = None /\ Fresh.bearer = None
  BY DEF Fresh, Handler, Page, Outcome, Listing
<1>3. ASSUME NEW pc \in {"answer", "answered", "gone"}
      PROVE  LET h == [Fresh EXCEPT !.pc = pc] IN
             /\ h \in Handler /\ h.pc = pc /\ h.page = "error" /\ h.i = 1 /\ h.result = "none"
  BY <1>2 DEF Handler
<1> QED
  BY <1>1, <1>2, <1>3

\* Such a handler has nothing to answer for.
LEMMA Plain ==
    ASSUME NEW g, NEW h, NEW e, NEW n, NEW S,
           h.pc \in {"none", "answer", "answered", "gone"}, h.page = "error", h.result = "none",
           h.pc = "answer" => g # None
    PROVE  HandlerSound(g, h, e, n \in S)
  BY DEF HandlerSound

\* The tokens load_tokens settles on.
LEMMA Tokens ==
    ASSUME NEW g \in Startup
    PROVE  /\ load_tokens(g).api_token = TokenForAgent(g)
           /\ load_tokens(g).gateway_token = GateToken(g)
           /\ TokenForAgent(g) \in STRING \cup {None}
  BY DEF load_tokens, or_else, TokenForAgent, GateToken, Startup

\* The headers the gateway writes, whatever the client sent.
LEMMA RewriteHeaders ==
    ASSUME NEW h \in HeaderType, NEW token \in STRING
    PROVE  /\ rewrite_headers(h, token) \in HeaderType
           /\ Rewritten(rewrite_headers(h, token), token)
<1> DEFINE names == (h.names \ hop_by_hop_headers) \ h.connection_nominated
           w == [h EXCEPT !.names = names, !.host = "edge-agent", !.bearer = token]
<1>1. names \in SUBSET HeaderName
  BY DEF HeaderType
<1>2. rewrite_headers(h, token) = w
  BY DEF rewrite_headers
<1> HIDE DEF names
<1>3. /\ w \in HeaderType /\ w.names = names
      /\ w.connection_nominated = h.connection_nominated
      /\ w.host = "edge-agent" /\ w.bearer = token
  BY <1>1 DEF HeaderType
<1> HIDE DEF w
<1>4. Rewritten(w, token)
  BY <1>3 DEF Rewritten, names
<1> QED
  BY <1>2, <1>3, <1>4

\* A request on its way to the agent or the mock store.
LEMMA SendRaw ==
    ASSUME gateway \in Startup, NEW op \in Action \cup Get, NEW headers \in HeaderType
    PROVE  LET e == send_raw(op, headers) IN
           /\ e \in Exchange /\ e.at \in {"mock", "request"} /\ e.op = op
           /\ e.at = "mock" => TokenForAgent(gateway) = None
           /\ e.at = "request" =>
                e.headers # None /\ Rewritten(e.headers, TokenForAgent(gateway))
<1> DEFINE e == send_raw(op, headers)
           token == TokenForAgent(gateway)
<1>1. api_token = token /\ token \in STRING \cup {None}
  BY Tokens DEF api_token
<1> HIDE DEF token
<1>2. CASE token = None
  <2>1. e = [Silent EXCEPT !.at = "mock", !.op = op]
    BY <1>1, <1>2 DEF send_raw
  <2>2. e \in Exchange /\ e.at = "mock" /\ e.op = op
    BY <2>1 DEF Silent, Exchange, Listing
  <2> HIDE DEF e
  <2> QED
    BY <1>2, <2>2 DEF e, token
<1>3. CASE token # None
  <2> DEFINE w == rewrite_headers(headers, token)
  <2>1. w \in HeaderType /\ Rewritten(w, token)
    BY <1>1, <1>3, RewriteHeaders
  <2> HIDE DEF w
  <2>2. e = [Silent EXCEPT !.at = "request", !.op = op, !.headers = w]
    BY <1>1, <1>3 DEF send_raw, w
  <2>3. e \in Exchange /\ e.at = "request" /\ e.op = op /\ e.headers = w
    BY <2>1, <2>2 DEF Silent, Exchange, Listing
  <2> HIDE DEF e
  <2>4. w # None
    BY <2>1, NoneIsNoString
  <2> QED
    BY <2>1, <2>3, <2>4 DEF e, token
<1> QED
  BY <1>2, <1>3

-----------------------------------------------------------------------------
(* Steps of one request *)

\* The specification starts with it.
LEMMA IInvInit == Init => IInv
<1> SUFFICES ASSUME Init PROVE IInv
  OBVIOUS
<1>1. /\ \A n \in Number : handlers[n] = Fresh /\ wire[n] = Silent /\ begun[n] = 0
      /\ finished = {}
  BY DEF Init
<1>2. TypeOK
  BY <1>1, AtRest, BoundsAssumption DEF Init, TypeOK, Waits
<1>3. ASSUME NEW n \in Number
      PROVE  /\ ExchangeSound(gateway, handlers[n], wire[n], begun[n], n \in finished)
             /\ HandlerSound(gateway, handlers[n], wire[n], n \in finished)
  <2>1. HandlerSound(gateway, handlers[n], wire[n], n \in finished)
    BY <1>1, AtRest, Plain
  <2>2. ExchangeSound(gateway, handlers[n], wire[n], begun[n], n \in finished)
    BY <1>1, AtRest DEF ExchangeSound
  <2> QED
    BY <2>1, <2>2
<1> QED
  BY <1>2, <1>3 DEF IInv

\* What the invariant says of one request.
LEMMA Slot ==
    ASSUME IInv, NEW n \in Number
    PROVE  /\ handlers[n] \in Handler /\ wire[n] \in Exchange /\ begun[n] \in Nat
           /\ begun[n] <= 1 /\ (n \in finished => begun[n] = 1)
           /\ gateway \in Startup \cup {None}
           /\ ExchangeSound(gateway, handlers[n], wire[n], begun[n], n \in finished)
           /\ HandlerSound(gateway, handlers[n], wire[n], n \in finished)
<1>1. /\ handlers[n] \in Handler /\ wire[n] \in Exchange /\ begun[n] \in Nat
      /\ gateway \in Startup \cup {None}
  BY DEF IInv, TypeOK
<1>2. /\ ExchangeSound(gateway, handlers[n], wire[n], begun[n], n \in finished)
      /\ HandlerSound(gateway, handlers[n], wire[n], n \in finished)
  BY DEF IInv
<1>3. begun[n] <= 1 /\ (n \in finished => begun[n] = 1)
  BY <1>2 DEF ExchangeSound
<1> QED
  BY <1>1, <1>2, <1>3

\* A step that gives request n a handler h, an exchange e and a number b, and the
\* others nothing.
LEMMA SlotStep ==
    ASSUME IInv, NEW n \in Number, NEW h \in Handler, NEW e \in Exchange, NEW b \in Nat,
           handlers' = [handlers EXCEPT ![n] = h],
           wire' = [wire EXCEPT ![n] = e],
           begun' = [begun EXCEPT ![n] = b],
           finished' = finished \/ finished' = finished \cup {n},
           gateway' = gateway, up' = up, restarts' = restarts,
           h.pc \in {"act", "fetch"} => e.at # "none",
           ExchangeSound(gateway, h, e, b, n \in finished'),
           HandlerSound(gateway, h, e, n \in finished')
    PROVE  IInv'
<1>1. TypeOK
  BY DEF IInv
<1>2. /\ handlers'[n] = h /\ wire'[n] = e /\ begun'[n] = b
      /\ \A m \in Number \ {n} :
            /\ handlers'[m] = handlers[m] /\ wire'[m] = wire[m] /\ begun'[m] = begun[m]
            /\ m \in finished' <=> m \in finished
  BY <1>1 DEF TypeOK
<1>3. TypeOK'
  BY <1>1, <1>2 DEF TypeOK, Waits
<1>4. ASSUME NEW m \in Number
      PROVE  /\ ExchangeSound(gateway', handlers'[m], wire'[m], begun'[m], m \in finished')
             /\ HandlerSound(gateway', handlers'[m], wire'[m], m \in finished')
  <2>1. CASE m = n
    BY <1>2, <2>1
  <2>2. CASE m # n
    <3>1. /\ handlers'[m] = handlers[m] /\ wire'[m] = wire[m] /\ begun'[m] = begun[m]
          /\ m \in finished' <=> m \in finished
      BY <1>2, <2>2
    <3>2. /\ ExchangeSound(gateway, handlers[m], wire[m], begun[m], m \in finished)
          /\ HandlerSound(gateway, handlers[m], wire[m], m \in finished)
      BY DEF IInv
    <3> QED
      BY <3>1, <3>2 DEF ExchangeSound, HandlerSound
  <2> QED
    BY <2>1, <2>2
<1> QED
  BY <1>3, <1>4 DEF IInv

\* A step of handler n during which the agent does nothing for it.
LEMMA HandlerOnly ==
    ASSUME IInv, NEW n \in Number, NEW h \in Handler, NEW e \in Exchange,
           handlers' = [handlers EXCEPT ![n] = h],
           wire' = [wire EXCEPT ![n] = e],
           UNCHANGED <<history, processes>>,
           h.pc \in {"act", "fetch"} => e.at # "none",
           ExchangeSound(gateway, h, e, begun[n], n \in finished),
           HandlerSound(gateway, h, e, n \in finished)
    PROVE  IInv'
<1>1. begun \in [Number -> Nat] /\ begun[n] \in Nat
  BY DEF IInv, TypeOK
<1>2. /\ begun' = begun /\ finished' = finished
      /\ gateway' = gateway /\ up' = up /\ restarts' = restarts
  BY DEF history, processes
<1>3. begun' = [begun EXCEPT ![n] = begun[n]]
  BY <1>1, <1>2
<1>4. /\ ExchangeSound(gateway, h, e, begun[n], n \in finished')
      /\ HandlerSound(gateway, h, e, n \in finished')
  BY <1>2
<1> QED
  BY <1>1, <1>2, <1>3, <1>4, SlotStep

\* Every error of a handler ends in the same card.
LEMMA ErrorCard ==
    ASSUME IInv, NEW n \in Number, error_card(n), gateway # None,
           UNCHANGED <<history, processes>>
    PROVE  IInv'
<1> DEFINE h == [Fresh EXCEPT !.pc = "answer"]
<1>1. h \in Handler /\ h.pc = "answer" /\ h.page = "error" /\ h.i = 1 /\ h.result = "none"
  BY AtRest
<1>2. handlers' = [handlers EXCEPT ![n] = h] /\ wire' = [wire EXCEPT ![n] = Silent]
  BY DEF error_card
<1> HIDE DEF h
<1>3. HandlerSound(gateway, h, Silent, n \in finished)
  BY <1>1, Plain
<1>4. ExchangeSound(gateway, h, Silent, begun[n], n \in finished)
  BY <1>1, AtRest, Slot DEF ExchangeSound
<1> QED
  BY <1>1, <1>2, <1>3, <1>4, AtRest, HandlerOnly

\* A handler goes on with its page.
LEMMA ContinueStep ==
    ASSUME IInv, NEW n \in Number, NEW h \in Handler, Continue(n, h), gateway # None,
           h.result = "ok" =>
              n \in finished \/ (TokenForAgent(gateway) = None /\ h.page # "mappings"),
           (h.page = "mappings" /\ h.i > 1) => HasList(h),
           (h.page = "raw" /\ GateToken(gateway) # None) => h.bearer = GateToken(gateway),
           UNCHANGED <<history, processes>>
    PROVE  IInv'
<1>1. h.page \in Page /\ h.i \in Nat /\ h.i >= 1
  BY DEF Handler
<1>2. gateway \in Startup /\ begun[n] \in Nat /\ begun[n] <= 1 /\ (n \in finished => begun[n] = 1)
  BY Slot
<1>3. Len(markup(h.page)) \in 0 .. 5
  BY <1>1, Markup
<1>4. CASE h.i <= Len(markup(h.page))
  <2> DEFINE f == [h EXCEPT !.pc = "fetch"]
             get == markup(h.page)[h.i]
             e == send_raw(get, NoHeaders)
  <2>1. /\ f \in Handler /\ f.pc = "fetch" /\ f.page = h.page /\ f.i = h.i
        /\ f.result = h.result /\ f.listing = h.listing /\ f.bearer = h.bearer
    BY DEF Handler
  <2>2. get \in Get /\ get \notin Action
    BY <1>1, <1>3, <1>4, Markup, Kinds
  <2>3. handlers' = [handlers EXCEPT ![n] = f] /\ wire' = [wire EXCEPT ![n] = e]
    BY <1>4 DEF Continue, get_json
  <2> HIDE DEF f
  <2>4. NoHeaders \in HeaderType
    BY DEF NoHeaders, HeaderType
  <2>5. /\ e \in Exchange /\ e.at \in {"mock", "request"} /\ e.op = get
        /\ e.at = "mock" => TokenForAgent(gateway) = None
        /\ e.at = "request" => e.headers # None /\ Rewritten(e.headers, TokenForAgent(gateway))
    <3> HIDE DEF get
    <3> QED
      BY <1>2, <2>2, <2>4, SendRaw
  <2> HIDE DEF e
  <2>6. (f.page = "mappings" /\ f.i > 1) => HasList(f)
    BY <2>1 DEF HasList
  <2>7. e.op = markup(f.page)[f.i]
    BY <2>1, <2>5
  <2>8. HandlerSound(gateway, f, e, n \in finished)
    BY <1>4, <2>1, <2>5, <2>6, <2>7 DEF HandlerSound
  <2>9. ExchangeSound(gateway, f, e, begun[n], n \in finished)
    BY <1>2, <2>1, <2>2, <2>5 DEF ExchangeSound
  <2> QED
    BY <2>1, <2>3, <2>5, <2>8, <2>9, HandlerOnly
<1>5. CASE ~(h.i <= Len(markup(h.page)))
  <2> DEFINE f == [h EXCEPT !.pc = "answer"]
  <2>1. /\ f \in Handler /\ f.pc = "answer" /\ f.page = h.page /\ f.i = h.i
        /\ f.result = h.result /\ f.listing = h.listing /\ f.bearer = h.bearer
    BY DEF Handler
  <2>2. handlers' = [handlers EXCEPT ![n] = f] /\ wire' = [wire EXCEPT ![n] = Silent]
    BY <1>5 DEF Continue
  <2> HIDE DEF f
  <2>3. f.page = "mappings" => HasList(f)
    BY <1>1, <1>5, <2>1, Markup DEF HasList
  <2>4. HandlerSound(gateway, f, Silent, n \in finished)
    BY <2>1, <2>3 DEF HandlerSound
  <2>5. ExchangeSound(gateway, f, Silent, begun[n], n \in finished)
    BY <1>2, <2>1, AtRest DEF ExchangeSound
  <2> QED
    BY <2>1, <2>2, <2>4, <2>5, AtRest, HandlerOnly
<1> QED
  BY <1>4, <1>5

-----------------------------------------------------------------------------
(* How a handler begins and goes on *)

\* A client that asks for something has a gateway, and nothing done for it yet.
LEMMA Asking ==
    ASSUME IInv, NEW n \in Number, Ask(n)
    PROVE  /\ gateway \in Startup /\ gateway # None /\ begun[n] = 0 /\ n \notin finished
           /\ wire[n].at = "none" /\ UNCHANGED <<history, processes>>
<1>1. handlers[n].pc = "none" /\ gateway # None /\ UNCHANGED <<history, processes>>
  BY DEF Ask
<1>2. begun[n] = 0 /\ wire[n].at = "none"
  BY <1>1, Slot DEF ExchangeSound
<1> QED
  BY <1>1, <1>2, Slot

\* It is sent before anything else.
LEMMA ActStep ==
    ASSUME IInv, NEW n \in Number, Ask(n), NEW h \in Handler, NEW sent \in HeaderType,
           NEW op \in Action \cup Get, Act(n, h, op, sent),
           h.i = 1, h.result = "none", h.page = "mappings" => op \in mapping_forms,
           (h.page = "raw" /\ GateToken(gateway) # None) => h.bearer = GateToken(gateway)
    PROVE  IInv'
<1> DEFINE e == send_raw(op, sent)
           f == [h EXCEPT !.pc = "act"]
<1>1. handlers' = [handlers EXCEPT ![n] = f] /\ wire' = [wire EXCEPT ![n] = e]
  BY DEF Act
<1>2. /\ gateway \in Startup /\ gateway # None /\ begun[n] = 0 /\ n \notin finished
      /\ UNCHANGED <<history, processes>>
  BY Asking
<1>3. /\ e \in Exchange /\ e.at \in {"mock", "request"} /\ e.op = op
      /\ e.at = "mock" => TokenForAgent(gateway) = None
      /\ e.at = "request" => e.headers # None /\ Rewritten(e.headers, TokenForAgent(gateway))
  BY <1>2, SendRaw
<1>4. /\ f \in Handler /\ f.pc = "act" /\ f.page = h.page /\ f.i = 1 /\ f.result = "none"
      /\ f.bearer = h.bearer
  BY DEF Handler
<1> HIDE DEF e, f
<1>5. HandlerSound(gateway, f, e, n \in finished)
  BY <1>2, <1>3, <1>4 DEF HandlerSound
<1>6. ExchangeSound(gateway, f, e, begun[n], n \in finished)
  BY <1>2, <1>3, <1>4 DEF ExchangeSound
<1> QED
  BY <1>1, <1>2, <1>3, <1>4, <1>5, <1>6, HandlerOnly

\* Every way a handler begins preserves the invariant.
LEMMA IInvBegin == ASSUME IInv, NEW n \in Number, Begin(n) PROVE IInv'
<1>1. NoHeaders \in HeaderType
  BY DEF NoHeaders, HeaderType
<1>2. ASSUME NEW op \in Forms, NEW page \in Page, submit(n, op, page) PROVE IInv'
  <2> DEFINE h == [Fresh EXCEPT !.page = page]
  <2>1. Ask(n) /\ Act(n, h, op, NoHeaders) /\ op \in Action \cup Get
    BY <1>2, RequestsAssumption DEF submit
  <2>2. page # "raw" /\ (page = "mappings" => op \in mapping_forms)
    BY <1>2 DEF submit, FormPages
  <2>3. h \in Handler /\ h.page = page /\ h.i = 1 /\ h.result = "none"
    BY AtRest DEF Handler
  <2> HIDE DEF h
  <2> QED
    BY <1>1, <2>1, <2>2, <2>3, ActStep
<1>3. ASSUME NEW op \in RawRequests, NEW headers \in ClientHeaders, proxy(n, op, headers)
      PROVE  IInv'
  <2> DEFINE h == [Fresh EXCEPT !.page = "raw", !.bearer = headers.bearer]
  <2>1. /\ "raw" \in Page /\ headers \in HeaderType /\ Ask(n) /\ op \in Action \cup Get
        /\ headers.bearer \in STRING \cup {None}
    BY <1>3, HeadersAssumption, RequestsAssumption DEF Page, proxy, HeaderType
  <2>2. /\ h \in Handler /\ h.page = "raw" /\ h.i = 1 /\ h.result = "none"
        /\ h.bearer = headers.bearer
    BY <2>1, AtRest DEF Handler
  <2>3. CASE require_gateway_auth(headers)
    <3>1. Act(n, h, op, headers)
      BY <1>3, <2>3 DEF proxy
    <3> HIDE DEF h
    <3>2. GateToken(gateway) # None => h.bearer = GateToken(gateway)
      BY <2>1, <2>2, <2>3, Asking, Tokens DEF require_gateway_auth
    <3> QED
      BY <2>1, <2>2, <3>1, <3>2, ActStep
  <2>4. CASE ~require_gateway_auth(headers)
    BY <1>3, <2>4, Asking, ErrorCard DEF proxy
  <2> QED
    BY <2>3, <2>4
<1>4. CASE refuse_form(n)
  BY <1>4, Asking, ErrorCard DEF refuse_form
<1>5. ASSUME NEW page \in Pages, open_page(n, page) PROVE IInv'
  <2> DEFINE h == [Fresh EXCEPT !.page = page]
  <2>1. page \in Page /\ page # "raw"
    BY PagesAssumption
  <2>2. h \in Handler /\ h.page = page /\ h.i = 1 /\ h.result = "none"
    BY <2>1, AtRest DEF Handler
  <2>3. Ask(n) /\ Continue(n, h)
    BY <1>5 DEF open_page
  <2> HIDE DEF h
  <2> QED
    BY <2>1, <2>2, <2>3, Asking, ContinueStep
<1>6. CASE run_tool(n)
  <2> DEFINE h == [Fresh EXCEPT !.pc = "tool", !.page = "tools"]
  <2>1. h \in Handler /\ h.pc = "tool" /\ h.page = "tools" /\ h.i = 1 /\ h.result = "none"
    BY AtRest DEF Handler, Page
  <2>2. Ask(n) /\ handlers' = [handlers EXCEPT ![n] = h] /\ wire' = wire
    BY <1>6 DEF run_tool
  <2> HIDE DEF h
  <2>3. wire[n].at = "none" /\ gateway # None
    BY <2>2, Asking
  <2>4. wire' = [wire EXCEPT ![n] = wire[n]]
    BY <2>2 DEF IInv, TypeOK
  <2>5. HandlerSound(gateway, h, wire[n], n \in finished)
    BY <2>1, <2>3 DEF HandlerSound
  <2>6. ExchangeSound(gateway, h, wire[n], begun[n], n \in finished)
    BY <2>1, <2>3, Slot DEF ExchangeSound
  <2> QED
    BY <2>1, <2>2, <2>4, <2>5, <2>6, Asking, Slot, HandlerOnly
<1> QED
  BY <1>2, <1>3, <1>4, <1>5, <1>6 DEF Begin

\* What decodes as a success was one.
LEMMA Decoded ==
    ASSUME NEW h, NEW e \in Exchange, NEW ok \in decode(h, e) \cup decode_json(e)
    PROVE  ok \in BOOLEAN /\ (ok => e.ok)
  BY DEF decode, decode_json, Exchange

\* Every step of a handler that was answered preserves the invariant.
LEMMA IInvAnswered ==
    ASSUME IInv, NEW n \in Number, tool_ends(n) \/ after_action(n) \/ after_get(n) PROVE IInv'
<1>1. /\ handlers[n] \in Handler /\ wire[n] \in Exchange
      /\ HandlerSound(gateway, handlers[n], wire[n], n \in finished)
  BY Slot
<1>2. UNCHANGED <<history, processes>> /\ handlers[n].pc \in {"tool", "act", "fetch"}
  BY DEF tool_ends, after_action, after_get
<1>3. /\ gateway # None
      /\ (handlers[n].page = "raw" /\ GateToken(gateway) # None) =>
           handlers[n].bearer = GateToken(gateway)
  BY <1>1, <1>2 DEF HandlerSound
<1>4. CASE tool_ends(n)
  <2>1. handlers[n].pc = "tool" /\ handlers[n].page = "tools" /\ handlers[n].result = "none"
    BY <1>1, <1>4 DEF tool_ends, HandlerSound
  <2> QED
    BY <1>1, <1>2, <1>3, <1>4, <2>1, ErrorCard, ContinueStep DEF tool_ends
<1>5. CASE after_action(n)
  <2>1. handlers[n].pc = "act" /\ wire[n].at = "response"
    BY <1>5 DEF after_action
  <2>2. /\ handlers[n].i = 1
        /\ wire[n].ok => \/ n \in finished
                         \/ TokenForAgent(gateway) = None /\ handlers[n].page # "mappings"
    BY <1>1, <2>1 DEF HandlerSound
  <2>3. CASE error_card(n)
    BY <1>2, <1>3, <2>3, ErrorCard
  <2>4. ASSUME NEW r \in {"ok", "failed"}, r = "ok" => wire[n].ok,
               Continue(n, [handlers[n] EXCEPT !.result = r])
        PROVE  IInv'
    <3> DEFINE h == [handlers[n] EXCEPT !.result = r]
    <3>1. /\ h \in Handler /\ h.page = handlers[n].page /\ h.i = 1 /\ h.result = r
          /\ h.bearer = handlers[n].bearer
      BY <1>1, <2>2 DEF Handler, Outcome
    <3>2. Continue(n, h)
      BY <2>4
    <3> HIDE DEF h
    <3> QED
      BY <1>2, <1>3, <2>2, <2>4, <3>1, <3>2, ContinueStep
  <2>5. PICK ok \in decode(handlers[n], wire[n]) :
          IF ok \/ handlers[n].page \in {"raw", "oracle"}
          THEN Continue(n, [handlers[n] EXCEPT !.result = IF ok THEN "ok" ELSE "failed"])
          ELSE error_card(n)
    BY <1>5 DEF after_action
  <2>6. ok \in BOOLEAN /\ (ok => wire[n].ok)
    BY <1>1, Decoded
  <2> QED
    BY <2>3, <2>4, <2>5, <2>6
<1>6. CASE after_get(n)
  <2>1. handlers[n].pc = "fetch" /\ wire[n].at = "response"
    BY <1>6 DEF after_get
  <2>2. /\ handlers[n].result = "ok" => \/ n \in finished
                                        \/ /\ TokenForAgent(gateway) = None
                                           /\ handlers[n].page # "mappings"
        /\ handlers[n].i <= Len(markup(handlers[n].page))
        /\ wire[n].op = markup(handlers[n].page)[handlers[n].i]
        /\ wire[n].ok => wire[n].listing = IF wire[n].op # "mappings" THEN None
                                           ELSE IF n \in finished THEN "after" ELSE "before"
    BY <1>1, <2>1 DEF HandlerSound
  <2>3. CASE error_card(n)
    BY <1>2, <1>3, <2>3, ErrorCard
  <2>4. ASSUME NEW l \in Listing,
               \/ wire[n].ok /\ l = or_else(wire[n].listing, handlers[n].listing)
               \/ handlers[n].i # 1 /\ l = handlers[n].listing,
               Continue(n, [handlers[n] EXCEPT !.i = @ + 1, !.listing = l])
        PROVE  IInv'
    <3> DEFINE h == [handlers[n] EXCEPT !.i = @ + 1, !.listing = l]
    <3>1. handlers[n].page \in Page /\ handlers[n].i \in 1 .. 6
      BY <1>1 DEF Handler
    <3>2. Len(markup(handlers[n].page)) <= 5 /\ Len(markup(handlers[n].page)) \in Nat
      BY <3>1, Markup
    <3>3. handlers[n].i + 1 \in 1 .. 6
      BY <2>2, <3>1, <3>2
    <3>4. /\ h \in Handler /\ h.page = handlers[n].page /\ h.i = handlers[n].i + 1
          /\ h.bearer = handlers[n].bearer /\ h.result = handlers[n].result /\ h.listing = l
      BY <1>1, <3>3 DEF Handler
    <3>5. Continue(n, h)
      BY <2>4
    <3> HIDE DEF h
    <3>6. ASSUME handlers[n].page = "mappings" PROVE HasList(h)
      <4>0. "after" # None /\ "before" # None
        BY NoneIsNoString
      <4>1. handlers[n].i \in {1, 2}
        BY <2>2, <3>1, <3>6, Markup
      <4>2. CASE handlers[n].i = 1
        <5>1. wire[n].op = "mappings" /\ wire[n].ok
          BY <2>2, <2>4, <3>6, <4>2, Markup
        <5>2. l = IF n \in finished THEN "after" ELSE "before"
          BY <2>2, <2>4, <4>0, <4>2, <5>1 DEF or_else
        <5> QED
          BY <2>2, <3>4, <3>6, <4>0, <5>2 DEF HasList
      <4>3. CASE handlers[n].i = 2
        <5>1. HasList(handlers[n])
          BY <1>1, <2>1, <3>6, <4>3 DEF HandlerSound
        <5>2. wire[n].op = "topology"
          BY <2>2, <3>6, <4>3, Markup
        <5>3. l = handlers[n].listing
          BY <2>2, <2>4, <5>2 DEF or_else
        <5> QED
          BY <3>4, <5>1, <5>3 DEF HasList
      <4> QED
        BY <4>1, <4>2, <4>3
    <3> QED
      BY <1>2, <1>3, <2>2, <3>4, <3>5, <3>6, ContinueStep
  <2>5. PICK ok \in decode_json(wire[n]) :
          IF handlers[n].i = 1 /\ ~ok
          THEN error_card(n)
          ELSE Continue(n, [handlers[n] EXCEPT
                              !.i = @ + 1,
                              !.listing = IF ok THEN or_else(wire[n].listing, @) ELSE @])
    BY <1>6 DEF after_get
  <2>6. ok \in BOOLEAN /\ (ok => wire[n].ok)
    BY <1>1, Decoded
  <2>7. or_else(wire[n].listing, handlers[n].listing) \in Listing /\ handlers[n].listing \in Listing
    BY <1>1 DEF Handler, Exchange, or_else
  <2> QED
    BY <2>3, <2>4, <2>5, <2>6, <2>7
<1> QED
  BY <1>4, <1>5, <1>6

\* An answer that is delivered ends the handler.
LEMMA IInvDeliver == ASSUME IInv, NEW n \in Number, deliver(n) PROVE IInv'
<1> DEFINE h == [Fresh EXCEPT !.pc = "answered"]
<1>1. /\ handlers[n].pc = "answer" /\ wire' = wire /\ handlers' = [handlers EXCEPT ![n] = h]
      /\ UNCHANGED <<history, processes>>
  BY DEF deliver
<1>2. h \in Handler /\ h.pc = "answered" /\ h.page = "error" /\ h.result = "none"
  BY AtRest
<1> HIDE DEF h
<1>3. wire' = [wire EXCEPT ![n] = wire[n]]
  BY <1>1 DEF IInv, TypeOK
<1>4. HandlerSound(gateway, h, wire[n], n \in finished)
  BY <1>2, Plain
<1>5. ExchangeSound(gateway, h, wire[n], begun[n], n \in finished)
  BY <1>1, <1>2, Slot DEF ExchangeSound
<1> QED
  BY <1>1, <1>2, <1>3, <1>4, <1>5, Slot, HandlerOnly

-----------------------------------------------------------------------------
(* Answers of the agent and of the mock store *)

\* The answer to a request: it reports success only for what is finished (or is
\* a fixture), and a list is as old as what it tells of the request.
LEMMA ReplyStep ==
    ASSUME IInv, NEW n \in Number, NEW ok \in BOOLEAN, NEW l \in Listing, NEW b \in Nat,
           Reply(n, ok, l), wire[n].at \in {"request", "working", "mock"},
           begun' = [begun EXCEPT ![n] = b],
           finished' = finished \/ finished' = finished \cup {n},
           b <= 1, n \in finished' => b = 1,
           (handlers[n].pc = "act" /\ ok) =>
              n \in finished' \/ (TokenForAgent(gateway) = None /\ handlers[n].page # "mappings"),
           handlers[n].pc = "fetch" => finished' = finished,
           (handlers[n].pc = "fetch" /\ ok) =>
              l = IF wire[n].op # "mappings" THEN None
                  ELSE IF n \in finished THEN "after" ELSE "before",
           UNCHANGED <<handlers, processes>>
    PROVE  IInv'
<1> DEFINE h == handlers[n]
<1>1. /\ h \in Handler /\ wire[n] \in Exchange
      /\ ExchangeSound(gateway, h, wire[n], begun[n], n \in finished)
      /\ HandlerSound(gateway, h, wire[n], n \in finished)
  BY Slot
<1>2. /\ handlers' = [handlers EXCEPT ![n] = h]
      /\ gateway' = gateway /\ up' = up /\ restarts' = restarts
  BY DEF IInv, TypeOK, processes
<1>3. CASE Waits(n)
  <2> DEFINE e == [wire[n] EXCEPT !.at = "response", !.ok = ok, !.listing = l]
  <2>1. /\ e \in Exchange /\ e.at = "response" /\ e.ok = ok /\ e.listing = l
        /\ e.op = wire[n].op /\ e.headers = wire[n].headers
    BY <1>1 DEF Exchange
  <2>2. wire' = [wire EXCEPT ![n] = e]
    BY <1>3 DEF Reply
  <2> HIDE DEF e
  <2>3. h.pc \in {"act", "fetch"}
    BY <1>3 DEF Waits
  <2>4. ExchangeSound(gateway, h, e, b, n \in finished')
    <3> HIDE DEF h
    <3> QED
      BY <1>1, <2>1, <2>3 DEF ExchangeSound
  <2>5. HandlerSound(gateway, h, e, n \in finished')
    <3>1. CASE h.pc = "act"
      <4>1. ok => n \in finished' \/ (TokenForAgent(gateway) = None /\ h.page # "mappings")
        BY <3>1
      <4> HIDE DEF h
      <4> QED
        BY <1>1, <2>1, <3>1, <4>1 DEF HandlerSound
    <3>2. CASE h.pc = "fetch"
      <4>1. /\ ok => l = IF wire[n].op # "mappings" THEN None
                         ELSE IF n \in finished THEN "after" ELSE "before"
            /\ finished' = finished
        BY <3>2
      <4> HIDE DEF h
      <4> QED
        BY <1>1, <2>1, <3>2, <4>1 DEF HandlerSound
    <3> QED
      BY <2>3, <3>1, <3>2
  <2> HIDE DEF h
  <2> QED
    BY <1>1, <1>2, <2>1, <2>2, <2>4, <2>5, SlotStep
<1>4. CASE ~Waits(n)
  <2>1. wire' = [wire EXCEPT ![n] = Silent]
    BY <1>4 DEF Reply
  <2>2. h.pc = "gone"
    BY <1>1, <1>4 DEF Waits, Handler, ExchangeSound
  <2> HIDE DEF h
  <2>3. ExchangeSound(gateway, h, Silent, b, n \in finished')
    BY <2>2, AtRest DEF ExchangeSound
  <2>4. HandlerSound(gateway, h, Silent, n \in finished')
    BY <1>1, <2>2 DEF HandlerSound
  <2> QED
    BY <1>1, <1>2, <2>1, <2>2, <2>3, <2>4, AtRest, SlotStep
<1> QED
  BY <1>3, <1>4

\* An error, from the agent or because nobody listens, claims nothing.
LEMMA ErrorReply ==
    ASSUME IInv, NEW n \in Number, Reply(n, FALSE, None),
           wire[n].at \in {"request", "working", "mock"},
           UNCHANGED <<handlers, history, processes>>
    PROVE  IInv'
<1>1. /\ begun[n] \in Nat /\ begun[n] <= 1 /\ (n \in finished => begun[n] = 1)
      /\ begun \in [Number -> Nat] /\ None \in Listing
  BY Slot DEF IInv, TypeOK, Listing
<1>2. begun' = [begun EXCEPT ![n] = begun[n]] /\ finished' = finished
  BY <1>1 DEF history
<1> QED
  BY <1>1, <1>2, ReplyStep

\* What is read says whether the client's own request came before it.
LEMMA ReadReply ==
    ASSUME IInv, NEW n \in Number, Reply(n, TRUE, Listed(n)),
           wire[n].at \in {"request", "mock"},
           handlers[n].pc = "act" =>
              TokenForAgent(gateway) = None /\ handlers[n].page # "mappings",
           UNCHANGED <<handlers, history, processes>>
    PROVE  IInv'
<1>1. /\ begun[n] \in Nat /\ begun[n] <= 1 /\ (n \in finished => begun[n] = 1)
      /\ begun \in [Number -> Nat]
  BY Slot DEF IInv, TypeOK
<1>2. begun' = [begun EXCEPT ![n] = begun[n]] /\ finished' = finished
  BY <1>1 DEF history
<1>3. /\ Listed(n) = IF wire[n].op # "mappings" THEN None
                     ELSE IF n \in finished THEN "after" ELSE "before"
      /\ Listed(n) \in Listing
  BY DEF Listed, Age, Listing
<1> HIDE DEF Listed
<1> QED
  BY <1>1, <1>2, <1>3, ReplyStep

\* A request that is begun and finished in one step.
LEMMA DoneReply ==
    ASSUME IInv, NEW n \in Number, NEW l \in Listing, Reply(n, TRUE, l),
           wire[n].at \in {"request", "mock"}, handlers[n].pc = "act",
           begun' = [begun EXCEPT ![n] = @ + 1], finished' = finished \cup {n},
           UNCHANGED <<handlers, processes>>
    PROVE  IInv'
<1>1. begun[n] = 0
  BY Slot DEF ExchangeSound
<1>2. begun' = [begun EXCEPT ![n] = 1]
  BY <1>1 DEF IInv, TypeOK
<1>3. 1 \in Nat /\ 1 <= 1 /\ n \in finished' /\ handlers[n].pc # "fetch"
  OBVIOUS
<1> QED
  BY <1>2, <1>3, ReplyStep, Zenon

\* The agent's handlers preserve the invariant.
LEMMA IInvAgent == ASSUME IInv, NEW n \in Number, AgentStep(n) PROVE IInv'
<1>1. /\ handlers[n] \in Handler /\ wire[n] \in Exchange
      /\ ExchangeSound(gateway, handlers[n], wire[n], begun[n], n \in finished)
      /\ HandlerSound(gateway, handlers[n], wire[n], n \in finished)
      /\ begun \in [Number -> Nat]
  BY Slot DEF IInv, TypeOK
<1>2. CASE api_error(n)
  BY <1>2, ErrorReply DEF api_error
<1>3. CASE api_get(n)
  <2>1. /\ wire[n].at = "request" /\ wire[n].op \in Get /\ wire[n].op \notin Action
        /\ Reply(n, TRUE, Listed(n)) /\ UNCHANGED <<handlers, processes>>
    BY <1>3, Kinds DEF api_get
  <2>2. CASE handlers[n].pc = "act"
    <3>1. begun' = [begun EXCEPT ![n] = @ + 1] /\ finished' = finished \cup {n}
      BY <1>3, <2>2 DEF api_get
    <3>2. Listed(n) \in Listing
      BY DEF Listed, Age, Listing
    <3> HIDE DEF Listed
    <3> QED
      BY <2>1, <2>2, <3>1, <3>2, DoneReply
  <2>3. CASE handlers[n].pc # "act"
    <3>1. UNCHANGED history
      BY <1>3, <2>3 DEF api_get
    <3> QED
      BY <2>1, <2>3, <3>1, ReadReply
  <2> QED
    BY <2>2, <2>3
<1>4. CASE carry_out(n)
  <2> DEFINE e == [wire[n] EXCEPT !.at = "working"]
             h == handlers[n]
  <2>1. /\ wire[n].at = "request" /\ wire[n].op \in Action
        /\ begun' = [begun EXCEPT ![n] = @ + 1] /\ finished' = finished
        /\ wire' = [wire EXCEPT ![n].at = "working"] /\ handlers' = handlers
        /\ gateway' = gateway /\ up' = up /\ restarts' = restarts
    BY <1>4 DEF carry_out, processes
  <2>2. /\ e \in Exchange /\ e.at = "working" /\ e.op = wire[n].op
        /\ e.headers = wire[n].headers
    BY <1>1 DEF Exchange
  <2>3. begun[n] = 0
    BY <1>1, <2>1 DEF ExchangeSound
  <2>4. /\ begun' = [begun EXCEPT ![n] = 1] /\ handlers' = [handlers EXCEPT ![n] = h]
        /\ wire' = [wire EXCEPT ![n] = e]
    BY <1>1, <2>1, <2>3 DEF IInv, TypeOK
  <2> HIDE DEF e, h
  <2>5. h.pc \in {"act", "gone"}
    <3>1. h.pc # "fetch"
      <4>1. h.pc = "fetch" => wire[n].op = markup(h.page)[h.i] /\ h.i <= Len(markup(h.page))
        BY <1>1 DEF HandlerSound, h
      <4>2. h.page \in Page /\ h.i \in 1 .. 6
        BY <1>1 DEF Handler, h
      <4> QED
        BY <2>1, <4>1, <4>2, Markup, Kinds
    <3> QED
      BY <1>1, <2>1, <3>1 DEF ExchangeSound, Handler, h
  <2>6. HandlerSound(gateway, h, e, n \in finished')
    BY <1>1, <2>1, <2>2, <2>5 DEF HandlerSound, h
  <2>7. ExchangeSound(gateway, h, e, 1, n \in finished')
    BY <1>1, <2>1, <2>2, <2>3, <2>5 DEF ExchangeSound, h
  <2>8. /\ 1 \in Nat /\ h \in Handler /\ e \in Exchange /\ e.at # "none"
        /\ finished' = finished /\ gateway' = gateway /\ up' = up /\ restarts' = restarts
    BY <1>1, <2>1, <2>2 DEF h
  <2> QED
    BY <2>4, <2>6, <2>7, <2>8, SlotStep, Zenon
<1>5. CASE complete(n)
  <2>1. /\ wire[n].at = "working" /\ finished' = finished \cup {n} /\ begun' = begun
        /\ Reply(n, TRUE, None) /\ UNCHANGED <<handlers, processes>>
    BY <1>5 DEF complete
  <2>2. begun[n] = 1 /\ wire[n].op \in Action
    BY <1>1, <2>1 DEF ExchangeSound
  <2>3. handlers[n].pc # "fetch"
    <3>1. handlers[n].pc = "fetch" => /\ wire[n].op = markup(handlers[n].page)[handlers[n].i]
                                      /\ handlers[n].i <= Len(markup(handlers[n].page))
      BY <1>1 DEF HandlerSound
    <3>2. handlers[n].page \in Page /\ handlers[n].i \in 1 .. 6
      BY <1>1 DEF Handler
    <3> QED
      BY <2>2, <3>1, <3>2, Markup, Kinds
  <2>4. begun' = [begun EXCEPT ![n] = 1] /\ None \in Listing
    BY <1>1, <2>1, <2>2 DEF Listing
  <2>5. 1 \in Nat /\ 1 <= 1 /\ n \in finished'
    BY <2>1
  <2> QED
    BY <2>1, <2>3, <2>4, <2>5, ReplyStep, Zenon
<1> QED
  BY <1>2, <1>3, <1>4, <1>5 DEF AgentStep

\* So does the mock store, which is asked only by a gateway without an agent.
LEMMA IInvMock == ASSUME IInv, NEW n \in Number, mock_handle(n) PROVE IInv'
<1>1. /\ handlers[n] \in Handler /\ wire[n] \in Exchange
      /\ ExchangeSound(gateway, handlers[n], wire[n], begun[n], n \in finished)
      /\ HandlerSound(gateway, handlers[n], wire[n], n \in finished)
  BY Slot
<1>2. wire[n].at = "mock" /\ UNCHANGED <<handlers, processes>>
  BY DEF mock_handle, handle_mapping_action, mock_fixture
<1>3. TokenForAgent(gateway) = None /\ handlers[n].pc \in {"act", "fetch"}
  BY <1>1, <1>2 DEF ExchangeSound, Handler
<1>4. CASE handle_mapping_action(n)
  <2>1. wire[n].op \in mapping_forms
    BY <1>4 DEF handle_mapping_action
  <2>2. handlers[n].pc = "act"
    <3>1. handlers[n].pc = "fetch" => /\ wire[n].op = markup(handlers[n].page)[handlers[n].i]
                                      /\ handlers[n].i <= Len(markup(handlers[n].page))
      BY <1>1 DEF HandlerSound
    <3>2. handlers[n].page \in Page /\ handlers[n].i \in 1 .. 6
      BY <1>1 DEF Handler
    <3> QED
      BY <1>3, <2>1, <3>1, <3>2, Markup, Kinds
  <2>3. None \in Listing
    BY DEF Listing
  <2>4. CASE Reply(n, FALSE, None) /\ UNCHANGED history
    BY <1>2, <2>4, ErrorReply
  <2>5. CASE /\ Reply(n, TRUE, None)
             /\ begun' = [begun EXCEPT ![n] = @ + 1] /\ finished' = finished \cup {n}
    BY <1>2, <2>2, <2>3, <2>5, DoneReply
  <2> QED
    BY <1>4, <2>4, <2>5 DEF handle_mapping_action
<1>5. CASE mock_fixture(n)
  <2>1. wire[n].op \notin mapping_forms /\ Reply(n, TRUE, Listed(n)) /\ UNCHANGED history
    BY <1>5 DEF mock_fixture
  <2>2. handlers[n].pc = "act" => handlers[n].page # "mappings"
    BY <1>1, <2>1 DEF HandlerSound
  <2> QED
    BY <1>2, <1>3, <2>1, <2>2, ReadReply
<1> QED
  BY <1>4, <1>5 DEF mock_handle

-----------------------------------------------------------------------------
(* Failures *)

\* A step of many requests at once, which nothing is done for.
LEMMA ManyStep ==
    ASSUME IInv, UNCHANGED history,
           gateway' \in Startup \cup {None}, up' \in BOOLEAN, restarts' \in 0 .. MaxRestarts,
           handlers' \in [Number -> Handler], wire' \in [Number -> Exchange],
           \A n \in Number :
              /\ handlers'[n].pc \in {"act", "fetch"} => wire'[n].at # "none"
              /\ ExchangeSound(gateway', handlers'[n], wire'[n], begun[n], n \in finished)
              /\ HandlerSound(gateway', handlers'[n], wire'[n], n \in finished)
    PROVE  IInv'
<1>1. begun' = begun /\ finished' = finished
  BY DEF history
<1>2. TypeOK'
  BY <1>1 DEF IInv, TypeOK, Waits
<1> QED
  BY <1>1, <1>2 DEF IInv

\* A connection the agent cuts when it stops is an error to the handler: a
\* request it had begun is then not reported as done, whether or not it was.
LEMMA IInvAgentCrash == ASSUME IInv, AgentCrash PROVE IInv'
<1>1. /\ UNCHANGED history /\ handlers' = handlers /\ gateway' = gateway /\ up' = FALSE
      /\ restarts < MaxRestarts /\ restarts' = restarts + 1
  BY DEF AgentCrash
<1>2. PICK lost \in SUBSET {n \in Number : wire[n].at \in {"request", "working", "response"}} :
        wire' = [n \in Number |->
                   IF ~Waits(n) THEN Silent
                   ELSE IF n \notin lost THEN wire[n]
                   ELSE [wire[n] EXCEPT !.at = "response", !.ok = FALSE, !.listing = None]]
  BY DEF AgentCrash
<1>3. /\ wire \in [Number -> Exchange] /\ handlers \in [Number -> Handler]
      /\ restarts \in 0 .. MaxRestarts /\ gateway \in Startup \cup {None}
  BY DEF IInv, TypeOK
<1>4. restarts' \in 0 .. MaxRestarts
  BY <1>1, <1>3, BoundsAssumption
<1>5. ASSUME NEW n \in Number
      PROVE  /\ wire'[n] \in Exchange
             /\ handlers[n].pc \in {"act", "fetch"} => wire'[n].at # "none"
             /\ ExchangeSound(gateway, handlers[n], wire'[n], begun[n], n \in finished)
             /\ HandlerSound(gateway, handlers[n], wire'[n], n \in finished)
  <2> DEFINE h == handlers[n]
             e == wire'[n]
  <2>1. /\ h \in Handler /\ wire[n] \in Exchange
        /\ h.pc \in {"act", "fetch"} => wire[n].at # "none"
        /\ ExchangeSound(gateway, h, wire[n], begun[n], n \in finished)
        /\ HandlerSound(gateway, h, wire[n], n \in finished)
    BY Slot DEF IInv, TypeOK, Waits
  <2>2. CASE ~Waits(n)
    <3>1. e = Silent /\ h.pc \notin {"act", "fetch"}
      BY <1>2, <2>2 DEF Waits
    <3> HIDE DEF h, e
    <3>2. ExchangeSound(gateway, h, e, begun[n], n \in finished)
      BY <2>1, <3>1, AtRest DEF ExchangeSound
    <3>3. HandlerSound(gateway, h, e, n \in finished)
      BY <2>1, <3>1 DEF HandlerSound
    <3> QED
      BY <3>1, <3>2, <3>3, AtRest DEF h, e
  <2>3. CASE Waits(n) /\ n \notin lost
    <3>1. e = wire[n]
      BY <1>2, <2>3
    <3> QED
      BY <2>1, <3>1
  <2>4. CASE Waits(n) /\ n \in lost
    <3>1. e = [wire[n] EXCEPT !.at = "response", !.ok = FALSE, !.listing = None]
      BY <1>2, <2>4
    <3>2. /\ e \in Exchange /\ e.at = "response" /\ e.ok = FALSE /\ e.op = wire[n].op
          /\ h.pc \in {"act", "fetch"} /\ wire[n].at # "none"
      BY <1>2, <2>1, <2>4, <3>1 DEF Exchange, Listing, Waits
    <3> HIDE DEF h, e
    <3>3. ExchangeSound(gateway, h, e, begun[n], n \in finished)
      BY <2>1, <3>2 DEF ExchangeSound
    <3>4. HandlerSound(gateway, h, e, n \in finished)
      BY <2>1, <3>2 DEF HandlerSound
    <3> QED
      BY <3>2, <3>3, <3>4 DEF h, e
  <2> QED
    BY <2>2, <2>3, <2>4
<1>6. wire' \in [Number -> Exchange]
  BY <1>2, <1>5
<1>7. up' \in BOOLEAN
  BY <1>1
<1> QED
  BY <1>1, <1>3, <1>4, <1>5, <1>6, <1>7, ManyStep

\* Handlers that are dropped leave nothing behind but what the agent may still do.
LEMMA IInvDrop ==
    ASSUME IInv, NEW N, Drop(N),
           N \subseteq {n \in Number : handlers[n].pc \in {"tool", "act", "fetch", "answer"}},
           up' = up, restarts' \in 0 .. MaxRestarts,
           \/ gateway' = gateway
           \/ /\ gateway' = None
              /\ \A n \in Number : handlers[n].pc \in {"tool", "act", "fetch", "answer"} => n \in N
    PROVE  IInv'
<1>1. /\ UNCHANGED history
      /\ handlers' = [n \in Number |-> IF n \in N THEN [Fresh EXCEPT !.pc = "gone"]
                                       ELSE handlers[n]]
  BY DEF Drop
<1>2. PICK left \in SUBSET {n \in N : up /\ wire[n].at \in {"request", "working"}
                                         /\ wire[n].op \in Action} :
         wire' = [n \in Number |-> IF n \in N \ left THEN Silent ELSE wire[n]]
  BY DEF Drop
<1>3. /\ wire \in [Number -> Exchange] /\ handlers \in [Number -> Handler] /\ up \in BOOLEAN
      /\ gateway \in Startup \cup {None}
  BY DEF IInv, TypeOK
<1>4. ASSUME NEW n \in Number
      PROVE  /\ handlers'[n] \in Handler /\ wire'[n] \in Exchange
             /\ handlers'[n].pc \in {"act", "fetch"} => wire'[n].at # "none"
             /\ ExchangeSound(gateway', handlers'[n], wire'[n], begun[n], n \in finished)
             /\ HandlerSound(gateway', handlers'[n], wire'[n], n \in finished)
  <2>1. /\ handlers[n] \in Handler /\ wire[n] \in Exchange
        /\ handlers[n].pc \in {"act", "fetch"} => wire[n].at # "none"
        /\ ExchangeSound(gateway, handlers[n], wire[n], begun[n], n \in finished)
        /\ HandlerSound(gateway, handlers[n], wire[n], n \in finished)
    BY Slot DEF IInv, TypeOK, Waits
  <2>2. CASE n \in N
    <3> DEFINE h == [Fresh EXCEPT !.pc = "gone"]
               e == wire'[n]
    <3>1. handlers'[n] = h
      BY <1>1, <2>2
    <3>2. h \in Handler /\ h.pc = "gone" /\ h.page = "error" /\ h.result = "none"
      BY AtRest
    <3> HIDE DEF h
    <3>3. HandlerSound(gateway', h, e, n \in finished)
      BY <3>2, Plain
    <3>4. CASE n \in left
      <4>1. e = wire[n] /\ wire[n].at \in {"request", "working"} /\ wire[n].op \in Action
        BY <1>2, <2>2, <3>4
      <4>2. ExchangeSound(gateway', h, e, begun[n], n \in finished)
        BY <2>1, <3>2, <4>1 DEF ExchangeSound
      <4> QED
        BY <2>1, <3>1, <3>2, <3>3, <4>1, <4>2
    <3>5. CASE n \notin left
      <4>1. e = Silent
        BY <1>2, <2>2, <3>5
      <4>2. ExchangeSound(gateway', h, e, begun[n], n \in finished)
        BY <2>1, <3>2, <4>1, AtRest DEF ExchangeSound
      <4> QED
        BY <3>1, <3>2, <3>3, <4>1, <4>2, AtRest
    <3> QED
      BY <3>4, <3>5
  <2>3. CASE n \notin N
    <3>1. handlers'[n] = handlers[n] /\ wire'[n] = wire[n]
      BY <1>1, <1>2, <2>3
    <3>2. CASE gateway' = gateway
      BY <2>1, <3>1, <3>2
    <3>3. CASE gateway' # gateway
      <4>1. handlers[n].pc \in {"none", "answered", "gone"}
        BY <2>1, <2>3, <3>3 DEF Handler
      <4>2. handlers[n].page = "error"
        BY <2>1, <4>1 DEF HandlerSound
      <4>3. ExchangeSound(gateway', handlers[n], wire[n], begun[n], n \in finished)
        BY <2>1, <4>1 DEF ExchangeSound
      <4>4. HandlerSound(gateway', handlers[n], wire[n], n \in finished)
        BY <4>1, <4>2 DEF HandlerSound
      <4> QED
        BY <2>1, <3>1, <4>3, <4>4
    <3> QED
      BY <3>2, <3>3
  <2> QED
    BY <2>2, <2>3
<1>5. handlers' \in [Number -> Handler] /\ wire' \in [Number -> Exchange]
  BY <1>1, <1>2, <1>4
<1>6. gateway' \in Startup \cup {None} /\ up' \in BOOLEAN
  BY <1>3
<1> QED
  BY <1>1, <1>4, <1>5, <1>6, ManyStep

\* A gateway that comes up finds no handler.
LEMMA IInvGatewayStart == ASSUME IInv, NEW s \in Startups, GatewayStart(s) PROVE IInv'
<1>1. /\ gateway = None /\ gateway' = s
      /\ UNCHANGED <<up, restarts, handlers, wire, history>>
  BY DEF GatewayStart
<1>2. s \in Startup
  BY StartupsAssumption
<1>3. /\ up \in BOOLEAN /\ restarts \in 0 .. MaxRestarts
      /\ wire \in [Number -> Exchange] /\ handlers \in [Number -> Handler]
  BY DEF IInv, TypeOK
<1>4. ASSUME NEW n \in Number
      PROVE  /\ handlers[n].pc \notin {"act", "fetch"}
             /\ ExchangeSound(s, handlers[n], wire[n], begun[n], n \in finished)
             /\ HandlerSound(s, handlers[n], wire[n], n \in finished)
  <2>1. /\ handlers[n] \in Handler
        /\ ExchangeSound(gateway, handlers[n], wire[n], begun[n], n \in finished)
        /\ HandlerSound(gateway, handlers[n], wire[n], n \in finished)
    BY Slot
  <2>2. handlers[n].pc \in {"none", "answered", "gone"} /\ handlers[n].page = "error"
    BY <1>1, <2>1 DEF HandlerSound, Handler
  <2>3. ExchangeSound(s, handlers[n], wire[n], begun[n], n \in finished)
    BY <2>1, <2>2 DEF ExchangeSound
  <2>4. HandlerSound(s, handlers[n], wire[n], n \in finished)
    BY <2>2 DEF HandlerSound
  <2> QED
    BY <2>2, <2>3, <2>4
<1> QED
  BY <1>1, <1>2, <1>3, <1>4, ManyStep

\* A request that is cancelled has no handler any more.
LEMMA IInvCancel == ASSUME IInv, NEW n \in Number, cancel(n) PROVE IInv'
<1> DEFINE h == handlers[n]
<1>1. /\ h.pc = "gone" /\ wire' = [wire EXCEPT ![n] = Silent]
      /\ handlers' = handlers /\ UNCHANGED <<history, processes>>
  BY DEF cancel
<1>2. /\ h \in Handler /\ HandlerSound(gateway, h, wire[n], n \in finished)
      /\ ExchangeSound(gateway, h, wire[n], begun[n], n \in finished)
  BY Slot
<1>3. handlers' = [handlers EXCEPT ![n] = h]
  BY <1>1 DEF IInv, TypeOK
<1> HIDE DEF h
<1>4. HandlerSound(gateway, h, Silent, n \in finished)
  BY <1>1, <1>2 DEF HandlerSound
<1>5. ExchangeSound(gateway, h, Silent, begun[n], n \in finished)
  BY <1>1, <1>2, AtRest DEF ExchangeSound
<1> QED
  BY <1>1, <1>2, <1>3, <1>4, <1>5, AtRest, HandlerOnly

\* The invariant is inductive.
LEMMA IInvNext == IInv /\ [Next]_vars => IInv'
<1> SUFFICES ASSUME IInv, [Next]_vars PROVE IInv'
  OBVIOUS
<1>1. ASSUME NEW s \in Startups, GatewayStart(s) PROVE IInv'
  BY <1>1, IInvGatewayStart
<1>2. ASSUME NEW n \in Number, Begin(n) PROVE IInv'
  BY <1>2, IInvBegin
<1>3. ASSUME NEW n \in Number, HandlerStep(n) PROVE IInv'
  <2>1. ASSUME connect_fails(n) PROVE IInv'
    BY <2>1, ErrorReply DEF connect_fails
  <2> QED
    BY <1>3, <2>1, IInvAnswered, IInvDeliver DEF HandlerStep
<1>4. ASSUME NEW n \in Number, mock_handle(n) PROVE IInv'
  BY <1>4, IInvMock
<1>5. ASSUME NEW n \in Number, Leave(n) PROVE IInv'
  <2>1. /\ Drop({n}) /\ gateway' = gateway /\ up' = up /\ restarts' = restarts
        /\ handlers[n].pc \in {"tool", "act", "fetch"}
    BY <1>5 DEF Leave, processes
  <2>2. {n} \subseteq {m \in Number : handlers[m].pc \in {"tool", "act", "fetch", "answer"}}
    BY <2>1
  <2>3. restarts' \in 0 .. MaxRestarts
    BY <2>1 DEF IInv, TypeOK
  <2> QED
    BY <2>1, <2>2, <2>3, IInvDrop
<1>6. ASSUME NEW n \in Number, AgentStep(n) PROVE IInv'
  BY <1>6, IInvAgent
<1>7. ASSUME NEW n \in Number, cancel(n) PROVE IInv'
  BY <1>7, IInvCancel
<1>8. CASE AgentCrash
  BY <1>8, IInvAgentCrash
<1>9. ASSUME UNCHANGED <<gateway, restarts, handlers, wire, history>>, up' \in BOOLEAN
      PROVE  IInv'
  <2>1. /\ gateway \in Startup \cup {None} /\ restarts \in 0 .. MaxRestarts
        /\ wire \in [Number -> Exchange] /\ handlers \in [Number -> Handler]
        /\ \A n \in Number :
              /\ handlers[n].pc \in {"act", "fetch"} => wire[n].at # "none"
              /\ ExchangeSound(gateway, handlers[n], wire[n], begun[n], n \in finished)
              /\ HandlerSound(gateway, handlers[n], wire[n], n \in finished)
    BY DEF IInv, TypeOK, Waits
  <2> QED
    BY <1>9, <2>1, ManyStep
<1>10. CASE AgentStart
  BY <1>9, <1>10 DEF AgentStart
<1>11. CASE GatewayCrash
  <2> DEFINE N == {n \in Number : handlers[n].pc \in {"tool", "act", "fetch", "answer"}}
  <2>1. /\ Drop(N) /\ gateway' = None /\ up' = up
        /\ restarts < MaxRestarts /\ restarts' = restarts + 1
    BY <1>11 DEF GatewayCrash
  <2>2. restarts' \in 0 .. MaxRestarts
    BY <2>1, BoundsAssumption DEF IInv, TypeOK
  <2>3. \A n \in Number : handlers[n].pc \in {"tool", "act", "fetch", "answer"} => n \in N
    OBVIOUS
  <2> QED
    BY <2>1, <2>2, <2>3, IInvDrop
<1>12. CASE UNCHANGED vars
  <2>1. UNCHANGED <<gateway, restarts, handlers, wire, history>> /\ up' \in BOOLEAN
    BY <1>12 DEF vars, history, IInv, TypeOK
  <2> QED
    BY <1>9, <2>1
<1> QED
  BY <1>1, <1>2, <1>3, <1>4, <1>5, <1>6, <1>7, <1>8, <1>10, <1>11, <1>12 DEF Next

\* It holds in every state of every behaviour.
LEMMA IInvAlways == Spec => []IInv
  BY IInvInit, IInvNext, PTL DEF Spec

-----------------------------------------------------------------------------
(* Theorems *)

\* Types, and a handler that waits for the agent has an exchange to be answered on.
THEOREM TypeCorrect == Spec => []TypeOK
<1>1. IInv => TypeOK
  BY DEF IInv
<1> QED
  BY <1>1, IInvAlways, PTL

(***************************************************************************)
(* However often the agent and the gateway stop, whoever goes away and     *)
(* whatever is left on the socket, no request is begun twice.              *)
(***************************************************************************)
THEOREM CarriedOutAtMostOnce == Spec => []AtMostOnce
<1>1. IInv => AtMostOnce
  BY Slot DEF AtMostOnce
<1> QED
  BY <1>1, IInvAlways, PTL

(***************************************************************************)
(* A client that is told its request succeeded can rely on it: the agent   *)
(* carried it out to the end.                                              *)
(***************************************************************************)
THEOREM SuccessIsAlwaysReal == Spec => []SuccessIsReal
<1>1. IInv => SuccessIsReal
  <2> SUFFICES ASSUME IInv, NEW n \in Number,
                      handlers[n].pc = "answer", handlers[n].result = "ok", HasAgent
               PROVE  n \in finished
    BY DEF SuccessIsReal
  <2>1. TokenForAgent(gateway) # None
    BY DEF HasAgent, TokenForAgent
  <2> QED
    BY <2>1, Slot DEF HandlerSound
<1> QED
  BY <1>1, IInvAlways, PTL

\* The mappings page shows a list that was read, and after a form a fresh one.
THEOREM ListingAlwaysFresh == Spec => []ListingFresh
<1>1. IInv => ListingFresh
  BY DEF IInv, ListingFresh, HandlerSound, HasList
<1> QED
  BY <1>1, IInvAlways, PTL

(***************************************************************************)
(* Every request a handler has on the socket has the host edge-agent, the  *)
(* token the gateway was given for the agent and no header that ends at    *)
(* the gateway, whatever a client sends and nominates.                     *)
(***************************************************************************)
THEOREM UpstreamAlwaysRewritten == Spec => []UpstreamHeaders
<1>1. IInv => UpstreamHeaders
  BY Slot DEF UpstreamHeaders, Waits, ExchangeSound
<1> QED
  BY <1>1, IInvAlways, PTL

(***************************************************************************)
(* A gateway that was given a token, on the command line, in the           *)
(* environment or in the file, has no handler for a raw request without    *)
(* it, and of two different ones the file's never counts.                  *)
(***************************************************************************)
THEOREM ProxyAlwaysGated == Spec => []ProxyGated
<1>1. IInv => ProxyGated
  BY Slot DEF ProxyGated, HandlerSound
<1> QED
  BY <1>1, IInvAlways, PTL

\* Only a step on the exchange of a request changes what was done for it.
LEMMA HistoryStep ==
    ASSUME IInv, Next, NEW n \in Number, wire[n].at = "none"
    PROVE  begun'[n] = begun[n] /\ (n \in finished' => n \in finished)
<1>1. begun \in [Number -> Nat]
  BY DEF IInv, TypeOK
<1>2. ASSUME UNCHANGED history PROVE begun'[n] = begun[n] /\ (n \in finished' => n \in finished)
  BY <1>2 DEF history
<1>3. ASSUME NEW m \in Number, AgentStep(m) \/ mock_handle(m)
      PROVE  begun'[n] = begun[n] /\ (n \in finished' => n \in finished)
  <2>1. wire[m].at # "none"
    BY <1>3 DEF AgentStep, api_error, api_get, carry_out, complete, mock_handle,
                handle_mapping_action, mock_fixture
  <2>2. /\ begun' = begun \/ begun' = [begun EXCEPT ![m] = @ + 1]
        /\ finished' = finished \/ finished' = finished \cup {m}
    BY <1>3 DEF AgentStep, api_error, api_get, carry_out, complete, mock_handle,
                handle_mapping_action, mock_fixture, history
  <2> QED
    BY <1>1, <2>1, <2>2
<1>4. ASSUME NEW s \in Startups, GatewayStart(s) PROVE UNCHANGED history
  BY <1>4 DEF GatewayStart, history
<1>5. ASSUME NEW m \in Number, Begin(m) \/ HandlerStep(m) \/ Leave(m) \/ cancel(m)
      PROVE  UNCHANGED history
  BY <1>5 DEF Begin, submit, proxy, refuse_form, open_page, run_tool, Ask, HandlerStep, tool_ends,
              after_action, after_get, connect_fails, deliver, Leave, Drop, cancel, history
<1>6. ASSUME AgentCrash \/ AgentStart \/ GatewayCrash PROVE UNCHANGED history
  BY <1>6 DEF AgentCrash, AgentStart, GatewayCrash, Drop, history
<1> QED
  BY <1>2, <1>3, <1>4, <1>5, <1>6 DEF Next

(***************************************************************************)
(* A client that has its answer, success or error, need not fear that its  *)
(* request is still under way in the agent.                                *)
(***************************************************************************)
THEOREM NothingFollowsAnAnswer == Spec => NothingAfterAnswer
<1> DEFINE Quiet == \A n \in Number :
                      handlers[n].pc \in {"answer", "answered"} =>
                          /\ begun'[n] = begun[n]
                          /\ n \in finished' => n \in finished
<1>1. IInv /\ [Next]_vars => [Quiet]_vars
  <2> SUFFICES ASSUME IInv, Next, NEW n \in Number, handlers[n].pc \in {"answer", "answered"}
               PROVE  begun'[n] = begun[n] /\ (n \in finished' => n \in finished)
    OBVIOUS
  <2>1. wire[n].at = "none"
    BY Slot DEF ExchangeSound
  <2> QED
    BY <2>1, HistoryStep
<1> QED
  BY <1>1, IInvAlways, PTL DEF Spec, NothingAfterAnswer
=============================================================================
