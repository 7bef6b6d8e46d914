---------------------------- MODULE McpDiscovery ----------------------------
(***************************************************************************)
(* How the MCP servers a client forwards become the tools of its session:  *)
(* normalisation and validation of the list, connection and listing of     *)
(* each server with retries, the fall back to the legacy handshake, the    *)
(* catalogue of qualified names, and the routing of a call by name.        *)
(*                                                                         *)
(* Servers are discovered one after the other by one task.  What a server  *)
(* answers is open: pages in or out of order, refusals, notices, garbage,  *)
(* silence until the deadline.  The exchange of lines is in McpClient.     *)
(***************************************************************************)
EXTENDS Integers, Sequences, SequencesExt

CONSTANTS
  Forwarded,  \* bound: the lists of servers clients send
  Sanitized,  \* sanitize_component: name -> name
  Reserved,   \* HTTP headers a client may not set
  Builtins,   \* names of the builtin tools
  Attempts,   \* DISCOVERY_ATTEMPTS
  MaxPages    \* MAX_PAGE_COUNT

\* What a client sends of a server; "pages" is what that server answers.
ServerConfigs == [name : STRING, kind : {"stdio", "http", "sse"}, target : STRING,
                  headers : SUBSET STRING, pages : Seq(Seq(STRING))]

ASSUME DiscoveryAssumption ==
  /\ Attempts \in Nat \ {0} /\ MaxPages \in Nat \ {0}
  /\ Forwarded \subseteq Seq(ServerConfigs)

VARIABLES
  configs,    \* the forwarded list: name, kind, target (command or URL), headers,
              \* and what is not part of it, the tools the server has, in pages
  at,         \* position of the server at hand
  pc, attempt,
  client,     \* McpServerClient of the server at hand, with list_tools' locals
  session,    \* that server's side: "stateless", "greeted", "ready" (legacy)
  servers,    \* McpCatalog::servers
  tools,      \* McpCatalog::tools
  failed,     \* positions of the servers left out
  outcome,    \* of configure_session
  tries,      \* history: connections given up, per server, up to Attempts
  astray      \* history: servers whose last connection went to a wrong page

vars == <<configs, at, pc, attempt, client, session, servers, tools, failed,
          outcome, tries, astray>>

NoCursor == 0   \* a cursor is the number of pages before the one it asks for
NewClient == [legacy |-> FALSE, cursor |-> NoCursor, seen |-> {}, pages |-> 0, tools |-> <<>>]

Config == configs[at]
Goto(l) == pc' = l

Init ==
  /\ configs \in Forwarded
  /\ at = 0
  /\ pc = "normalize"
  /\ attempt = 0
  /\ client = NewClient
  /\ session = "stateless"
  /\ servers = <<>>
  /\ tools = <<>>
  /\ failed = {}
  /\ outcome = "pending"
  /\ tries = [i \in DOMAIN configs |-> 0]
  /\ astray = {}

-----------------------------------------------------------------------------
(* What the transports make of an answer *)

\* An HTTP answer has a status; a stdio line has none (success is TRUE).
Answers == [body : {"page", "refused", "error", "notice", "garbage", "silence"},
            success : BOOLEAN]

\* "broken": a Transport, Protocol or size error.  A notice that comes before the
\* response, on the pipe or in an event stream, is taken for it and has no id.
Parsed(body) == IF body \in {"notice", "garbage", "silence"} THEN "broken" ELSE body

StdioRequest(a) == Parsed(a.body)

\* An error object is heard whatever the status, a result only with success.
HttpRequest(a) ==
  IF a.success \/ a.body \in {"refused", "error"} THEN Parsed(a.body) ELSE "broken"

Request(kind, a) == IF kind = "stdio" THEN StdioRequest(a) ELSE HttpRequest(a)

-----------------------------------------------------------------------------
(* The list *)

Return(o) ==
  /\ outcome' = o
  /\ Goto("done")

\* normalize_server, in the adaptor
Normalizable(c) == c.kind # "sse" /\ (c.kind = "stdio" => c.target # "")

\* An empty list binds the fallback registry.
Normalize ==
  /\ pc = "normalize"
  /\ \/ configs = <<>> /\ Return("fallback")
     \/ \E i \in DOMAIN configs : ~Normalizable(configs[i]) /\ Return("rejected")
     \/ /\ configs # <<>>
        /\ \A i \in DOMAIN configs : Normalizable(configs[i])
        /\ Goto("next")
        /\ UNCHANGED outcome
  /\ UNCHANGED <<configs, at, attempt, client, session, servers, tools, failed, tries, astray>>

\* validate_custom_headers
HeadersAllowed(c) == c.headers \cap Reserved = {}

\* McpServerConfig::validate
Valid(c) == c.name # "" /\ c.target # "" /\ HeadersAllowed(c)

Unusable(c) == ~Valid(c) \/ \E i \in 1..at : configs[i].name = c.name

TakeConfig ==
  /\ pc = "next"
  /\ at < Len(configs)
  /\ at' = at + 1
  /\ attempt' = 1
  /\ IF Unusable(configs[at + 1]) THEN Return("rejected") ELSE Goto("connect") /\ UNCHANGED outcome
  /\ UNCHANGED <<configs, client, session, servers, tools, failed, tries, astray>>

-----------------------------------------------------------------------------
(* One server: connect_and_discover *)

\* Mutant: the last attempt is not made.
AttemptFailsEarly ==
  /\ tries' = [tries EXCEPT ![at] = IF @ < Attempts THEN @ + 1 ELSE @]
  /\ IF attempt + 1 < Attempts THEN Goto("backoff") /\ UNCHANGED failed
     ELSE Goto("next") /\ failed' = failed \cup {at}
  /\ UNCHANGED <<client, session, attempt>>

\* The client is dropped, and with it what it has listed.
AttemptFails ==
  /\ tries' = [tries EXCEPT ![at] = IF @ < Attempts THEN @ + 1 ELSE @]
  /\ IF attempt < Attempts THEN Goto("backoff") /\ UNCHANGED failed
     ELSE Goto("next") /\ failed' = failed \cup {at}
  /\ UNCHANGED <<client, session, attempt>>

\* Mutant: the attempts are not counted.
BackoffUncounted ==
  /\ pc = "backoff"
  /\ Goto("connect")
  /\ UNCHANGED <<configs, at, attempt, client, session, servers, tools, failed, outcome, tries,
                 astray>>

Backoff ==
  /\ pc = "backoff"
  /\ attempt' = attempt + 1
  /\ Goto("connect")
  /\ UNCHANGED <<configs, at, client, session, servers, tools, failed, outcome, tries, astray>>

Connect ==
  /\ pc = "connect"
  /\ \/ /\ Goto("list")
        /\ client' = NewClient
        /\ session' = "stateless"
        /\ astray' = astray \ {at}
        /\ UNCHANGED <<attempt, failed, tries>>
     \/ AttemptFails /\ UNCHANGED astray
  /\ UNCHANGED <<configs, at, servers, tools, outcome>>

\* McpToolDescriptor::validate
Described(page) == \A k \in DOMAIN page : page[k] # ""

\* Only a stdio server is taken for a legacy one, and only once.
ShouldFallBack(got) == got = "refused" /\ Config.kind = "stdio" /\ ~client.legacy

\* The cursor that leads to the next page, or none.
NextCursor == IF client.cursor + 1 < Len(Config.pages) THEN client.cursor + 1 ELSE NoCursor

TakePage(next) ==
  LET page == Config.pages[client.cursor + 1]
      listed == client.tools \o page
  IN
  /\ astray' = IF next = NextCursor THEN astray ELSE astray \cup {at}
  /\ \/ ~Described(page) /\ AttemptFails
     \/ /\ Described(page) /\ next = NoCursor
        /\ Goto("add")
        /\ client' = [client EXCEPT !.tools = listed]
        /\ UNCHANGED <<attempt, failed, tries, session>>
     \/ /\ Described(page) /\ next # NoCursor /\ next \notin client.seen
        /\ client' = [client EXCEPT !.tools = listed, !.cursor = next,
                                    !.seen = @ \cup {next}, !.pages = @ + 1]
        /\ UNCHANGED <<pc, attempt, failed, tries, session>>
     \/ Described(page) /\ next \in client.seen /\ AttemptFails

\* tools/list, until a page names no cursor.
ListTools ==
  /\ pc = "list"
  /\ \/ client.pages = MaxPages /\ AttemptFails /\ UNCHANGED astray
     \/ /\ client.pages < MaxPages
        /\ \E a \in Answers : LET got == Request(Config.kind, a) IN
             \/ got = "page" /\ \E next \in 0..Len(Config.pages) - 1 : TakePage(next)
             \/ /\ ShouldFallBack(got)
                /\ Goto("initialize")
                /\ UNCHANGED <<client, session, attempt, failed, tries, astray>>
             \/ got # "page" /\ ~ShouldFallBack(got) /\ AttemptFails /\ UNCHANGED astray
  /\ UNCHANGED <<configs, at, servers, tools, outcome>>

\* initialize_legacy; a result must name a protocol version.
Initialize ==
  /\ pc = "initialize"
  /\ \/ Goto("notify") /\ session' = "greeted" /\ UNCHANGED <<client, attempt, failed, tries>>
     \/ AttemptFails
  /\ UNCHANGED <<configs, at, servers, tools, outcome, astray>>

\* Mutant: the client goes on in the other dialect.
NotifyForgetting ==
  /\ pc = "notify"
  /\ \/ Goto("list") /\ session' = "ready" /\ UNCHANGED <<client, attempt, failed, tries>>
     \/ AttemptFails
  /\ UNCHANGED <<configs, at, servers, tools, outcome, astray>>

\* The refused request is then sent again, with its cursor.
Notify ==
  /\ pc = "notify"
  /\ \/ /\ Goto("list")
        /\ session' = "ready"
        /\ client' = [client EXCEPT !.legacy = TRUE]
        /\ UNCHANGED <<attempt, failed, tries>>
     \/ AttemptFails
  /\ UNCHANGED <<configs, at, servers, tools, outcome, astray>>

-----------------------------------------------------------------------------
(* The catalogue *)

Qualified(server, tool) == "mcp__" \o Sanitized[server] \o "__" \o Sanitized[tool]

\* Mutant: the index counts the servers that were left out too.
RegisteredAt(i) == [k \in DOMAIN client.tools |->
  [server |-> at, name |-> Qualified(configs[i].name, client.tools[k]), tool |-> client.tools[k]]]

\* McpRegisteredTool: the index is that of the server among those kept.
Registered(i) == [k \in DOMAIN client.tools |->
  [server |-> Len(servers) + 1, name |-> Qualified(configs[i].name, client.tools[k]),
   tool |-> client.tools[k]]]

Distinct(s) == \A i, j \in DOMAIN s : s[i].name = s[j].name => i = j

AddServer ==
  /\ pc = "add"
  /\ LET all == tools \o Registered(at) IN
       IF Distinct(all)
       THEN /\ tools' = all
            /\ servers' = Append(servers, [config |-> at, legacy |-> client.legacy,
                                           session |-> session])
            /\ Goto("next")
            /\ UNCHANGED outcome
       ELSE Return("rejected") /\ UNCHANGED <<tools, servers>>
  /\ UNCHANGED <<configs, at, attempt, client, session, failed, tries, astray>>

\* register_mcp: no qualified name is that of a builtin.
Registration == IF \E k \in DOMAIN tools : tools[k].name \in Builtins THEN "rejected" ELSE "bound"

Finish ==
  /\ pc = "next"
  /\ at = Len(configs)
  /\ Return(IF servers = <<>> THEN "all_failed" ELSE Registration)
  /\ UNCHANGED <<configs, at, attempt, client, session, servers, tools, failed, tries, astray>>

\* Whom a call reaches by its name: ToolRegistry::call_async, McpCatalog::call_async.
Route(name) ==
  IF name \in Builtins THEN [at |-> "builtin"]
  ELSE LET k == SelectInSeq(tools, LAMBDA t : t.name = name) IN
       IF k = 0 \/ tools[k].server \notin DOMAIN servers THEN [at |-> "unknown"]
       ELSE [at |-> "mcp", config |-> servers[tools[k].server].config, tool |-> tools[k].tool]

\* How a request introduces itself: with _meta, or not after the handshake
Dialect(legacy) == IF legacy THEN "legacy" ELSE "self-described"

-----------------------------------------------------------------------------
Next == \/ Normalize \/ TakeConfig \/ Connect \/ ListTools \/ Initialize \/ Notify
        \/ Backoff \/ AddServer \/ Finish

Spec == Init /\ [][Next]_vars

\* Every exchange has a deadline, and the task runs.
FairSpec == Spec /\ WF_vars(Next)

-----------------------------------------------------------------------------
(* Properties *)

Kept == {servers[k].config : k \in DOMAIN servers}
Listed(i) == FlattenSeq(configs[i].pages)   \* what server i has to offer

\* Every tool of a server that pages correctly is in the session, and a call by
\* its qualified name reaches that server and that tool, whichever servers
\* before it were retried or left out.
\* Code: McpCatalog::from_configs and call_async.
CallsReachTheirServer ==
  outcome = "bound" => \A i \in Kept \ astray : \A k \in DOMAIN Listed(i) :
    Route(Qualified(configs[i].name, Listed(i)[k])) =
      [at |-> "mcp", config |-> i, tool |-> Listed(i)[k]]

\* A defect that a retry cannot cure: a bad entry, two equal names of servers
\* or of tools, the name of a builtin, or a server whose cursors just went astray
\* and repeated a page.
Defective ==
  \/ at \in astray
  \/ \E i \in DOMAIN configs : ~Normalizable(configs[i]) \/ ~Valid(configs[i])
  \/ \E i, j \in DOMAIN configs : i # j /\ configs[i].name = configs[j].name
  \/ \E i, j \in DOMAIN configs : \E k \in DOMAIN Listed(i), l \in DOMAIN Listed(j) :
       /\ <<i, k>> # <<j, l>>
       /\ Qualified(configs[i].name, Listed(i)[k]) = Qualified(configs[j].name, Listed(j)[l])
  \/ \E i \in DOMAIN configs : \E k \in DOMAIN Listed(i) :
       Qualified(configs[i].name, Listed(i)[k]) \in Builtins

\* A server is left out only after all its attempts, one failing server costs
\* the others nothing, and a list is refused only for a defect of its own.
\* Code: connect_and_discover's loop and from_configs' `continue`.
OmittedForCause ==
  /\ \A i \in failed : tries[i] = Attempts
  /\ outcome = "bound" => Kept \cup failed = DOMAIN configs
  /\ outcome = "all_failed" => failed = DOMAIN configs
  /\ outcome = "rejected" => Defective

\* Client and server speak the same dialect, during the listing and in every
\* later call: legacy only after the whole handshake, and then always.
\* Code: legacy_mode in McpServerClient::request and initialize_legacy.
Expected(side) == IF side = "ready" THEN "legacy" ELSE "self-described"

OneDialect ==
  /\ pc = "list" => Dialect(client.legacy) = Expected(session)
  /\ \A k \in DOMAIN servers : Dialect(servers[k].legacy) = Expected(servers[k].session)

\* Configuring a session ends, whatever the servers answer: nothing pages,
\* refuses or fails for ever (the connection's handler waits for it).
\* Code: MAX_PAGE_COUNT, seen_cursors, DISCOVERY_ATTEMPTS.
DiscoveryEnds == <>(outcome # "pending")
=============================================================================
